--------------------------- MODULE CpsInitialize ---------------------------
(***************************************************************************)
(* Module initialization by the JavaScript backend: $initialize runs the   *)
(* initializers of the globals one after the other, each in a run of its   *)
(* own, and waits for one that suspends before it goes on.  While it waits *)
(* the event loop runs whatever else there is to run: CpsDriver composed   *)
(* with this loop.                                                         *)
(***************************************************************************)
EXTENDS CpsDriver

CONSTANT Initializers   \* how many initializers the module has

ASSUME InitializersAssumption == Initializers \in Nat \ {0}

VARIABLES
  index,      \* initializers taken from the list so far
  initRun,    \* run of the last one taken, until its outcome is dealt with
  globals,    \* [1..Initializers -> "unset", or the run that gave the value]
  boot        \* "running", "waiting" on $settled(state), "ready" or "failed"

bootVars == <<index, initRun, globals, boot>>
initializeVars == <<vars, bootVars>>

InitializeInit ==
  /\ Init
  /\ index = 0
  /\ initRun = Null
  /\ globals = [i \in 1 .. Initializers |-> "unset"]
  /\ boot = "running"

\* advance holds the JavaScript thread: nothing else runs between two of its
\* steps unless a driver it has started is on the stack.
Advancing == boot = "running" /\ stack = <<>>

\* The next initializer is started.
AdvanceStarts(r) ==
  /\ Advancing /\ initRun = Null /\ index < Initializers
  /\ Start(r, <<>>, TRUE)
  /\ index' = index + 1
  /\ initRun' = r
  /\ UNCHANGED <<globals, boot>>

\* Mutant: the value of an initializer is stored whether or not there is one.
AdvanceGoesOnEarly ==
  /\ Advancing /\ initRun # Null
  /\ IF outcome[initRun] \in {"none", "value"}
     THEN /\ globals' = [globals EXCEPT ![index] = initRun]
          /\ initRun' = Null
          /\ UNCHANGED boot
     ELSE boot' = "failed" /\ UNCHANGED <<globals, initRun>>
  /\ UNCHANGED <<vars, index>>

\* Its run has failed, is suspended, or has a value for the global.
AdvanceGoesOn ==
  /\ Advancing /\ initRun # Null
  /\ IF status[initRun] = "pending"
     THEN boot' = "waiting" /\ UNCHANGED <<globals, initRun>>
     ELSE IF outcome[initRun] # "value"
     THEN boot' = "failed" /\ UNCHANGED <<globals, initRun>>
     ELSE /\ globals' = [globals EXCEPT ![index] = initRun]
          /\ initRun' = Null
          /\ UNCHANGED boot
  /\ UNCHANGED <<vars, index>>

\* The reaction of $settled: the suspended run is done.
AdvanceResumes ==
  /\ boot = "waiting" /\ stack = <<>>
  /\ status[initRun] = "done"
  /\ boot' = "running"
  /\ UNCHANGED <<vars, index, initRun, globals>>

AdvanceEnds ==
  /\ Advancing /\ initRun = Null /\ index = Initializers
  /\ boot' = "ready"
  /\ UNCHANGED <<vars, index, initRun, globals>>

InitializeNext ==
  \/ \E r \in Run : AdvanceStarts(r)
  \/ AdvanceGoesOn
  \/ AdvanceResumes
  \/ AdvanceEnds
  \/ ~Advancing /\ Next /\ UNCHANGED bootVars

InitializeSpec == InitializeInit /\ [][InitializeNext]_initializeVars

-----------------------------------------------------------------------------

\* The initializers run in the order they are declared, each started after the
\* one before it ran to its end and its value was stored, whichever of them
\* suspend; and code that can import the module sees all its globals.
InitializedInOrder ==
  /\ boot = "ready" => index = Initializers
  /\ \A i \in 1 .. Initializers :
       IF i < index \/ (i = index /\ initRun = Null)
       THEN /\ globals[i] \in Run
            /\ status[globals[i]] = "done" /\ outcome[globals[i]] = "value"
       ELSE globals[i] = "unset"
=============================================================================
