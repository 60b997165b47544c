----------------------------- MODULE CpsDriver -----------------------------
(***************************************************************************)
(* The driver of the JavaScript backend (src/src/backend/cps-runtime.js).  *)
(*                                                                         *)
(* Compiled blocks never call one another: a block returns a transfer, and *)
(* $drive executes transfers until its run is done or pending.  JavaScript *)
(* enters through $invoke, foreign functions run inside a driver turn and  *)
(* may invoke Ruddy closures in turn, and a Promise-completing foreign     *)
(* call leaves a token whose settlement starts a fresh turn.               *)
(*                                                                         *)
(* A linked list of handler tags is written as the sequence of its tags,   *)
(* innermost last, so that `null` is <<>>, `h.parent` drops the last tag   *)
(* and `tag` pushed on `h` is Append(h, tag).  Values carried by transfers *)
(* are abstracted away: a block is a nondeterministic choice among the     *)
(* transfers the lowering can emit for it.                                 *)
(***************************************************************************)
EXTENDS Naturals, Sequences, FiniteSets

CONSTANTS
  Run,          \* identities of the `state` objects made by $start
  Tag,          \* identities of the handler tags made by NewTag
  Null,         \* JavaScript's null
  NativePromises, \* TRUE: promises of foreign calls settle in jobs of their own
  MaxFrames,    \* bound: continuations between two handlers
  MaxTokens,    \* bound: Promise-completing foreign calls
  MaxStack      \* bound: nesting of drivers and foreign functions

ASSUME NullAssumption == Null \notin Tag /\ Null \notin Run
ASSUME OutcomeAssumption == Tag \cap {"none", "value", "error"} = {}
ASSUME NativePromisesAssumption == NativePromises \in BOOLEAN
ASSUME BoundAssumption == MaxFrames \in Nat /\ MaxTokens \in Nat /\ MaxStack \in Nat

VARIABLES
  \* The fields of a `state` object.
  status,       \* "free" until $start; then live, pending or done
  outcome,      \* what a done run returned or threw; a tag: an abort object
  base,         \* handler context the run was started in
  h,            \* handler context of the transfer being executed
  allowSuspend, \* FALSE in a synchronous callback
  next,         \* the transfer to execute
  \* The fields of a tag object.
  allocated,    \* tags made so far
  active, owner, parent, resumption,
  \* The JavaScript engine.
  stack,        \* drivers and foreign functions being executed
  current,      \* `$active`
  tokens,       \* settlement tokens of Promise-completing foreign calls
  microtasks,   \* settlements queued by queueMicrotask
  caught        \* tags of the abort objects foreign code has been given

runVars == <<status, outcome, base, h, allowSuspend, next>>
tagVars == <<allocated, active, owner, parent, resumption>>
hostVars == <<stack, current, tokens, microtasks, caught>>
vars == <<runVars, tagVars, hostVars>>

-----------------------------------------------------------------------------
(* Data *)

Context == Seq(Tag)

\* A continuation is the sequence of frames that remain, outermost first;
\* <<>> is the root continuation of $start.  A block frame resumes a block in
\* the context it captured; that block is the rest of a function (tag = Null)
\* or of the body of a handler, which ends by leaving tag.
Frame == [kind : {"block", "convert"}, h : Context, tag : Tag \cup {Null}]
Continuation == Seq(Frame)

BlockFrame(ctx, t) == [kind |-> "block", h |-> ctx, tag |-> t]
ConvertFrame(ctx) == [kind |-> "convert", h |-> ctx, tag |-> Null]

Transfer ==
  [kind : {"step"}, h : Context, k : Continuation, tag : Tag \cup {Null},
   completion : {"None"}]
  \cup [kind : {"call", "resume"}, h : Context, k : Continuation, tag : {Null},
        completion : {"None"}]
  \cup [kind : {"raw"}, h : Context, k : Continuation, tag : {Null},
        completion : {"Immediate", "Promise"}]
  \cup [kind : {"enter", "leave"}, h : Context, k : Continuation, tag : Tag,
        completion : {"None"}]

\* A block that ends by returning to k (t = Null) or by leaving t.
step(ctx, k, t) ==
  [kind |-> "step", h |-> ctx, k |-> k, tag |-> t, completion |-> "None"]
call(k, ctx) ==
  [kind |-> "call", h |-> ctx, k |-> k, tag |-> Null, completion |-> "None"]
raw(k, ctx, completion) ==
  [kind |-> "raw", h |-> ctx, k |-> k, tag |-> Null, completion |-> completion]
resume(k) ==
  [kind |-> "resume", h |-> <<>>, k |-> k, tag |-> Null, completion |-> "None"]
enter(t, k, ctx) ==
  [kind |-> "enter", h |-> ctx, k |-> k, tag |-> t, completion |-> "None"]
leave(t, ctx) ==
  [kind |-> "leave", h |-> ctx, k |-> <<>>, tag |-> t, completion |-> "None"]

Token == [run : Run, k : Continuation, settled : BOOLEAN, calling : BOOLEAN,
          answer : {"none", "value", "error"} \cup Tag]

\* A driver remembers the `$active` it replaced; a foreign function called by
\* run with a Promise completion holds a token (0: none).
JsFrame == [kind : {"drive"}, run : Run, prev : Run \cup {Null}, token : {0}]
           \cup [kind : {"host"}, run : Run, prev : {Null}, token : Nat]
Driver(r, prev) == [kind |-> "drive", run |-> r, prev |-> prev, token |-> 0]
Host(r, token) == [kind |-> "host", run |-> r, prev |-> Null, token |-> token]

Top == stack[Len(stack)]
Pop == SubSeq(stack, 1, Len(stack) - 1)

\* The driver of r is on top of the stack and takes another turn of its loop.
Driving(r) ==
  /\ stack # <<>>
  /\ Top.kind = "drive" /\ Top.run = r
  /\ status[r] = "live"

\* Foreign code executes: a job of the event loop, or a function that a Ruddy
\* program has called.
HostRuns == stack # <<>> => Top.kind = "host"

-----------------------------------------------------------------------------
(* Handlers *)

\* $inside: the walk from ctx over `parent` meets t.
Inside(ctx, t) == \E i \in DOMAIN ctx : ctx[i] = t

\* $expire: the tags that the walk from ctx visits before it reaches stop.
Walked(ctx, stop) ==
  { ctx[i] : i \in { j \in DOMAIN ctx :
      \A n \in j .. Len(ctx) : SubSeq(ctx, 1, n) # stop } }

Expire(ctx, stop) ==
  /\ active' = [t \in Tag |-> t \notin Walked(ctx, stop) /\ active[t]]
  /\ owner' = [t \in Tag |-> IF t \in Walked(ctx, stop) THEN Null ELSE owner[t]]
  /\ resumption' = [t \in Tag |->
                      IF t \in Walked(ctx, stop) THEN Null ELSE resumption[t]]
  /\ UNCHANGED <<allocated, parent>>

\* $finish, for a run whose `h` is ctx: a run finishes once.
Finish(r, result, ctx) ==
  IF status[r] = "done" THEN UNCHANGED <<runVars, tagVars>>
  ELSE /\ Expire(ctx, base[r])
       /\ status' = [status EXCEPT ![r] = "done"]
       /\ outcome' = [outcome EXCEPT ![r] = result]
       /\ next' = [next EXCEPT ![r] = Null]
       /\ h' = [h EXCEPT ![r] = base[r]]
       /\ UNCHANGED <<base, allowSuspend>>

\* The run keeps going with transfer s.
Continue(r, s) ==
  /\ next' = [next EXCEPT ![r] = s]
  /\ UNCHANGED <<status, outcome, base, allowSuspend>>

-----------------------------------------------------------------------------
(* $start, $callback, $invoke *)

\* $start gives a run its context and its first transfer; $drive makes it
\* `$active`, keeping what was.
Start(r, ctx, suspends) ==
  /\ HostRuns
  /\ status[r] = "free"
  /\ Len(stack) < MaxStack
  /\ status' = [status EXCEPT ![r] = "live"]
  /\ base' = [base EXCEPT ![r] = ctx]
  /\ h' = [h EXCEPT ![r] = ctx]
  /\ allowSuspend' = [allowSuspend EXCEPT ![r] = suspends]
  /\ next' = [next EXCEPT ![r] = call(<<>>, ctx)]
  /\ stack' = Append(stack, Driver(r, current))
  /\ current' = r
  /\ UNCHANGED <<outcome, tagVars, tokens, microtasks, caught>>

\* Foreign code calls a closure that must answer before it returns: the run
\* extends the handler context of the run that is active.
InvokeSync(r) ==
  Start(r, IF current = Null THEN <<>> ELSE h[current], FALSE)

\* Foreign code calls a closure that answers with a Promise: an independent run.
InvokePromise(r) == Start(r, <<>>, TRUE)

\* Mutant: a driver clears `$active` where it should restore it.
DriveReturnsClearing(r) ==
  /\ stack # <<>>
  /\ Top.kind = "drive" /\ Top.run = r
  /\ status[r] # "live"
  /\ stack' = Pop
  /\ current' = Null
  /\ caught' = caught \cup ({outcome[r]} \cap Tag)
  /\ UNCHANGED <<runVars, tagVars, tokens, microtasks>>

\* $drive returns when its run is done or pending.  The caller is foreign code:
\* it is given the error of a failed run, which may be an abort object.
DriveReturns(r) ==
  /\ stack # <<>>
  /\ Top.kind = "drive" /\ Top.run = r
  /\ status[r] # "live"
  /\ stack' = Pop
  /\ current' = Top.prev
  /\ caught' = caught \cup ({outcome[r]} \cap Tag)
  /\ UNCHANGED <<runVars, tagVars, tokens, microtasks>>

-----------------------------------------------------------------------------
(* The cases of the loop of $drive *)

\* Mutant: the last call of a handler's body is not made to leave the handler.
TailCallPastHandler(s) == s.k

\* What a block passes on as its continuation: when the transfer is its last
\* act and it returns to k, k itself; else a frame for the rest of the block.
TailCall(s) == IF s.tag = Null THEN s.k ELSE <<BlockFrame(s.h, s.tag)>>
Rest(s) == IF s.tag = Null THEN Append(s.k, BlockFrame(s.h, Null))
                            ELSE <<BlockFrame(s.h, s.tag)>>
Continuations(s) == { k \in {TailCall(s), Rest(s)} : Len(k) <= MaxFrames }

\* There is room under the bounds for another foreign call.
MayCallOut(completion) ==
  /\ Len(stack) < MaxStack
  /\ completion = "Promise" => Len(tokens) < MaxTokens

\* A block computes its terminator, the next transfer, or throws.  Aborts name
\* any tag made so far: evidence outlives the handler it was made for.
Step(r) ==
  LET s == next[r] IN
  /\ Driving(r) /\ s.kind = "step"
  /\ UNCHANGED hostVars
  /\ \/ /\ h' = [h EXCEPT ![r] = s.h]
        /\ \/ Continue(r, IF s.tag = Null THEN resume(s.k) ELSE leave(s.tag, s.h))
           \/ \E k \in Continuations(s) : Continue(r, call(k, s.h))
           \/ \E k \in Continuations(s), completion \in {"Immediate", "Promise"} :
                MayCallOut(completion) /\ Continue(r, raw(k, s.h, completion))
           \/ \E t \in allocated : Continue(r, leave(t, s.h))
        /\ UNCHANGED tagVars
     \/ /\ h' = [h EXCEPT ![r] = s.h]
        /\ \E t \in Tag \ allocated, k \in Continuations(s) :
             /\ allocated' = allocated \cup {t}
             /\ Continue(r, enter(t, k, s.h))
        /\ UNCHANGED <<active, owner, parent, resumption>>
     \/ Finish(r, "error", s.h)

\* A callee is a closure, whose entry block runs in the caller's context, or a
\* native function whose result is converted for the caller, or no function.
Call(r) ==
  LET s == next[r] IN
  /\ Driving(r) /\ s.kind = "call"
  /\ UNCHANGED hostVars
  /\ \/ /\ \/ Continue(r, step(s.h, s.k, Null))
           \/ /\ MayCallOut("Immediate") /\ Len(s.k) < MaxFrames
              /\ Continue(r, raw(Append(s.k, ConvertFrame(s.h)), s.h, "Immediate"))
        /\ h' = [h EXCEPT ![r] = s.h]
        /\ UNCHANGED tagVars
     \/ Finish(r, "error", s.h)

\* A foreign function starts to execute; a Promise completion has a token.
Raw(r) ==
  LET s == next[r] IN
  /\ Driving(r) /\ s.kind = "raw"
  /\ h' = [h EXCEPT ![r] = s.h]
  /\ IF s.completion = "Promise"
     THEN /\ tokens' = Append(tokens, [run |-> r, k |-> s.k, settled |-> FALSE,
                                       calling |-> TRUE, answer |-> "none"])
          /\ stack' = Append(stack, Host(r, Len(tokens) + 1))
     ELSE /\ stack' = Append(stack, Host(r, 0))
          /\ UNCHANGED tokens
  /\ UNCHANGED <<status, outcome, base, allowSuspend, next, tagVars, current,
                 microtasks, caught>>

Resume(r) ==
  LET k == next[r].k
      top == k[Len(k)]
      below == SubSeq(k, 1, Len(k) - 1)
  IN
  /\ Driving(r) /\ next[r].kind = "resume"
  /\ UNCHANGED hostVars
  /\ \/ k = <<>> /\ Finish(r, "value", h[r])
     \/ /\ k # <<>>
        /\ Continue(r, IF top.kind = "convert" THEN resume(below)
                       ELSE step(top.h, below, top.tag))
        /\ UNCHANGED <<h, tagVars>>
     \/ k # <<>> /\ top.kind = "convert" /\ Finish(r, "error", h[r])

Enter(r) ==
  LET s == next[r] IN
  /\ Driving(r) /\ s.kind = "enter"
  /\ active' = [active EXCEPT ![s.tag] = TRUE]
  /\ parent' = [parent EXCEPT ![s.tag] = s.h]
  /\ resumption' = [resumption EXCEPT ![s.tag] = s.k]
  /\ owner' = [owner EXCEPT ![s.tag] = r]
  /\ Continue(r, step(Append(s.h, s.tag), <<>>, s.tag))
  /\ UNCHANGED <<h, allocated, hostVars>>

\* Mutant: an abort leaves the handlers inside its own open.
LeaveOneHandler(r) ==
  LET s == next[r]
      t == s.tag
  IN
  /\ Driving(r) /\ s.kind = "leave"
  /\ UNCHANGED hostVars
  /\ IF ~active[t] \/ ~Inside(s.h, t) THEN Finish(r, "error", s.h)
     ELSE IF owner[t] # r THEN Finish(r, t, s.h)
     ELSE /\ Expire(<<t>>, <<>>)
          /\ h' = [h EXCEPT ![r] = parent[t]]
          /\ Continue(r, resume(resumption[t]))

\* Mutant: an abort is accepted wherever its handler is open.
LeaveFromOutside(r) ==
  LET s == next[r]
      t == s.tag
  IN
  /\ Driving(r) /\ s.kind = "leave"
  /\ UNCHANGED hostVars
  /\ IF ~active[t] THEN Finish(r, "error", s.h)
     ELSE IF owner[t] # r THEN Finish(r, t, s.h)
     ELSE /\ Expire(s.h, parent[t])
          /\ h' = [h EXCEPT ![r] = parent[t]]
          /\ Continue(r, resume(resumption[t]))

\* Leaving a handler, by finishing its body or by an abort.  A tag of another
\* run is thrown to the driver below as an abort object.
Leave(r) ==
  LET s == next[r]
      t == s.tag
  IN
  /\ Driving(r) /\ s.kind = "leave"
  /\ UNCHANGED hostVars
  /\ IF ~active[t] \/ ~Inside(s.h, t) THEN Finish(r, "error", s.h)
     ELSE IF owner[t] # r THEN Finish(r, t, s.h)
     ELSE /\ Expire(s.h, parent[t])
          /\ h' = [h EXCEPT ![r] = parent[t]]
          /\ Continue(r, resume(resumption[t]))

-----------------------------------------------------------------------------
(* $foreign *)

\* apply, for a run that has not finished: the answer resumes or fails it.
Apply(r, k, answer) ==
  IF answer = "value"
  THEN /\ status' = [status EXCEPT ![r] = "live"]
       /\ next' = [next EXCEPT ![r] = resume(k)]
       /\ UNCHANGED <<outcome, base, h, allowSuspend, tagVars>>
  ELSE Finish(r, answer, h[r])

\* Mutant: a synchronous callback may wait for an answer.
SuspendAnyway(r) ==
  /\ status' = [status EXCEPT ![r] = "pending"]
  /\ UNCHANGED <<outcome, base, h, allowSuspend, next, tagVars>>

\* No answer yet: the run waits for one, which a synchronous callback may not.
Suspend(r) ==
  IF allowSuspend[r]
  THEN /\ status' = [status EXCEPT ![r] = "pending"]
       /\ UNCHANGED <<outcome, base, h, allowSuspend, next, tagVars>>
  ELSE Finish(r, "error", h[r])

\* The foreign function returns.  A token settled while it ran answers now; an
\* unsettled one suspends the run.
HostReturns ==
  LET r == Top.run
      n == Top.token
  IN
  /\ stack # <<>> /\ Top.kind = "host"
  /\ stack' = Pop
  /\ IF n = 0
     THEN /\ Continue(r, resume(next[r].k))
          /\ UNCHANGED <<h, tagVars, tokens>>
     ELSE /\ tokens' = [tokens EXCEPT ![n].calling = FALSE]
          /\ IF tokens[n].settled THEN Apply(r, tokens[n].k, tokens[n].answer)
             ELSE Suspend(r)
  /\ UNCHANGED <<current, microtasks, caught>>

\* The foreign function throws an error of its own: it fails the run at once,
\* or settles the token unless that has an answer already.
HostThrows ==
  LET r == Top.run
      n == Top.token
  IN
  /\ stack # <<>> /\ Top.kind = "host"
  /\ stack' = Pop
  /\ IF n = 0
     THEN Finish(r, "error", h[r]) /\ UNCHANGED tokens
     ELSE LET answer == IF tokens[n].settled THEN tokens[n].answer ELSE "error" IN
          /\ tokens' = [tokens EXCEPT ![n].calling = FALSE, ![n].settled = TRUE,
                                      ![n].answer = answer]
          /\ Apply(r, tokens[n].k, answer)
  /\ UNCHANGED <<current, microtasks, caught>>

\* The foreign function throws an abort object it was given: the run below
\* goes on with the handler exit.
HostThrowsAbort(t) ==
  LET r == Top.run IN
  /\ stack # <<>> /\ Top.kind = "host"
  /\ t \in caught
  /\ stack' = Pop
  /\ Continue(r, leave(t, h[r]))
  /\ UNCHANGED <<h, tagVars, current, tokens, microtasks, caught>>

\* Mutant: a token accepts an answer more than once.
DeliverAgain(n, answer) ==
  /\ HostRuns
  /\ NativePromises => stack = <<>>
  /\ status[tokens[n].run] # "done"
  /\ tokens' = [tokens EXCEPT ![n].settled = TRUE, ![n].answer = answer]
  /\ microtasks' = IF tokens[n].calling THEN microtasks ELSE Append(microtasks, n)
  /\ Len(microtasks) < MaxTokens + 1
  /\ UNCHANGED <<runVars, tagVars, stack, current, caught>>

\* deliver: foreign code settles the promise of a call, once.  After the call
\* has returned, the answer is applied in a turn of its own.
Deliver(n, answer) ==
  /\ HostRuns
  /\ NativePromises => stack = <<>>
  /\ ~tokens[n].settled /\ status[tokens[n].run] # "done"
  /\ tokens' = [tokens EXCEPT ![n].settled = TRUE, ![n].answer = answer]
  /\ microtasks' = IF tokens[n].calling THEN microtasks ELSE Append(microtasks, n)
  /\ UNCHANGED <<runVars, tagVars, stack, current, caught>>

\* The microtask of a settlement.
Settle ==
  LET token == tokens[Head(microtasks)]
      r == token.run
  IN
  /\ stack = <<>> /\ microtasks # <<>>
  /\ microtasks' = Tail(microtasks)
  /\ IF status[r] = "done"
     THEN UNCHANGED <<runVars, tagVars, stack, current, caught>>
     ELSE /\ Apply(r, token.k, token.answer)
          /\ IF token.answer = "value"
             THEN /\ stack' = Append(stack, Driver(r, current))
                  /\ current' = r
                  /\ UNCHANGED caught
             ELSE /\ caught' = caught \cup ({token.answer} \cap Tag)
                  /\ UNCHANGED <<stack, current>>
  /\ UNCHANGED tokens

-----------------------------------------------------------------------------

Init ==
  /\ status = [r \in Run |-> "free"]
  /\ outcome = [r \in Run |-> "none"]
  /\ base = [r \in Run |-> <<>>]
  /\ h = [r \in Run |-> <<>>]
  /\ allowSuspend = [r \in Run |-> FALSE]
  /\ next = [r \in Run |-> Null]
  /\ allocated = {}
  /\ active = [t \in Tag |-> FALSE]
  /\ owner = [t \in Tag |-> Null]
  /\ parent = [t \in Tag |-> <<>>]
  /\ resumption = [t \in Tag |-> Null]
  /\ stack = <<>>
  /\ current = Null
  /\ tokens = <<>>
  /\ microtasks = <<>>
  /\ caught = {}

DriverLoop(r) == Step(r) \/ Call(r) \/ Raw(r) \/ Resume(r) \/ Enter(r) \/ Leave(r)

Foreign ==
  \/ \E r \in Run : InvokeSync(r) \/ InvokePromise(r)
  \/ HostReturns
  \/ HostThrows
  \/ \E t \in caught : HostThrowsAbort(t)
  \/ \E n \in DOMAIN tokens, answer \in {"value", "error"} \cup caught :
       Deliver(n, answer)

Next ==
  \/ \E r \in Run : DriverLoop(r) \/ DriveReturns(r)
  \/ Foreign
  \/ Settle

Spec == Init /\ [][Next]_vars

-----------------------------------------------------------------------------
(* Correctness *)

Started(r) == status[r] \in {"live", "pending"}

\* The context a started run executes in: that of its next transfer, when the
\* transfer has one (`if (s.h !== undefined) state.h = s.h`).
Here(r) == IF next[r].kind \in {"resume", "enter"} THEN h[r] ELSE next[r].h

\* The types of all variables.
TypeOK ==
  /\ status \in [Run -> {"free", "live", "pending", "done"}]
  /\ outcome \in [Run -> {"none", "value", "error"} \cup Tag]
  /\ base \in [Run -> Context]
  /\ h \in [Run -> Context]
  /\ allowSuspend \in [Run -> BOOLEAN]
  /\ next \in [Run -> Transfer \cup {Null}]
  /\ allocated \in SUBSET Tag
  /\ active \in [Tag -> BOOLEAN]
  /\ owner \in [Tag -> Run \cup {Null}]
  /\ parent \in [Tag -> Context]
  /\ resumption \in [Tag -> Continuation \cup {Null}]
  /\ stack \in Seq(JsFrame)
  /\ current \in Run \cup {Null}
  /\ tokens \in Seq(Token)
  /\ microtasks \in Seq(DOMAIN tokens)
  /\ caught \in SUBSET Tag

\* Returning from a call, a foreign call or a handler resumes code in the
\* context that code captured: no handler leaks out of the code it encloses.
ResumesItsContext ==
  \A r \in Run : Driving(r) /\ next[r].kind = "resume" =>
    LET k == next[r].k IN
    h[r] = IF k = <<>> THEN base[r] ELSE k[Len(k)].h

\* A run that has started and not finished has exactly one way to go on: its
\* driver is on the stack once, or it is suspended on one answer that has not
\* been applied.
Drivers(r) == { i \in DOMAIN stack : stack[i].kind = "drive" /\ stack[i].run = r }
Answers(r) == { n \in DOMAIN tokens :
                  /\ tokens[n].run = r /\ ~tokens[n].calling
                  /\ \/ ~tokens[n].settled
                     \/ \E i \in DOMAIN microtasks : microtasks[i] = n }
OneWayForward ==
  \A r \in Run :
    /\ status[r] = "live" => Cardinality(Drivers(r)) = 1
    /\ status[r] = "pending" /\ Drivers(r) = {} => Cardinality(Answers(r)) = 1

\* A settlement that has been queued finds its run still waiting for it, and is
\* queued once: late and repeated answers are dropped before they are queued.
SettlementsAreAwaited ==
  /\ \A i \in DOMAIN microtasks :
       status[tokens[microtasks[i]].run] = "pending"
  /\ \A i, j \in DOMAIN microtasks :
       tokens[microtasks[i]].run = tokens[microtasks[j]].run => i = j

\* A run goes on once: by one driver or one answer, whatever order foreign
\* calls return, throw and are settled in, late and repeated answers included.
GoesOnOnce == OneWayForward /\ SettlementsAreAwaited

\* `$active` is the run of the innermost driver on the stack, so a synchronous
\* callback extends the context of the run whose foreign call it is made in.
DriverPositions == { i \in DOMAIN stack : stack[i].kind = "drive" }
ActiveIsInnermost ==
  current = IF DriverPositions = {} THEN Null
            ELSE stack[CHOOSE i \in DriverPositions :
                         \A j \in DriverPositions : j <= i].run

\* Between turns of the event loop no synchronous callback is unfinished and
\* every acceptable handler exit belongs to a suspended run.
QuietBetweenTurns ==
  stack = <<>> =>
    /\ \A r \in Run : Started(r) => status[r] = "pending" /\ allowSuspend[r]
    /\ \A t \in Tag : active[t] => status[owner[t]] = "pending"

\* An abort object is thrown only when the run it is for is executing the
\* foreign call that is on the stack below: an independent callback cannot
\* abort a suspended run.
Below(r) == { stack[i].run : i \in { j \in DOMAIN stack : stack[j].kind = "host" } }
AbortsTowardsCaller ==
  [][ \A r \in Run : Driving(r) /\ next[r].kind = "leave" /\ outcome'[r] \in Tag =>
        /\ owner[outcome'[r]] \in Below(r) \ {r}
        /\ active'[outcome'[r]] ]_vars

\* The module's docs: an abort made during a foreign call reaches its handler.
\* A run would thus never fail with an abort object for a handler of its own.
AbortNeverFailsItsOwner ==
  [][ \A r \in Run : outcome'[r] # outcome[r] /\ outcome'[r] \in Tag =>
        owner[outcome'[r]] # r ]_vars

-----------------------------------------------------------------------------
(* The driver implements HandlerExtent. *)

Entering == { next[r].tag : r \in { q \in Run : Started(q) /\ next[q].kind = "enter" } }

PhaseOf(r) == CASE status[r] = "free" -> "free"
                [] status[r] = "done" -> "over"
                [] OTHER -> "running"
ExtentOf(r) == IF Started(r) THEN SubSeq(Here(r), Len(base[r]) + 1, Len(Here(r))) ELSE <<>>
LifeOf(t) == IF active[t] THEN "live"
             ELSE IF t \in allocated \ Entering THEN "dead" ELSE "unborn"

Extent == INSTANCE HandlerExtent WITH
  Invocation <- Run,
  Handler <- Tag,
  phase <- [r \in Run |-> PhaseOf(r)],
  extent <- [r \in Run |-> ExtentOf(r)],
  life <- [t \in Tag |-> LifeOf(t)]

\* Handlers nest, belong to the run that entered them, close with everything
\* inside them and are never reopened, whatever is called, thrown or settled.
ImplementsExtent == Extent!Spec
=============================================================================
