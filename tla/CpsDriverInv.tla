---------------------------- MODULE CpsDriverInv ----------------------------
(***************************************************************************)
(* The inductive invariant behind the theorems of CpsDriverProofs.  None   *)
(* of the properties of CpsDriver is inductive: each rests on the shape of *)
(* the JavaScript stack and on what a suspended run and its token agree    *)
(* on.                                                                     *)
(***************************************************************************)
EXTENDS CpsDriver

\* Foreign functions and drivers alternate on the stack: a foreign function
\* is called by the driver under it, a driver is started by the foreign
\* function under it and remembers that function's run as the previous
\* `$active`.
Alternating ==
  \A i \in DOMAIN stack :
    /\ stack[i].kind = "host" =>
         i > 1 /\ stack[i-1].kind = "drive" /\ stack[i-1].run = stack[i].run
    /\ stack[i].kind = "drive" =>
         /\ i > 1 => stack[i-1].kind = "host"
         /\ stack[i].prev = IF i = 1 THEN Null ELSE stack[i-1].run

\* `$active` is the run of whatever is on top.
CurrentIsTop == current = IF stack = <<>> THEN Null ELSE Top.run

\* A run has at most one driver, and one that is live has one.
DriversAreOfRuns ==
  /\ \A i, j \in DOMAIN stack :
       /\ stack[i].kind = "drive" /\ stack[j].kind = "drive"
       /\ stack[i].run = stack[j].run
       => i = j
  /\ \A r \in Run : status[r] = "live" =>
       \E i \in DOMAIN stack : stack[i].kind = "drive" /\ stack[i].run = r
  /\ \A i \in DOMAIN stack : status[stack[i].run] # "free"

\* A run that is in a foreign call, or waits for one to be settled, has the
\* call as its next transfer.
AtRaw(r) == next[r].kind = "raw" /\ h[r] = next[r].h
RunsAtCalls ==
  /\ \A r \in Run : Started(r) => next[r] \in Transfer
  /\ \A r \in Run : status[r] = "pending" => AtRaw(r) /\ allowSuspend[r]
  /\ \A i \in DOMAIN stack : stack[i].kind = "host" =>
       /\ status[stack[i].run] = "live" /\ AtRaw(stack[i].run)
       /\ stack[i].token \in {0} \cup DOMAIN tokens

\* A handler exit that would be accepted has code to go on with.
ExitsResume == \A t \in Tag : active[t] => resumption[t] \in Continuation

StackInv == Alternating /\ CurrentIsTop /\ DriversAreOfRuns /\ RunsAtCalls
TypeInv == TypeOK /\ StackInv /\ ExitsResume

-----------------------------------------------------------------------------
(* Answers *)

Queued(n) == \E i \in DOMAIN microtasks : microtasks[i] = n

\* A token whose foreign call has returned and whose answer is not applied yet.
Outstanding(n) == ~tokens[n].calling /\ (~tokens[n].settled \/ Queued(n))

\* Answers that wait for their turn were given after their calls returned, and
\* wait once.
AnswersQueued ==
  /\ \A i \in DOMAIN microtasks :
       tokens[microtasks[i]].settled /\ ~tokens[microtasks[i]].calling
  /\ \A i, j \in DOMAIN microtasks : microtasks[i] = microtasks[j] => i = j

\* A run is pending exactly while it has an outstanding token, which remembers
\* how the run goes on.  A synchronous callback that may not wait is done with
\* its token outstanding, which then is never queued.
RunsAwait ==
  /\ \A n \in DOMAIN tokens : Outstanding(n) =>
       \/ status[tokens[n].run] = "pending" /\ tokens[n].k = next[tokens[n].run].k
       \/ status[tokens[n].run] = "done" /\ ~Queued(n)
  /\ \A m, n \in DOMAIN tokens :
       /\ Outstanding(m) /\ Outstanding(n)
       /\ tokens[m].run = tokens[n].run /\ status[tokens[n].run] = "pending"
       => m = n
  /\ \A r \in Run : status[r] = "pending" =>
       \E n \in DOMAIN tokens : Outstanding(n) /\ tokens[n].run = r

\* The token of a foreign call that runs is its own.
CallsHold ==
  /\ \A i \in DOMAIN stack : stack[i].kind = "host" /\ stack[i].token # 0 =>
       LET token == tokens[stack[i].token]
       IN  token.calling /\ token.run = stack[i].run /\ token.k = next[stack[i].run].k
  /\ \A i, j \in DOMAIN stack :
       /\ stack[i].kind = "host" /\ stack[j].kind = "host"
       /\ stack[i].token = stack[j].token /\ stack[i].token # 0
       => i = j

TokenInv == AnswersQueued /\ RunsAwait /\ CallsHold

-----------------------------------------------------------------------------
(* Contexts *)

\* A continuation that returns to code of run r in context ctx: every frame was
\* made there, and the outermost leaves the innermost handler or ends the run.
Fits(k, ctx, r) ==
  /\ \A i \in DOMAIN k :
       k[i].h = ctx /\ (k[i].tag # Null => i = 1 /\ k[i].kind = "block")
  /\ IF k = <<>> \/ k[1].tag = Null THEN ctx = base[r]
     ELSE Len(ctx) > Len(base[r]) /\ ctx[Len(ctx)] = k[1].tag

\* The next transfer of a run goes on in the context the run is in.
FitsNext(r) ==
  LET s == next[r] IN
  /\ s.kind = "step" /\ s.tag # Null =>
       s.k = <<>> /\ Len(s.h) > Len(base[r]) /\ s.h[Len(s.h)] = s.tag
  /\ (s.kind = "step" /\ s.tag = Null) \/ s.kind \in {"call", "raw", "enter"} =>
       Fits(s.k, s.h, r)
  /\ s.kind = "resume" => Fits(s.k, h[r], r)
  /\ s.kind = "enter" => h[r] = s.h
Fitting == \A r \in Run : Started(r) => FitsNext(r)

\* The handlers a run has entered and not left, as positions of its context.
Own(r) == (Len(base[r]) + 1) .. Len(Here(r))

\* A run's context begins with the one it was started in; then come its own
\* handlers, each in the context of those before it.
Stacked(r) ==
  /\ Len(base[r]) <= Len(Here(r))
  /\ \A i \in DOMAIN base[r] : Here(r)[i] = base[r][i]
  /\ \A i \in Own(r) : LET t == Here(r)[i] IN
       /\ active[t] /\ owner[t] = r
       /\ parent[t] = SubSeq(Here(r), 1, i - 1)
       /\ Fits(resumption[t], parent[t], r)
Nested == \A r \in Run : Started(r) => Stacked(r)

\* An open handler is in the context of its owner.
Owned ==
  \A t \in Tag : active[t] =>
    /\ t \in allocated
    /\ \E r \in Run : owner[t] = r /\ Started(r) /\ \E i \in Own(r) : Here(r)[i] = t

\* A handler about to be entered is not open and about to be entered once.
EntersOnce ==
  \A r \in Run : Started(r) /\ next[r].kind = "enter" =>
    /\ next[r].tag \in allocated /\ ~active[next[r].tag]
    /\ \A q \in Run : Started(q) /\ next[q].kind = "enter" /\ next[q].tag = next[r].tag => q = r

\* The handlers a synchronous callback was started inside belong to runs whose
\* foreign calls are below it on the stack, and stay open while it runs.
Borrowed ==
  /\ \A i \in DOMAIN stack :
       stack[i].kind = "drive" /\ status[stack[i].run] = "live" =>
         \A j \in DOMAIN base[stack[i].run] :
           LET t == base[stack[i].run][j] IN
           /\ active[t]
           /\ \E m \in 1 .. i - 1 : stack[m].kind = "host" /\ stack[m].run = owner[t]
  /\ \A r \in Run : allowSuspend[r] => base[r] = <<>>

Undecided == \A r \in Run : status[r] # "done" => outcome[r] = "none"

ExtentInv == Fitting /\ Nested /\ Owned /\ EntersOnce /\ Borrowed /\ Undecided

CpsInv == TypeInv /\ TokenInv /\ ExtentInv
=============================================================================
