--------------------------- MODULE CpsDriverProofs ---------------------------
(***************************************************************************)
(* Machine-checked theorems about CpsDriver, for every number of runs and  *)
(* tags and every bound: types, the shape of the stack, in which context a *)
(* run goes on, where an abort may go, that the driver implements          *)
(* HandlerExtent, and in which order modules are initialized.  For the     *)
(* latter every step is first classified by what it does to the contexts   *)
(* of runs (Kinds); then each kind is shown to keep ExtentInv and to be a  *)
(* step of HandlerExtent.                                                  *)
(***************************************************************************)
EXTENDS CpsDriverInv, CpsInitialize, SequenceTheorems, TLAPS, FiniteSetTheorems

-----------------------------------------------------------------------------
(* Type correctness *)

\* Every transfer the lowering and the driver build is a transfer.
LEMMA TransferTypes ==
  ASSUME NEW ctx \in Context, NEW k \in Continuation, NEW t \in Tag,
         NEW n \in Tag \cup {Null}, NEW completion \in {"Immediate", "Promise"}
  PROVE  /\ step(ctx, k, n) \in Transfer
         /\ call(k, ctx) \in Transfer
         /\ raw(k, ctx, completion) \in Transfer
         /\ resume(k) \in Transfer
         /\ enter(t, k, ctx) \in Transfer
         /\ leave(t, ctx) \in Transfer
         /\ BlockFrame(ctx, n) \in Frame
         /\ ConvertFrame(ctx) \in Frame
  BY DEF Context, Continuation, Transfer, step, call, raw, resume,
         enter, leave, Frame, BlockFrame, ConvertFrame

\* Expiring handlers keeps the tag fields well typed.
LEMMA ExpireTypes ==
  ASSUME TypeOK, NEW ctx, NEW stop, Expire(ctx, stop)
  PROVE  /\ allocated' = allocated /\ parent' = parent
         /\ active' \in [Tag -> BOOLEAN]
         /\ owner' \in [Tag -> Run \cup {Null}]
         /\ resumption' \in [Tag -> Continuation \cup {Null}]
  <1>1. \A t \in Tag : (t \notin Walked(ctx, stop) /\ active[t]) \in BOOLEAN
    OBVIOUS
  <1>2. QED
    BY <1>1 DEF TypeOK, Expire

\* The part of TypeOK that Finish touches.
RunTypes ==
  /\ status \in [Run -> {"free", "live", "pending", "done"}]
  /\ outcome \in [Run -> {"none", "value", "error"} \cup Tag]
  /\ base \in [Run -> Context]
  /\ h \in [Run -> Context]
  /\ allowSuspend \in [Run -> BOOLEAN]
  /\ next \in [Run -> Transfer \cup {Null}]
TagTypes ==
  /\ allocated \in SUBSET Tag
  /\ active \in [Tag -> BOOLEAN]
  /\ owner \in [Tag -> Run \cup {Null}]
  /\ parent \in [Tag -> Context]
  /\ resumption \in [Tag -> Continuation \cup {Null}]
HostTypes ==
  /\ stack \in Seq(JsFrame)
  /\ current \in Run \cup {Null}
  /\ tokens \in Seq(Token)
  /\ microtasks \in Seq(DOMAIN tokens)
  /\ caught \in SUBSET Tag

LEMMA TypeParts == TypeOK <=> RunTypes /\ TagTypes /\ HostTypes
  BY DEF TypeOK, RunTypes, TagTypes, HostTypes

LEMMA FinishTypes ==
  ASSUME TypeOK, NEW r \in Run, NEW result \in {"none", "value", "error"} \cup Tag,
         NEW ctx, Finish(r, result, ctx)
  PROVE  RunTypes' /\ TagTypes'
  <1>1. CASE status[r] = "done"
    BY <1>1 DEF Finish, TypeOK, RunTypes, TagTypes, runVars, tagVars
  <1>2. CASE status[r] # "done"
    <2>1. Expire(ctx, base[r])
      BY <1>2 DEF Finish
    <2>2. RunTypes'
      <3>1. /\ status' = [status EXCEPT ![r] = "done"]
            /\ outcome' = [outcome EXCEPT ![r] = result]
            /\ next' = [next EXCEPT ![r] = Null]
            /\ h' = [h EXCEPT ![r] = base[r]]
            /\ base' = base /\ allowSuspend' = allowSuspend
        BY <1>2 DEF Finish
      <3>2. outcome' \in [Run -> {"none", "value", "error"} \cup Tag]
        BY <3>1 DEF TypeOK
      <3>3. h' \in [Run -> Context] /\ base' \in [Run -> Context]
        BY <3>1 DEF TypeOK
      <3>4. next' \in [Run -> Transfer \cup {Null}]
        BY <3>1 DEF TypeOK
      <3>5. QED
        BY <3>1, <3>2, <3>3, <3>4 DEF TypeOK, RunTypes
    <2>3. TagTypes'
      BY <2>1, ExpireTypes DEF TypeOK, TagTypes
    <2>4. QED
      BY <2>2, <2>3
  <1>3. QED
    BY <1>1, <1>2

LEMMA ContinueTypes ==
  ASSUME TypeOK, NEW r \in Run, NEW s \in Transfer, Continue(r, s),
         h' \in [Run -> Context]
  PROVE  RunTypes'
  BY DEF TypeOK, Continue, RunTypes

\* A prefix of a sequence.
LEMMA PrefixOfSeq ==
  ASSUME NEW S, NEW s \in Seq(S), NEW n \in 0 .. Len(s)
  PROVE  /\ SubSeq(s, 1, n) \in Seq(S)
         /\ Len(SubSeq(s, 1, n)) = n
         /\ DOMAIN SubSeq(s, 1, n) = 1 .. n
         /\ \A i \in 1 .. n : SubSeq(s, 1, n)[i] = s[i]
  <1>1. SubSeq(s, 1, n) \in Seq(S)
    OBVIOUS
  <1>2. Len(SubSeq(s, 1, n)) = n
    OBVIOUS
  <1>3. \A i \in 1 .. n : SubSeq(s, 1, n)[i] = s[i]
    OBVIOUS
  <1>4. QED
    BY <1>1, <1>2, <1>3

\* What is left of a non-empty sequence without its last element.
LEMMA FrontOfSeq ==
  ASSUME NEW S, NEW s \in Seq(S), s # <<>>
  PROVE  /\ Len(s) \in Nat \ {0}
         /\ SubSeq(s, 1, Len(s) - 1) \in Seq(S)
         /\ Len(SubSeq(s, 1, Len(s) - 1)) = Len(s) - 1
         /\ DOMAIN SubSeq(s, 1, Len(s) - 1) = 1 .. Len(s) - 1
         /\ \A i \in 1 .. Len(s) - 1 : SubSeq(s, 1, Len(s) - 1)[i] = s[i]
  <1>1. Len(s) \in Nat \ {0} /\ Len(s) - 1 \in 0 .. Len(s)
    OBVIOUS
  <1>2. QED
    BY <1>1, PrefixOfSeq

LEMMA StackTypes ==
  ASSUME TypeOK, stack # <<>>
  PROVE  /\ Len(stack) \in Nat \ {0} /\ Len(stack) \in DOMAIN stack
         /\ Top \in JsFrame /\ Top.run \in Run
         /\ Pop \in Seq(JsFrame) /\ Len(Pop) = Len(stack) - 1
         /\ DOMAIN Pop = 1 .. Len(stack) - 1
         /\ \A i \in DOMAIN Pop : Pop[i] = stack[i]
  <1>1. stack \in Seq(JsFrame)
    BY DEF TypeOK
  <1>2. Len(stack) \in Nat \ {0} /\ Len(stack) \in DOMAIN stack
    BY <1>1
  <1>3. Top \in JsFrame
    BY <1>1, <1>2 DEF Top
  <1>4. Top.run \in Run
    BY <1>3 DEF JsFrame
  <1>5. /\ Pop \in Seq(JsFrame) /\ Len(Pop) = Len(stack) - 1
        /\ \A i \in 1 .. Len(stack) - 1 : Pop[i] = stack[i]
    BY <1>1, FrontOfSeq DEF Pop
  <1>6. QED
    BY <1>1, <1>2, <1>3, <1>4, <1>5

LEMMA NextTyped ==
  ASSUME TypeInv, NEW r \in Run, Started(r)
  PROVE  /\ next[r] \in Transfer
         /\ next[r].h \in Context /\ next[r].k \in Continuation
         /\ next[r].tag \in Tag \cup {Null}
         /\ next[r].kind \in {"enter", "leave"} => next[r].tag \in Tag
         /\ next[r].kind \in {"call", "raw", "resume"} => next[r].tag = Null
  <1>1. next[r] \in Transfer
    BY DEF TypeInv, TypeOK, StackInv, RunsAtCalls
  <1>2. QED
    BY <1>1 DEF Transfer

\* Continuations a block may pass on are continuations.
LEMMA ContinuationTypes ==
  ASSUME NEW s \in Transfer, NEW k \in Continuations(s)
  PROVE  k \in Continuation
  <1>1. s.h \in Context /\ s.k \in Continuation /\ s.tag \in Tag \cup {Null}
    BY DEF Transfer
  <1>2. BlockFrame(s.h, s.tag) \in Frame /\ BlockFrame(s.h, Null) \in Frame
    BY <1>1 DEF BlockFrame, Frame
  <1>3. TailCall(s) \in Continuation /\ Rest(s) \in Continuation
    BY <1>1, <1>2 DEF TailCall, Rest, Continuation
  <1>4. QED
    BY <1>3 DEF Continuations

LEMMA StartTypes ==
  ASSUME TypeInv, NEW r \in Run, NEW ctx \in Context, NEW suspends \in BOOLEAN,
         Start(r, ctx, suspends)
  PROVE  TypeOK'
  <1>1. RunTypes'
    <2>1. call(<<>>, ctx) \in Transfer
      BY TransferTypes DEF Continuation, call, Transfer
    <2>2. QED
      BY <2>1 DEF Start, TypeInv, TypeOK, RunTypes
  <1>2. TagTypes'
    BY DEF Start, TypeInv, TypeOK, TagTypes, tagVars
  <1>3. HostTypes'
    <2>1. Driver(r, current) \in JsFrame
      BY DEF TypeInv, TypeOK, Driver, JsFrame
    <2>2. QED
      BY <2>1 DEF Start, TypeInv, TypeOK, HostTypes
  <1>4. QED
    BY <1>1, <1>2, <1>3 DEF TypeOK, RunTypes, TagTypes, HostTypes

LEMMA InvokeTypes ==
  ASSUME TypeInv, NEW r \in Run, InvokeSync(r) \/ InvokePromise(r)
  PROVE  TypeOK'
  <1>1. CASE InvokeSync(r)
    <2>1. (IF current = Null THEN <<>> ELSE h[current]) \in Context
      BY DEF TypeInv, TypeOK, Context
    <2>2. QED
      BY <1>1, <2>1, StartTypes DEF InvokeSync
  <1>2. CASE InvokePromise(r)
    <2>1. <<>> \in Context
      BY DEF Context
    <2>2. Start(r, <<>>, TRUE)
      BY <1>2, Zenon DEF InvokePromise
    <2>3. QED
      BY <2>1, <2>2, StartTypes, Zenon
  <1>3. QED
    BY <1>1, <1>2

LEMMA DriveReturnsTypes ==
  ASSUME TypeInv, NEW r \in Run, DriveReturns(r)
  PROVE  TypeOK'
  <1>1. Pop \in Seq(JsFrame) /\ Top \in JsFrame /\ stack # <<>>
    BY StackTypes DEF TypeInv, DriveReturns
  <1>2. Top.prev \in Run \cup {Null}
    BY <1>1 DEF JsFrame
  <1>3. HostTypes'
    BY <1>1, <1>2 DEF DriveReturns, TypeInv, TypeOK, HostTypes
  <1>4. RunTypes' /\ TagTypes'
    BY DEF DriveReturns, TypeInv, TypeOK, RunTypes, TagTypes, runVars, tagVars
  <1>5. QED
    BY <1>3, <1>4 DEF TypeOK, RunTypes, TagTypes, HostTypes

LEMMA HostUnchanged == ASSUME TypeOK, UNCHANGED hostVars PROVE HostTypes'
  BY DEF TypeOK, HostTypes, hostVars
LEMMA TagUnchanged == ASSUME TypeOK, UNCHANGED tagVars PROVE TagTypes'
  BY DEF TypeOK, TagTypes, tagVars
LEMMA HereTypes ==
  ASSUME TypeOK, NEW r \in Run, NEW ctx \in Context, h' = [h EXCEPT ![r] = ctx]
  PROVE  h' \in [Run -> Context]
  BY DEF TypeOK

LEMMA StepTypes ==
  ASSUME TypeInv, NEW r \in Run, Step(r)
  PROVE  TypeOK'
  <1> DEFINE s == next[r]
  <1>1. Started(r) /\ s.kind = "step" /\ UNCHANGED hostVars
    BY DEF Step, Driving, Started
  <1>2. s \in Transfer /\ s.h \in Context /\ s.k \in Continuation /\ s.tag \in Tag \cup {Null}
    BY <1>1, NextTyped
  <1>3. \A k \in Continuations(s) : k \in Continuation
    BY <1>2, ContinuationTypes
  <1>4. TypeOK
    BY DEF TypeInv
  <1>5. CASE h' = [h EXCEPT ![r] = s.h] /\ UNCHANGED tagVars
             /\ \E u \in Transfer : Continue(r, u)
    BY <1>1, <1>2, <1>4, <1>5, HereTypes, ContinueTypes, HostUnchanged, TagUnchanged, TypeParts
       DEF TypeOK, RunTypes, TagTypes, HostTypes
  <1>6. CASE /\ h' = [h EXCEPT ![r] = s.h]
             /\ \E t \in Tag \ allocated, k \in Continuations(s) :
                  allocated' = allocated \cup {t} /\ Continue(r, enter(t, k, s.h))
             /\ UNCHANGED <<active, owner, parent, resumption>>
    <2>1. PICK t \in Tag \ allocated, k \in Continuations(s) :
             allocated' = allocated \cup {t} /\ Continue(r, enter(t, k, s.h))
      BY <1>6
    <2>2. enter(t, k, s.h) \in Transfer
      BY <2>1, <1>2, <1>3, TransferTypes
    <2>3. RunTypes'
      BY <1>2, <1>4, <1>6, <2>1, <2>2, HereTypes, ContinueTypes
    <2>4. TagTypes'
      BY <1>4, <1>6, <2>1 DEF TypeOK, TagTypes
    <2>5. QED
      BY <1>1, <1>4, <2>3, <2>4, HostUnchanged DEF TypeOK, RunTypes, TagTypes, HostTypes
  <1>7. CASE Finish(r, "error", s.h)
    <2>1. RunTypes' /\ TagTypes'
      BY <1>4, <1>7, FinishTypes
    <2>2. QED
      BY <1>1, <1>4, <2>1, HostUnchanged DEF TypeOK, RunTypes, TagTypes, HostTypes
  <1>8. ASSUME h' = [h EXCEPT ![r] = s.h] /\ UNCHANGED tagVars,
               \/ Continue(r, IF s.tag = Null THEN resume(s.k) ELSE leave(s.tag, s.h))
               \/ \E k \in Continuations(s) : Continue(r, call(k, s.h))
               \/ \E k \in Continuations(s), completion \in {"Immediate", "Promise"} :
                    MayCallOut(completion) /\ Continue(r, raw(k, s.h, completion))
               \/ \E t \in allocated : Continue(r, leave(t, s.h))
        PROVE  \E u \in Transfer : Continue(r, u)
    <2>1. (IF s.tag = Null THEN resume(s.k) ELSE leave(s.tag, s.h)) \in Transfer
      BY <1>2, TransferTypes DEF resume, leave, Transfer, Context, Continuation
    <2>2. \A k \in Continuations(s) : call(k, s.h) \in Transfer
      BY <1>2, <1>3 DEF call, Transfer
    <2>3. \A k \in Continuations(s), completion \in {"Immediate", "Promise"} :
            raw(k, s.h, completion) \in Transfer
      BY <1>2, <1>3 DEF raw, Transfer
    <2>4. \A t \in allocated : leave(t, s.h) \in Transfer
      BY <1>2, <1>4 DEF leave, Transfer, TypeOK, Continuation
    <2>5. QED
      BY <1>8, <2>1, <2>2, <2>3, <2>4
  <1>9. QED
    BY <1>5, <1>6, <1>7, <1>8 DEF Step

LEMMA CallTypes ==
  ASSUME TypeInv, NEW r \in Run, Call(r)
  PROVE  TypeOK'
  <1> DEFINE s == next[r]
  <1>1. Started(r) /\ s.kind = "call" /\ UNCHANGED hostVars
    BY DEF Call, Driving, Started
  <1>2. s \in Transfer /\ s.h \in Context /\ s.k \in Continuation
    BY <1>1, NextTyped
  <1>3. TypeOK
    BY DEF TypeInv
  <1>4. step(s.h, s.k, Null) \in Transfer
    BY <1>2 DEF step, Transfer
  <1>5. raw(Append(s.k, ConvertFrame(s.h)), s.h, "Immediate") \in Transfer
    <2>1. ConvertFrame(s.h) \in Frame
      BY <1>2 DEF ConvertFrame, Frame
    <2>2. Append(s.k, ConvertFrame(s.h)) \in Continuation
      BY <1>2, <2>1 DEF Continuation
    <2>3. QED
      BY <1>2, <2>2 DEF raw, Transfer
  <1>6. CASE Finish(r, "error", s.h)
    <2>1. RunTypes' /\ TagTypes'
      BY <1>3, <1>6, FinishTypes
    <2>2. QED
      BY <1>1, <1>3, <2>1, HostUnchanged DEF TypeOK, RunTypes, TagTypes, HostTypes
  <1>7. CASE /\ h' = [h EXCEPT ![r] = s.h] /\ UNCHANGED tagVars
             /\ \/ Continue(r, step(s.h, s.k, Null))
                \/ Continue(r, raw(Append(s.k, ConvertFrame(s.h)), s.h, "Immediate"))
    <2>1. RunTypes'
      BY <1>2, <1>3, <1>4, <1>5, <1>7, HereTypes, ContinueTypes
    <2>2. QED
      BY <1>1, <1>3, <1>7, <2>1, HostUnchanged, TagUnchanged
         DEF TypeOK, RunTypes, TagTypes, HostTypes
  <1>8. QED
    BY <1>6, <1>7 DEF Call

LEMMA RawTypes ==
  ASSUME TypeInv, NEW r \in Run, Raw(r)
  PROVE  TypeOK'
  <1> DEFINE s == next[r]
  <1>1. Started(r)
    BY DEF Raw, Driving, Started
  <1>2. s \in Transfer /\ s.h \in Context /\ s.k \in Continuation
    BY <1>1, NextTyped
  <1>3. TypeOK
    BY DEF TypeInv
  <1>4. RunTypes' /\ TagTypes'
    BY <1>2, <1>3 DEF Raw, TypeOK, RunTypes, TagTypes, tagVars
  <1>5. HostTypes'
    <2> DEFINE token == [run |-> r, k |-> s.k, settled |-> FALSE,
                         calling |-> TRUE, answer |-> "none"]
    <2>1. token \in Token
      BY <1>2 DEF Token
    <2>2. CASE s.completion = "Promise"
      <3>1. tokens' = Append(tokens, token) /\ stack' = Append(stack, Host(r, Len(tokens) + 1))
        BY <2>2 DEF Raw
      <3>2. tokens' \in Seq(Token) /\ DOMAIN tokens \subseteq DOMAIN tokens'
        BY <1>3, <2>1, <3>1 DEF TypeOK
      <3>3. Host(r, Len(tokens) + 1) \in JsFrame
        BY <1>3 DEF TypeOK, Host, JsFrame
      <3>4. microtasks \in Seq(DOMAIN tokens')
        BY <1>3, <3>2, SeqMonotonic DEF TypeOK
      <3>5. stack' \in Seq(JsFrame)
        BY <1>3, <3>1, <3>3 DEF TypeOK
      <3>6. QED
        BY <1>3, <3>2, <3>4, <3>5 DEF Raw, TypeOK, HostTypes
    <2>3. CASE s.completion # "Promise"
      <3>1. Host(r, 0) \in JsFrame
        BY DEF Host, JsFrame
      <3>2. stack' = Append(stack, Host(r, 0)) /\ UNCHANGED tokens
        BY <2>3 DEF Raw
      <3>3. QED
        BY <1>3, <3>1, <3>2 DEF Raw, TypeOK, HostTypes
    <2>4. QED
      BY <2>2, <2>3
  <1>6. QED
    BY <1>4, <1>5 DEF TypeOK, RunTypes, TagTypes, HostTypes

\* The top frame of a continuation that is not the root, and what is below it.
LEMMA FrameTypes ==
  ASSUME NEW k \in Continuation, k # <<>>
  PROVE  /\ k[Len(k)] \in Frame
         /\ SubSeq(k, 1, Len(k) - 1) \in Continuation
  BY FrontOfSeq DEF Continuation

LEMMA ResumeTypes ==
  ASSUME TypeInv, NEW r \in Run, Resume(r)
  PROVE  TypeOK'
  <1> DEFINE k == next[r].k
             top == k[Len(k)]
             below == SubSeq(k, 1, Len(k) - 1)
  <1>1. Started(r) /\ UNCHANGED hostVars
    BY DEF Resume, Driving, Started
  <1>2. k \in Continuation
    BY <1>1, NextTyped
  <1>3. TypeOK
    BY DEF TypeInv
  <1>4. ASSUME NEW result \in {"value", "error"}, Finish(r, result, h[r])
        PROVE  TypeOK'
    <2>1. RunTypes' /\ TagTypes'
      BY <1>3, <1>4, FinishTypes
    <2>2. QED
      BY <1>1, <1>3, <2>1, HostUnchanged DEF TypeOK, RunTypes, TagTypes, HostTypes
  <1>5. CASE /\ k # <<>>
             /\ Continue(r, IF top.kind = "convert" THEN resume(below)
                            ELSE step(top.h, below, top.tag))
             /\ UNCHANGED <<h, tagVars>>
    <2>1. top \in Frame /\ below \in Continuation
      BY <1>2, <1>5, FrameTypes
    <2>2. resume(below) \in Transfer /\ step(top.h, below, top.tag) \in Transfer
      BY <2>1 DEF resume, step, Transfer, Frame, Context
    <2>3. RunTypes'
      <3>1. h' \in [Run -> Context]
        BY <1>3, <1>5 DEF TypeOK
      <3>2. QED
        BY <1>3, <1>5, <2>2, <3>1, ContinueTypes
    <2>4. QED
      BY <1>1, <1>3, <1>5, <2>3, HostUnchanged, TagUnchanged
         DEF TypeOK, RunTypes, TagTypes, HostTypes
  <1>6. QED
    BY <1>4, <1>5 DEF Resume

LEMMA EnterTypes ==
  ASSUME TypeInv, NEW r \in Run, Enter(r)
  PROVE  TypeOK'
  <1> DEFINE s == next[r]
  <1>1. Started(r) /\ s.kind = "enter"
    BY DEF Enter, Driving, Started
  <1>2. s \in Transfer /\ s.h \in Context /\ s.k \in Continuation /\ s.tag \in Tag
    BY <1>1, NextTyped
  <1>3. TypeOK
    BY DEF TypeInv
  <1>4. RunTypes'
    <2>1. Append(s.h, s.tag) \in Context
      BY <1>2 DEF Context
    <2>2. step(Append(s.h, s.tag), <<>>, s.tag) \in Transfer
      BY <1>2, <2>1 DEF step, Transfer, Continuation
    <2>3. h' \in [Run -> Context]
      BY <1>3 DEF Enter, TypeOK
    <2>4. QED
      BY <1>3, <2>2, <2>3, ContinueTypes DEF Enter
  <1>5. TagTypes'
    BY <1>2, <1>3 DEF Enter, TypeOK, TagTypes
  <1>6. HostTypes'
    BY <1>3, HostUnchanged DEF Enter
  <1>7. QED
    BY <1>4, <1>5, <1>6 DEF TypeOK, RunTypes, TagTypes, HostTypes

LEMMA LeaveTypes ==
  ASSUME TypeInv, NEW r \in Run, Leave(r)
  PROVE  TypeOK'
  <1> DEFINE s == next[r]
             t == s.tag
  <1>1. Started(r) /\ s.kind = "leave" /\ UNCHANGED hostVars
    BY DEF Leave, Driving, Started
  <1>2. s \in Transfer /\ s.h \in Context /\ t \in Tag
    BY <1>1, NextTyped
  <1>3. TypeOK /\ ExitsResume
    BY DEF TypeInv
  <1>4. ASSUME NEW result \in {"error"} \cup Tag, Finish(r, result, s.h)
        PROVE  TypeOK'
    <2>1. RunTypes' /\ TagTypes'
      BY <1>3, <1>4, FinishTypes
    <2>2. QED
      BY <1>1, <1>3, <2>1, HostUnchanged DEF TypeOK, RunTypes, TagTypes, HostTypes
  <1>5. CASE /\ active[t]
             /\ Expire(s.h, parent[t])
             /\ h' = [h EXCEPT ![r] = parent[t]]
             /\ Continue(r, resume(resumption[t]))
    <2>1. resumption[t] \in Continuation /\ parent[t] \in Context
      BY <1>2, <1>3, <1>5 DEF TypeOK, ExitsResume
    <2>2. resume(resumption[t]) \in Transfer
      BY <2>1 DEF resume, Transfer, Context
    <2>3. RunTypes'
      BY <1>3, <1>5, <2>1, <2>2, HereTypes, ContinueTypes
    <2>4. TagTypes'
      BY <1>3, <1>5, ExpireTypes DEF TypeOK, TagTypes
    <2>5. QED
      BY <1>1, <1>3, <2>3, <2>4, HostUnchanged DEF TypeOK, RunTypes, TagTypes, HostTypes
  <1>6. QED
    BY <1>2, <1>4, <1>5 DEF Leave

LEMMA ApplyTypes ==
  ASSUME TypeInv, NEW r \in Run, NEW k \in Continuation,
         NEW answer \in {"none", "value", "error"} \cup Tag, Apply(r, k, answer)
  PROVE  RunTypes' /\ TagTypes'
  <1>1. TypeOK
    BY DEF TypeInv
  <1>2. CASE answer = "value"
    <2>1. resume(k) \in Transfer
      BY DEF resume, Transfer, Context
    <2>2. RunTypes'
      BY <1>1, <1>2, <2>1 DEF Apply, TypeOK, RunTypes
    <2>3. TagTypes'
      BY <1>1, <1>2, TagUnchanged DEF Apply
    <2>4. QED
      BY <2>2, <2>3
  <1>3. CASE answer # "value"
    BY <1>1, <1>3, FinishTypes DEF Apply
  <1>4. QED
    BY <1>2, <1>3

\* The frame on top when a foreign function returns or throws.
LEMMA HostFrame ==
  ASSUME TypeInv, stack # <<>>, Top.kind = "host"
  PROVE  /\ Top.run \in Run /\ status[Top.run] = "live" /\ Started(Top.run)
         /\ AtRaw(Top.run)
         /\ Top.token \in {0} \cup DOMAIN tokens
         /\ Pop \in Seq(JsFrame)
  <1>1. TypeOK /\ RunsAtCalls
    BY DEF TypeInv, StackInv
  <1>2. QED
    BY <1>1, StackTypes DEF RunsAtCalls, Top, Started

LEMMA TokenTypes ==
  ASSUME TypeOK, NEW n \in DOMAIN tokens
  PROVE  /\ tokens[n] \in Token /\ tokens[n].run \in Run
         /\ tokens[n].k \in Continuation
         /\ tokens[n].answer \in {"none", "value", "error"} \cup Tag
  <1>1. tokens[n] \in Token
    BY DEF TypeOK
  <1>2. QED
    BY <1>1 DEF Token

\* Changing one token keeps them all tokens, and keeps their numbers.
LEMMA TokenUpdate ==
  ASSUME TypeOK, NEW n \in DOMAIN tokens, NEW token \in Token,
         tokens' = [tokens EXCEPT ![n] = token]
  PROVE  /\ tokens' \in Seq(Token) /\ DOMAIN tokens' = DOMAIN tokens
         /\ microtasks \in Seq(DOMAIN tokens')
  BY DEF TypeOK

LEMMA HostReturnsTypes ==
  ASSUME TypeInv, HostReturns
  PROVE  TypeOK'
  <1> DEFINE r == Top.run
             n == Top.token
  <1>1. TypeOK
    BY DEF TypeInv
  <1>2. /\ r \in Run /\ Started(r) /\ Pop \in Seq(JsFrame)
        /\ n \in {0} \cup DOMAIN tokens
    BY HostFrame DEF HostReturns
  <1>3. stack' = Pop /\ UNCHANGED <<current, microtasks, caught>>
    BY DEF HostReturns
  <1>4. CASE n = 0
    <2>1. /\ Continue(r, resume(next[r].k)) /\ UNCHANGED <<h, tagVars, tokens>>
      BY <1>4 DEF HostReturns
    <2>2. resume(next[r].k) \in Transfer
      BY <1>2, NextTyped DEF resume, Transfer, Context
    <2>3. RunTypes'
      <3>1. h' \in [Run -> Context]
        BY <1>1, <2>1 DEF TypeOK
      <3>2. QED
        BY <1>1, <1>2, <2>1, <2>2, <3>1, ContinueTypes
    <2>4. HostTypes'
      BY <1>1, <1>2, <1>3, <2>1 DEF TypeOK, HostTypes
    <2>5. QED
      BY <1>1, <2>1, <2>3, <2>4, TagUnchanged DEF TypeOK, RunTypes, TagTypes, HostTypes
  <1>5. CASE n # 0
    <2>1. n \in DOMAIN tokens
      BY <1>2, <1>5
    <2>2. /\ tokens' = [tokens EXCEPT ![n].calling = FALSE]
          /\ IF tokens[n].settled THEN Apply(r, tokens[n].k, tokens[n].answer)
             ELSE Suspend(r)
      BY <1>5 DEF HostReturns
    <2>3. tokens[n] \in Token /\ tokens[n].k \in Continuation
          /\ tokens[n].answer \in {"none", "value", "error"} \cup Tag
      BY <1>1, <2>1, TokenTypes
    <2>4. HostTypes'
      <3>1. [tokens[n] EXCEPT !.calling = FALSE] \in Token
        BY <2>3 DEF Token
      <3>2. tokens' = [tokens EXCEPT ![n] = [tokens[n] EXCEPT !.calling = FALSE]]
        BY <2>2
      <3>3. tokens' \in Seq(Token) /\ microtasks \in Seq(DOMAIN tokens')
        BY <1>1, <2>1, <3>1, <3>2, TokenUpdate
      <3>4. QED
        BY <1>1, <1>2, <1>3, <3>3 DEF TypeOK, HostTypes
    <2>5. RunTypes' /\ TagTypes'
      <3>1. CASE tokens[n].settled
        BY <1>2, <2>2, <2>3, <3>1, ApplyTypes
      <3>2. CASE ~tokens[n].settled /\ allowSuspend[r]
        <4>1. /\ status' = [status EXCEPT ![r] = "pending"]
              /\ UNCHANGED <<outcome, base, h, allowSuspend, next, tagVars>>
          BY <2>2, <3>2 DEF Suspend
        <4>2. QED
          BY <1>1, <4>1, TagUnchanged DEF TypeOK, RunTypes
      <3>3. CASE ~tokens[n].settled /\ ~allowSuspend[r]
        <4>1. Finish(r, "error", h[r])
          BY <2>2, <3>3 DEF Suspend
        <4>2. QED
          BY <1>1, <1>2, <4>1, FinishTypes
      <3>4. QED
        BY <3>1, <3>2, <3>3
    <2>6. QED
      BY <2>4, <2>5 DEF TypeOK, RunTypes, TagTypes, HostTypes
  <1>6. QED
    BY <1>4, <1>5

LEMMA HostThrowsTypes ==
  ASSUME TypeInv, HostThrows
  PROVE  TypeOK'
  <1> DEFINE r == Top.run
             n == Top.token
  <1>1. TypeOK
    BY DEF TypeInv
  <1>2. /\ r \in Run /\ Started(r) /\ Pop \in Seq(JsFrame)
        /\ n \in {0} \cup DOMAIN tokens
    BY HostFrame DEF HostThrows
  <1>3. stack' = Pop /\ UNCHANGED <<current, microtasks, caught>>
    BY DEF HostThrows
  <1>4. CASE n = 0
    <2>1. Finish(r, "error", h[r]) /\ UNCHANGED tokens
      BY <1>4 DEF HostThrows
    <2>2. RunTypes' /\ TagTypes'
      BY <1>1, <1>2, <2>1, FinishTypes
    <2>3. HostTypes'
      BY <1>1, <1>2, <1>3, <2>1 DEF TypeOK, HostTypes
    <2>4. QED
      BY <2>2, <2>3 DEF TypeOK, RunTypes, TagTypes, HostTypes
  <1>5. CASE n # 0
    <2> DEFINE answer == IF tokens[n].settled THEN tokens[n].answer ELSE "error"
    <2>1. n \in DOMAIN tokens
      BY <1>2, <1>5
    <2>2. /\ tokens' = [tokens EXCEPT ![n].calling = FALSE, ![n].settled = TRUE,
                                      ![n].answer = answer]
          /\ Apply(r, tokens[n].k, answer)
      BY <1>5 DEF HostThrows
    <2>3. tokens[n] \in Token /\ tokens[n].k \in Continuation
          /\ answer \in {"none", "value", "error"} \cup Tag
      BY <1>1, <2>1, TokenTypes
    <2>4. HostTypes'
      <3> DEFINE token == [tokens[n] EXCEPT !.calling = FALSE, !.settled = TRUE,
                                            !.answer = answer]
      <3>1. token \in Token
        BY <2>3 DEF Token
      <3>2. tokens' = [tokens EXCEPT ![n] = token]
        BY <1>1, <2>1, <2>2 DEF TypeOK
      <3>3. tokens' \in Seq(Token) /\ microtasks \in Seq(DOMAIN tokens')
        BY <1>1, <2>1, <3>1, <3>2, TokenUpdate
      <3>4. QED
        BY <1>1, <1>2, <1>3, <3>3 DEF TypeOK, HostTypes
    <2>5. RunTypes' /\ TagTypes'
      BY <1>2, <2>2, <2>3, ApplyTypes
    <2>6. QED
      BY <2>4, <2>5 DEF TypeOK, RunTypes, TagTypes, HostTypes
  <1>6. QED
    BY <1>4, <1>5

LEMMA HostThrowsAbortTypes ==
  ASSUME TypeInv, NEW t \in caught, HostThrowsAbort(t)
  PROVE  TypeOK'
  <1> DEFINE r == Top.run
  <1>1. TypeOK /\ t \in Tag
    BY DEF TypeInv, TypeOK
  <1>2. r \in Run /\ Pop \in Seq(JsFrame)
    BY HostFrame DEF HostThrowsAbort
  <1>3. h[r] \in Context /\ leave(t, h[r]) \in Transfer
    BY <1>1, <1>2 DEF TypeOK, leave, Transfer, Continuation
  <1>4. RunTypes'
    BY <1>1, <1>2, <1>3, ContinueTypes DEF HostThrowsAbort, TypeOK
  <1>5. TagTypes'
    BY <1>1, TagUnchanged DEF HostThrowsAbort
  <1>6. HostTypes'
    BY <1>1, <1>2 DEF HostThrowsAbort, TypeOK, HostTypes
  <1>7. QED
    BY <1>4, <1>5, <1>6 DEF TypeOK, RunTypes, TagTypes, HostTypes

LEMMA DeliverTypes ==
  ASSUME TypeInv, NEW n \in DOMAIN tokens, NEW answer \in {"value", "error"} \cup caught,
         Deliver(n, answer)
  PROVE  TypeOK'
  <1> DEFINE token == [tokens[n] EXCEPT !.settled = TRUE, !.answer = answer]
  <1>1. TypeOK
    BY DEF TypeInv
  <1>2. token \in Token
    BY <1>1, TokenTypes DEF Token, TypeOK
  <1>3. tokens' = [tokens EXCEPT ![n] = token]
    BY <1>1 DEF Deliver, TypeOK
  <1>4. /\ tokens' \in Seq(Token) /\ DOMAIN tokens' = DOMAIN tokens
        /\ microtasks \in Seq(DOMAIN tokens')
    BY <1>1, <1>2, <1>3, TokenUpdate
  <1>5. microtasks' \in Seq(DOMAIN tokens')
    <2>1. n \in DOMAIN tokens'
      BY <1>4
    <2>2. Append(microtasks, n) \in Seq(DOMAIN tokens')
      BY <1>4, <2>1, AppendProperties
    <2>3. microtasks' = microtasks \/ microtasks' = Append(microtasks, n)
      BY DEF Deliver
    <2>4. QED
      BY <1>4, <2>2, <2>3
  <1>6. HostTypes'
    BY <1>1, <1>4, <1>5 DEF Deliver, TypeOK, HostTypes
  <1>7. RunTypes' /\ TagTypes'
    BY <1>1 DEF Deliver, TypeOK, RunTypes, TagTypes, runVars, tagVars
  <1>8. QED
    BY <1>6, <1>7 DEF TypeOK, RunTypes, TagTypes, HostTypes

LEMMA SettleTypes ==
  ASSUME TypeInv, Settle
  PROVE  TypeOK'
  <1> DEFINE n == Head(microtasks)
             r == tokens[n].run
  <1>1. TypeOK
    BY DEF TypeInv
  <1>2. n \in DOMAIN tokens /\ Tail(microtasks) \in Seq(DOMAIN tokens)
    BY <1>1 DEF Settle, TypeOK
  <1>3. /\ r \in Run /\ tokens[n].k \in Continuation
        /\ tokens[n].answer \in {"none", "value", "error"} \cup Tag
    BY <1>1, <1>2, TokenTypes
  <1>4. CASE status[r] = "done"
    BY <1>1, <1>2, <1>4 DEF Settle, TypeOK, runVars, tagVars
  <1>5. CASE status[r] # "done"
    <2>1. /\ Apply(r, tokens[n].k, tokens[n].answer)
          /\ \/ stack' = Append(stack, Driver(r, current)) /\ current' = r /\ UNCHANGED caught
             \/ caught' = caught \cup ({tokens[n].answer} \cap Tag) /\ UNCHANGED <<stack, current>>
          /\ microtasks' = Tail(microtasks) /\ UNCHANGED tokens
      BY <1>5 DEF Settle
    <2>2. RunTypes' /\ TagTypes'
      BY <1>3, <2>1, ApplyTypes
    <2>3. HostTypes'
      <3>1. Driver(r, current) \in JsFrame
        BY <1>1, <1>3 DEF TypeOK, Driver, JsFrame
      <3>2. stack' \in Seq(JsFrame) /\ current' \in Run \cup {Null}
        <4> HIDE DEF r
        <4>1. Append(stack, Driver(r, current)) \in Seq(JsFrame) /\ stack \in Seq(JsFrame)
          BY <1>1, <3>1, AppendProperties DEF TypeOK
        <4>2. QED
          BY <1>1, <1>3, <2>1, <4>1 DEF TypeOK
      <3>3. caught' \in SUBSET Tag
        BY <1>1, <2>1 DEF TypeOK
      <3>4. QED
        BY <1>1, <1>2, <2>1, <3>2, <3>3 DEF TypeOK, HostTypes
    <2>4. QED
      BY <2>2, <2>3 DEF TypeOK, RunTypes, TagTypes, HostTypes
  <1>6. QED
    BY <1>4, <1>5

\* Every step keeps the variables well typed.
LEMMA NextTypes ==
  ASSUME TypeInv, [Next]_vars
  PROVE  TypeOK'
  <1>1. CASE UNCHANGED vars
    BY <1>1 DEF vars, runVars, tagVars, hostVars, TypeInv, TypeOK
  <1>2. ASSUME NEW r \in Run, DriverLoop(r) PROVE TypeOK'
    BY <1>2, StepTypes, CallTypes, RawTypes, ResumeTypes, EnterTypes, LeaveTypes DEF DriverLoop
  <1>3. CASE Foreign
    BY <1>3, InvokeTypes, HostReturnsTypes, HostThrowsTypes, HostThrowsAbortTypes,
       DeliverTypes DEF Foreign
  <1>4. QED
    BY <1>1, <1>2, <1>3, DriveReturnsTypes, SettleTypes DEF Next

-----------------------------------------------------------------------------
(* The JavaScript stack *)

\* A step that concerns run r changes no other run.
OnlyRun(r) ==
  \A q \in Run \ {r} : /\ status'[q] = status[q] /\ next'[q] = next[q]
                       /\ h'[q] = h[q] /\ allowSuspend'[q] = allowSuspend[q]

LEMMA FinishOnly ==
  ASSUME TypeOK, NEW r \in Run, NEW result, NEW ctx, Finish(r, result, ctx)
  PROVE  OnlyRun(r) /\ status'[r] = "done"
  BY DEF Finish, OnlyRun, TypeOK, runVars

LEMMA ContinueOnly ==
  ASSUME TypeOK, NEW r \in Run, NEW s, Continue(r, s),
         \A q \in Run \ {r} : h'[q] = h[q]
  PROVE  OnlyRun(r) /\ status' = status /\ next'[r] = s
  BY DEF Continue, OnlyRun, TypeOK

LEMMA StartedTransfer ==
  ASSUME TypeOK', NEW r \in Run, next'[r] # Null
  PROVE  next'[r] \in Transfer
  BY DEF TypeOK

\* The frame on top of a driving run, and its place.
LEMMA DriverFrame ==
  ASSUME TypeInv, NEW r \in Run, Driving(r)
  PROVE  /\ stack # <<>> /\ current = r
         /\ \A i \in DOMAIN stack : stack[i].kind = "host" => stack[i].run # r
  <1>1. TypeOK /\ StackInv
    BY DEF TypeInv
  <1>2. stack # <<>> /\ Top.kind = "drive" /\ Top.run = r
    BY DEF Driving
  <1>3. Len(stack) \in DOMAIN stack /\ Len(stack) \in Nat /\ DOMAIN stack = 1 .. Len(stack)
    BY <1>1, <1>2, StackTypes DEF TypeOK
  <1>4. current = r
    BY <1>1, <1>2 DEF StackInv, CurrentIsTop
  <1>5. ASSUME NEW i \in DOMAIN stack, stack[i].kind = "host", stack[i].run = r
        PROVE  FALSE
    <2>1. i > 1 /\ i - 1 \in DOMAIN stack /\ stack[i-1].kind = "drive" /\ stack[i-1].run = r
      BY <1>1, <1>3, <1>5 DEF StackInv, Alternating
    <2>2. i - 1 = Len(stack)
      BY <1>1, <1>2, <1>3, <2>1 DEF StackInv, DriversAreOfRuns, Top
    <2>3. QED
      BY <1>3, <1>5, <2>2
  <1>6. QED
    BY <1>2, <1>4, <1>5

\* A turn of the loop that starts no foreign function keeps the stack; the
\* run goes on or is done.
LEMMA TurnStack ==
  ASSUME TypeInv, TypeOK', NEW r \in Run, Driving(r), UNCHANGED hostVars,
         OnlyRun(r), status'[r] \in {"live", "done"},
         status'[r] = "live" => next'[r] \in Transfer
  PROVE  StackInv'
  <1>1. TypeOK /\ StackInv
    BY DEF TypeInv
  <1>2. UNCHANGED <<stack, current, tokens>>
    BY DEF hostVars
  <1>3. Alternating' /\ CurrentIsTop'
    BY <1>1, <1>2 DEF StackInv, Alternating, CurrentIsTop, Top
  <1>4. status[r] = "live"
    BY DEF Driving
  <1>5. \A i \in DOMAIN stack : stack[i].run \in Run
    BY <1>1 DEF TypeOK, JsFrame
  <1>6. DriversAreOfRuns'
    <2>1. \A q \in Run : status'[q] = "live" => status[q] = "live"
      BY <1>4 DEF OnlyRun
    <2>2. \A q \in Run : status'[q] = "free" => status[q] = "free"
      BY DEF OnlyRun
    <2>3. QED
      BY <1>1, <1>2, <1>5, <2>1, <2>2 DEF StackInv, DriversAreOfRuns
  <1>7. RunsAtCalls'
    <2>1. \A q \in Run : Started(q)' => next'[q] \in Transfer
      BY <1>1 DEF StackInv, RunsAtCalls, Started, OnlyRun
    <2>2. \A q \in Run : status'[q] = "pending" => AtRaw(q)' /\ allowSuspend'[q]
      BY <1>1 DEF StackInv, RunsAtCalls, AtRaw, OnlyRun
    <2>3. ASSUME NEW i \in DOMAIN stack', stack'[i].kind = "host"
          PROVE  /\ status'[stack'[i].run] = "live" /\ AtRaw(stack[i].run)'
                 /\ stack'[i].token \in {0} \cup DOMAIN tokens'
      <3>1. stack[i].run # r /\ stack[i].run \in Run
        BY <1>2, <1>5, <2>3, DriverFrame
      <3>2. QED
        BY <1>1, <1>2, <2>3, <3>1 DEF StackInv, RunsAtCalls, AtRaw, OnlyRun
    <2>4. QED
      BY <1>2, <2>1, <2>2, <2>3 DEF RunsAtCalls, AtRaw
  <1>8. QED
    BY <1>3, <1>6, <1>7 DEF StackInv

\* What a turn of the loop does to its run: it goes on with a transfer or is
\* finished.
Moves(r) ==
  \/ /\ \E u \in Transfer : Continue(r, u)
     /\ \A q \in Run \ {r} : h'[q] = h[q]
  \/ \E result \in {"value", "error"} \cup Tag, ctx \in Context : Finish(r, result, ctx)

LEMMA MovesStack ==
  ASSUME TypeInv, TypeOK', NEW r \in Run, Driving(r), UNCHANGED hostVars, Moves(r)
  PROVE  StackInv'
  <1>1. TypeOK /\ status[r] = "live"
    BY DEF TypeInv, Driving
  <1>2. CASE \E result \in {"value", "error"} \cup Tag, ctx \in Context : Finish(r, result, ctx)
    BY <1>1, <1>2, FinishOnly, TurnStack
  <1>3. CASE /\ \E u \in Transfer : Continue(r, u)
             /\ \A q \in Run \ {r} : h'[q] = h[q]
    BY <1>1, <1>3, ContinueOnly, TurnStack
  <1>4. QED
    BY <1>2, <1>3 DEF Moves

LEMMA StepMoves ==
  ASSUME TypeInv, NEW r \in Run, Step(r)
  PROVE  Moves(r)
  <1> DEFINE s == next[r]
  <1>1. Started(r) /\ s.kind = "step" /\ TypeOK
    BY DEF Step, Driving, Started, TypeInv
  <1>2. s \in Transfer /\ s.h \in Context /\ s.k \in Continuation /\ s.tag \in Tag \cup {Null}
    BY <1>1, NextTyped
  <1>3. \A k \in Continuations(s) : k \in Continuation
    BY <1>2, ContinuationTypes
  <1>4. (IF s.tag = Null THEN resume(s.k) ELSE leave(s.tag, s.h)) \in Transfer
    BY <1>2 DEF resume, leave, Transfer, Context, Continuation
  <1>5. \A k \in Continuations(s) : call(k, s.h) \in Transfer
    BY <1>2, <1>3 DEF call, Transfer
  <1>6. \A k \in Continuations(s), completion \in {"Immediate", "Promise"} :
          raw(k, s.h, completion) \in Transfer
    BY <1>2, <1>3 DEF raw, Transfer
  <1>7. \A t \in allocated : leave(t, s.h) \in Transfer
    BY <1>1, <1>2 DEF leave, Transfer, TypeOK, Continuation
  <1>8. \A t \in Tag \ allocated, k \in Continuations(s) : enter(t, k, s.h) \in Transfer
    BY <1>2, <1>3 DEF enter, Transfer
  <1>9. \/ h' = [h EXCEPT ![r] = s.h] /\ \E u \in Transfer : Continue(r, u)
        \/ Finish(r, "error", s.h)
    BY <1>4, <1>5, <1>6, <1>7, <1>8 DEF Step
  <1>10. QED
    BY <1>1, <1>2, <1>9 DEF Moves, TypeOK

LEMMA CallMoves ==
  ASSUME TypeInv, NEW r \in Run, Call(r)
  PROVE  Moves(r)
  <1> DEFINE s == next[r]
  <1>1. Started(r) /\ TypeOK
    BY DEF Call, Driving, Started, TypeInv
  <1>2. s \in Transfer /\ s.h \in Context /\ s.k \in Continuation
    BY <1>1, NextTyped
  <1>3. step(s.h, s.k, Null) \in Transfer
    BY <1>2 DEF step, Transfer
  <1>4. raw(Append(s.k, ConvertFrame(s.h)), s.h, "Immediate") \in Transfer
    <2>1. ConvertFrame(s.h) \in Frame
      BY <1>2 DEF ConvertFrame, Frame
    <2>2. Append(s.k, ConvertFrame(s.h)) \in Continuation
      BY <1>2, <2>1 DEF Continuation
    <2>3. QED
      BY <1>2, <2>2 DEF raw, Transfer
  <1>5. \/ h' = [h EXCEPT ![r] = s.h] /\ \E u \in Transfer : Continue(r, u)
        \/ Finish(r, "error", s.h)
    BY <1>3, <1>4 DEF Call
  <1>6. QED
    BY <1>1, <1>2, <1>5 DEF Moves, TypeOK

LEMMA ResumeMoves ==
  ASSUME TypeInv, NEW r \in Run, Resume(r)
  PROVE  Moves(r)
  <1> DEFINE k == next[r].k
             top == k[Len(k)]
             below == SubSeq(k, 1, Len(k) - 1)
  <1>1. Started(r) /\ TypeOK
    BY DEF Resume, Driving, Started, TypeInv
  <1>2. k \in Continuation /\ h[r] \in Context
    BY <1>1, NextTyped DEF TypeOK
  <1>3. CASE \E result \in {"value", "error"} : Finish(r, result, h[r])
    BY <1>2, <1>3 DEF Moves
  <1>4. CASE /\ k # <<>>
             /\ Continue(r, IF top.kind = "convert" THEN resume(below)
                            ELSE step(top.h, below, top.tag))
             /\ h' = h
    <2>1. top \in Frame /\ below \in Continuation
      BY <1>2, <1>4, FrameTypes
    <2>2. resume(below) \in Transfer /\ step(top.h, below, top.tag) \in Transfer
      BY <2>1 DEF resume, step, Transfer, Frame, Context
    <2>3. QED
      BY <1>4, <2>2 DEF Moves
  <1>5. QED
    BY <1>3, <1>4 DEF Resume

LEMMA EnterMoves ==
  ASSUME TypeInv, NEW r \in Run, Enter(r)
  PROVE  Moves(r)
  <1> DEFINE s == next[r]
  <1>1. Started(r) /\ s.kind = "enter"
    BY DEF Enter, Driving, Started
  <1>2. s.h \in Context /\ s.tag \in Tag
    BY <1>1, NextTyped
  <1>3. Append(s.h, s.tag) \in Context
    BY <1>2 DEF Context
  <1>4. step(Append(s.h, s.tag), <<>>, s.tag) \in Transfer
    BY <1>2, <1>3 DEF step, Transfer, Continuation
  <1>5. QED
    BY <1>4 DEF Enter, Moves

LEMMA LeaveMoves ==
  ASSUME TypeInv, NEW r \in Run, Leave(r)
  PROVE  Moves(r)
  <1> DEFINE s == next[r]
             t == s.tag
  <1>1. Started(r) /\ s.kind = "leave" /\ TypeOK /\ ExitsResume
    BY DEF Leave, Driving, Started, TypeInv
  <1>2. s.h \in Context /\ t \in Tag
    BY <1>1, NextTyped
  <1>3. CASE \E result \in {"error"} \cup Tag : Finish(r, result, s.h)
    BY <1>2, <1>3 DEF Moves
  <1>4. CASE active[t] /\ h' = [h EXCEPT ![r] = parent[t]] /\ Continue(r, resume(resumption[t]))
    <2>1. resume(resumption[t]) \in Transfer
      BY <1>1, <1>2, <1>4 DEF resume, Transfer, Context, ExitsResume
    <2>2. QED
      BY <1>1, <1>4, <2>1 DEF Moves, TypeOK
  <1>5. QED
    BY <1>2, <1>3, <1>4 DEF Leave

LEMMA LoopStack ==
  ASSUME TypeInv, TypeOK', NEW r \in Run, DriverLoop(r), ~Raw(r)
  PROVE  StackInv'
  <1>1. Driving(r) /\ UNCHANGED hostVars
    BY DEF DriverLoop, Step, Call, Resume, Enter, Leave
  <1>2. Moves(r)
    BY StepMoves, CallMoves, ResumeMoves, EnterMoves, LeaveMoves DEF DriverLoop
  <1>3. QED
    BY <1>1, <1>2, MovesStack

\* A driver is pushed for a run that has none.
LEMMA PushDriver ==
  ASSUME TypeInv, TypeOK', NEW r \in Run, HostRuns, OnlyRun(r),
         \A i \in DOMAIN stack : stack[i].run # r,
         stack' = Append(stack, Driver(r, current)), current' = r, tokens' = tokens,
         status'[r] = "live", next'[r] \in Transfer
  PROVE  StackInv'
  <1> DEFINE d == Driver(r, current)
             n == Len(stack)
  <1>1. TypeOK /\ StackInv
    BY DEF TypeInv
  <1>2. stack \in Seq(JsFrame) /\ d \in JsFrame
    BY <1>1 DEF TypeOK, Driver, JsFrame
  <1>3. /\ n \in Nat /\ DOMAIN stack = 1 .. n /\ Len(stack') = n + 1
        /\ DOMAIN stack' = 1 .. n + 1 /\ stack'[n + 1] = d
        /\ \A i \in 1 .. n : stack'[i] = stack[i]
    BY <1>2, AppendProperties
  <1>4. d.kind = "drive" /\ d.run = r /\ d.prev = current
    BY DEF Driver
  <1>5. n > 0 => stack[n].kind = "host"
    BY <1>3 DEF HostRuns, Top
  <1>6. current = IF n = 0 THEN Null ELSE stack[n].run
    BY <1>1, <1>2, <1>3 DEF StackInv, CurrentIsTop, Top
  <1>7. Alternating'
    <2> SUFFICES ASSUME NEW i \in 1 .. n + 1
                 PROVE  /\ stack'[i].kind = "host" =>
                             i > 1 /\ stack'[i-1].kind = "drive" /\ stack'[i-1].run = stack'[i].run
                        /\ stack'[i].kind = "drive" =>
                             /\ i > 1 => stack'[i-1].kind = "host"
                             /\ stack'[i].prev = IF i = 1 THEN Null ELSE stack'[i-1].run
      BY <1>3 DEF Alternating
    <2>1. CASE i = n + 1
      <3>1. stack'[i] = d
        BY <1>3, <2>1
      <3>2. i > 1 => n > 0 /\ stack'[i-1] = stack[n]
        <4> SUFFICES ASSUME i > 1 PROVE n > 0 /\ stack'[i-1] = stack[n]
          OBVIOUS
        <4>1. n > 0 /\ i - 1 = n /\ n \in 1 .. n
          BY <1>3, <2>1
        <4>2. QED
          BY <1>3, <4>1
      <3>3. i = 1 <=> n = 0
        BY <1>3, <2>1
      <3>4. QED
        BY <1>3, <1>4, <1>5, <1>6, <3>1, <3>2, <3>3
    <2>2. CASE i \in 1 .. n
      <3>1. stack'[i] = stack[i] /\ (i > 1 => stack'[i-1] = stack[i-1])
        BY <1>3, <2>2
      <3>2. QED
        BY <1>1, <1>3, <2>2, <3>1 DEF StackInv, Alternating
    <2>3. QED
      BY <1>3, <2>1, <2>2
  <1>8. CurrentIsTop'
    BY <1>3, <1>4 DEF CurrentIsTop, Top
  <1>9. DriversAreOfRuns'
    <2>1. ASSUME NEW i \in 1 .. n + 1, NEW j \in 1 .. n + 1,
                 stack'[i].kind = "drive", stack'[j].kind = "drive",
                 stack'[i].run = stack'[j].run
          PROVE  i = j
      BY <1>1, <1>3, <1>4, <2>1 DEF StackInv, DriversAreOfRuns
    <2>2. ASSUME NEW q \in Run, status'[q] = "live"
          PROVE  \E i \in 1 .. n + 1 : stack'[i].kind = "drive" /\ stack'[i].run = q
      <3>1. CASE q = r
        BY <1>3, <1>4, <3>1
      <3>2. CASE q # r
        BY <1>1, <1>3, <2>2, <3>2 DEF StackInv, DriversAreOfRuns, OnlyRun
      <3>3. QED
        BY <3>1, <3>2
    <2>3. ASSUME NEW i \in 1 .. n + 1
          PROVE  status'[stack'[i].run] # "free"
      <3>1. CASE i = n + 1
        BY <1>3, <1>4, <3>1
      <3>2. CASE i \in 1 .. n
        <4>1. stack[i].run \in Run \ {r}
          BY <1>2, <1>3, <3>2 DEF JsFrame
        <4>2. QED
          BY <1>1, <1>3, <3>2, <4>1 DEF StackInv, DriversAreOfRuns, OnlyRun
      <3>3. QED
        BY <1>3, <3>1, <3>2
    <2>4. QED
      BY <1>3, <2>1, <2>2, <2>3 DEF DriversAreOfRuns
  <1>10. RunsAtCalls'
    <2>1. \A q \in Run : Started(q)' => next'[q] \in Transfer
      BY <1>1 DEF StackInv, RunsAtCalls, Started, OnlyRun
    <2>2. \A q \in Run : status'[q] = "pending" => AtRaw(q)' /\ allowSuspend'[q]
      BY <1>1 DEF StackInv, RunsAtCalls, AtRaw, OnlyRun
    <2>3. ASSUME NEW i \in 1 .. n + 1, stack'[i].kind = "host"
          PROVE  /\ status'[stack'[i].run] = "live" /\ AtRaw(stack[i].run)'
                 /\ stack'[i].token \in {0} \cup DOMAIN tokens'
      <3>1. i \in 1 .. n
        BY <1>3, <1>4, <2>3
      <3>2. stack[i].run \in Run \ {r}
        BY <1>2, <1>3, <3>1 DEF JsFrame
      <3>3. QED
        BY <1>1, <1>3, <2>3, <3>1, <3>2 DEF StackInv, RunsAtCalls, AtRaw, OnlyRun
    <2>4. QED
      BY <1>3, <2>1, <2>2, <2>3 DEF RunsAtCalls
  <1>11. QED
    BY <1>7, <1>8, <1>9, <1>10 DEF StackInv

LEMMA StartStack ==
  ASSUME TypeInv, TypeOK', NEW r \in Run, NEW ctx \in Context, NEW suspends \in BOOLEAN,
         Start(r, ctx, suspends)
  PROVE  StackInv'
  <1>1. TypeOK /\ StackInv
    BY DEF TypeInv
  <1>2. OnlyRun(r) /\ status'[r] = "live"
    BY <1>1 DEF Start, TypeOK, OnlyRun
  <1>3. next'[r] \in Transfer
    <2>1. next'[r] = call(<<>>, ctx)
      BY <1>1 DEF Start, TypeOK
    <2>2. QED
      BY <2>1 DEF call, Transfer, Continuation
  <1>4. \A i \in DOMAIN stack : stack[i].run # r
    BY <1>1 DEF Start, StackInv, DriversAreOfRuns
  <1>5. QED
    BY <1>2, <1>3, <1>4, PushDriver DEF Start

LEMMA InvokeStack ==
  ASSUME TypeInv, TypeOK', NEW r \in Run, InvokeSync(r) \/ InvokePromise(r)
  PROVE  StackInv'
  <1>1. CASE InvokeSync(r)
    <2>1. (IF current = Null THEN <<>> ELSE h[current]) \in Context
      BY DEF TypeInv, TypeOK, Context
    <2>2. QED
      BY <1>1, <2>1, StartStack DEF InvokeSync
  <1>2. CASE InvokePromise(r)
    <2>1. <<>> \in Context
      BY DEF Context
    <2>2. Start(r, <<>>, TRUE)
      BY <1>2, Zenon DEF InvokePromise
    <2>3. QED
      BY <2>1, <2>2, StartStack, Zenon
  <1>3. QED
    BY <1>1, <1>2

\* The top frame is popped; what is under a driver or a foreign function is as
\* Alternating says.
LEMMA PoppedStack ==
  ASSUME TypeInv, TypeOK', stack # <<>>, stack' = Pop,
         current' = IF Top.kind = "drive" THEN Top.prev ELSE current
  PROVE  /\ Alternating' /\ CurrentIsTop'
         /\ DOMAIN stack' = 1 .. Len(stack) - 1
         /\ \A i \in DOMAIN stack' : stack'[i] = stack[i] /\ i \in DOMAIN stack
  <1> DEFINE n == Len(stack)
  <1>1. TypeOK /\ StackInv
    BY DEF TypeInv
  <1>2. /\ n \in Nat \ {0} /\ DOMAIN stack = 1 .. n /\ Len(stack') = n - 1
        /\ DOMAIN stack' = 1 .. n - 1 /\ \A i \in 1 .. n - 1 : stack'[i] = stack[i]
    BY <1>1, StackTypes DEF TypeOK
  <1>3. Alternating'
    <2> SUFFICES ASSUME NEW i \in 1 .. n - 1
                 PROVE  /\ stack'[i].kind = "host" =>
                             i > 1 /\ stack'[i-1].kind = "drive" /\ stack'[i-1].run = stack'[i].run
                        /\ stack'[i].kind = "drive" =>
                             /\ i > 1 => stack'[i-1].kind = "host"
                             /\ stack'[i].prev = IF i = 1 THEN Null ELSE stack'[i-1].run
      BY <1>2 DEF Alternating
    <2>1. stack'[i] = stack[i] /\ i \in DOMAIN stack
      BY <1>2
    <2>2. i > 1 => stack'[i-1] = stack[i-1]
      <3> SUFFICES ASSUME i > 1 PROVE stack'[i-1] = stack[i-1]
        OBVIOUS
      <3>1. i - 1 \in 1 .. n - 1
        BY <1>2
      <3>2. QED
        BY <1>2, <3>1
    <2>3. QED
      BY <1>1, <1>2, <2>1, <2>2 DEF StackInv, Alternating
  <1>4. CurrentIsTop'
    <2>1. /\ Top.kind = "host" => n > 1 /\ stack[n-1].run = Top.run
          /\ Top.kind = "drive" => Top.prev = IF n = 1 THEN Null ELSE stack[n-1].run
      BY <1>1, <1>2 DEF StackInv, Alternating, Top
    <2>2. current = Top.run
      BY <1>1 DEF StackInv, CurrentIsTop
    <2>3. Top.kind \in {"host", "drive"}
      BY <1>1, StackTypes DEF JsFrame
    <2>4. current' = IF n = 1 THEN Null ELSE stack[n-1].run
      BY <1>2, <2>1, <2>2, <2>3
    <2>5. CASE n = 1
      <3>1. stack' = <<>>
        BY <1>1, <1>2, <2>5 DEF Pop, TypeOK
      <3>2. QED
        BY <2>4, <2>5, <3>1 DEF CurrentIsTop
    <2>6. CASE n # 1
      <3>1. stack' # <<>> /\ n - 1 \in 1 .. n - 1
        BY <1>2, <2>6
      <3>2. Top' = stack[n-1]
        BY <1>2, <3>1 DEF Top
      <3>3. QED
        BY <2>4, <2>6, <3>1, <3>2 DEF CurrentIsTop
    <2>7. QED
      BY <2>5, <2>6
  <1>5. QED
    BY <1>2, <1>3, <1>4

LEMMA DriveReturnsStack ==
  ASSUME TypeInv, TypeOK', NEW r \in Run, DriveReturns(r)
  PROVE  StackInv'
  <1>1. TypeOK /\ StackInv
    BY DEF TypeInv
  <1>2. stack # <<>> /\ Top.kind = "drive" /\ Top.run = r /\ status[r] # "live"
        /\ stack' = Pop /\ current' = Top.prev
    BY DEF DriveReturns
  <1>3. UNCHANGED <<status, next, h, allowSuspend, tokens>>
    BY DEF DriveReturns, runVars
  <1>4. /\ Alternating' /\ CurrentIsTop' /\ DOMAIN stack' = 1 .. Len(stack) - 1
        /\ \A i \in DOMAIN stack' : stack'[i] = stack[i] /\ i \in DOMAIN stack
    BY <1>2, PoppedStack
  <1>5. DriversAreOfRuns'
    <2>1. ASSUME NEW q \in Run, status[q] = "live"
          PROVE  \E i \in DOMAIN stack' : stack'[i].kind = "drive" /\ stack'[i].run = q
      <3>1. PICK i \in DOMAIN stack : stack[i].kind = "drive" /\ stack[i].run = q
        BY <1>1, <2>1 DEF StackInv, DriversAreOfRuns
      <3>2. i # Len(stack)
        BY <1>2, <2>1, <3>1 DEF Top
      <3>3. i \in DOMAIN stack'
        BY <1>1, <1>4, <3>1, <3>2 DEF TypeOK
      <3>4. QED
        BY <1>4, <3>1, <3>3
    <2>2. QED
      BY <1>1, <1>3, <1>4, <2>1 DEF StackInv, DriversAreOfRuns
  <1>6. RunsAtCalls'
    BY <1>1, <1>3, <1>4 DEF StackInv, RunsAtCalls, AtRaw, Started
  <1>7. QED
    BY <1>4, <1>5, <1>6 DEF StackInv

\* A foreign function is pushed for the run that has called it.
LEMMA RawStack ==
  ASSUME TypeInv, TypeOK', NEW r \in Run, Raw(r)
  PROVE  StackInv'
  <1> DEFINE n == Len(stack)
             token == IF next[r].completion = "Promise" THEN Len(tokens) + 1 ELSE 0
             f == Host(r, token)
  <1>1. TypeOK /\ StackInv /\ Driving(r)
    BY DEF TypeInv, Raw
  <1>2. /\ stack' = Append(stack, f) /\ current' = current
        /\ UNCHANGED <<status, next, allowSuspend>> /\ h' = [h EXCEPT ![r] = next[r].h]
        /\ next[r].kind = "raw"
    BY DEF Raw
  <1>3. stack # <<>> /\ Top.kind = "drive" /\ Top.run = r /\ status[r] = "live" /\ current = r
    BY <1>1, DriverFrame DEF Driving
  <1>4. f.kind = "host" /\ f.run = r /\ f.token = token
    BY DEF Host
  <1>5. token \in {0} \cup DOMAIN tokens' /\ DOMAIN tokens \subseteq DOMAIN tokens'
    <2>1. CASE next[r].completion = "Promise"
      BY <1>1, <2>1 DEF Raw, TypeOK
    <2>2. CASE next[r].completion # "Promise"
      BY <2>2 DEF Raw
    <2>3. QED
      BY <2>1, <2>2
  <1> HIDE DEF token, f
  <1>6. f \in JsFrame
    <2>1. token \in Nat
      BY <1>1 DEF TypeOK, token
    <2>2. QED
      BY <2>1 DEF f, Host, JsFrame
  <1>7. /\ n \in Nat \ {0} /\ DOMAIN stack = 1 .. n /\ Len(stack') = n + 1
        /\ DOMAIN stack' = 1 .. n + 1 /\ stack'[n + 1] = f
        /\ \A i \in 1 .. n : stack'[i] = stack[i]
    <2>1. stack \in Seq(JsFrame)
      BY <1>1 DEF TypeOK
    <2>2. QED
      BY <1>2, <1>3, <1>6, <2>1, AppendProperties, StackTypes, <1>1
  <1>8. Alternating'
    <2> SUFFICES ASSUME NEW i \in 1 .. n + 1
                 PROVE  /\ stack'[i].kind = "host" =>
                             i > 1 /\ stack'[i-1].kind = "drive" /\ stack'[i-1].run = stack'[i].run
                        /\ stack'[i].kind = "drive" =>
                             /\ i > 1 => stack'[i-1].kind = "host"
                             /\ stack'[i].prev = IF i = 1 THEN Null ELSE stack'[i-1].run
      BY <1>7 DEF Alternating
    <2>1. CASE i = n + 1
      <3>1. stack'[i] = f /\ i > 1
        BY <1>7, <2>1
      <3>2. i - 1 = n /\ n \in 1 .. n
        BY <1>7, <2>1
      <3>3. stack'[i-1] = Top
        BY <1>7, <3>2 DEF Top
      <3>4. QED
        BY <1>3, <1>4, <3>1, <3>3
    <2>2. CASE i \in 1 .. n
      <3>1. stack'[i] = stack[i]
        BY <1>7, <2>2
      <3>2. i > 1 => stack'[i-1] = stack[i-1]
        <4> SUFFICES ASSUME i > 1 PROVE stack'[i-1] = stack[i-1]
          OBVIOUS
        <4>1. i - 1 \in 1 .. n
          BY <1>7, <2>2
        <4>2. QED
          BY <1>7, <4>1
      <3>3. QED
        BY <1>1, <1>7, <2>2, <3>1, <3>2 DEF StackInv, Alternating
    <2>3. QED
      BY <1>7, <2>1, <2>2
  <1>9. CurrentIsTop'
    BY <1>2, <1>3, <1>4, <1>7 DEF CurrentIsTop, Top
  <1>10. DriversAreOfRuns'
    <2>1. ASSUME NEW i \in 1 .. n + 1, stack'[i].kind = "drive"
          PROVE  i \in 1 .. n
      BY <1>4, <1>7, <2>1
    <2>2. \A i \in 1 .. n + 1 : status[stack'[i].run] # "free"
      BY <1>1, <1>3, <1>4, <1>7 DEF StackInv, DriversAreOfRuns
    <2>3. QED
      BY <1>1, <1>2, <1>7, <2>1, <2>2 DEF StackInv, DriversAreOfRuns
  <1>11. RunsAtCalls'
    <2>1. \A q \in Run : q # r => h'[q] = h[q]
      BY <1>1, <1>2 DEF TypeOK
    <2>2. h'[r] = next'[r].h
      BY <1>1, <1>2 DEF TypeOK
    <2>3. \A q \in Run : Started(q)' => next'[q] \in Transfer
      BY <1>1, <1>2 DEF StackInv, RunsAtCalls, Started
    <2>4. \A q \in Run : status'[q] = "pending" => AtRaw(q)' /\ allowSuspend'[q]
      BY <1>1, <1>2, <1>3, <2>1 DEF StackInv, RunsAtCalls, AtRaw
    <2>5. ASSUME NEW i \in 1 .. n + 1, stack'[i].kind = "host"
          PROVE  /\ status'[stack'[i].run] = "live" /\ AtRaw(stack[i].run)'
                 /\ stack'[i].token \in {0} \cup DOMAIN tokens'
      <3>1. CASE i = n + 1
        <4>1. stack'[i].run = r /\ stack'[i].token = token
          BY <1>4, <1>7, <3>1
        <4>2. QED
          BY <1>2, <1>3, <1>5, <2>2, <4>1 DEF AtRaw
      <3>2. CASE i \in 1 .. n
        <4>1. stack[i].run \in Run /\ stack[i].run # r
          <5>1. stack[i].run \in Run
            BY <1>1, <1>7, <3>2 DEF TypeOK, JsFrame
          <5>2. QED
            BY <1>1, <1>7, <2>5, <3>2, <5>1, DriverFrame
        <4>2. QED
          BY <1>1, <1>2, <1>5, <1>7, <2>1, <2>5, <3>2, <4>1 DEF StackInv, RunsAtCalls, AtRaw
      <3>3. QED
        BY <1>7, <3>1, <3>2
    <2>6. QED
      BY <1>7, <2>3, <2>4, <2>5 DEF RunsAtCalls, AtRaw
  <1>12. QED
    BY <1>8, <1>9, <1>10, <1>11 DEF StackInv

\* A foreign function is popped; the run that called it goes on, is done, or
\* is suspended on the call.
LEMMA PopHost ==
  ASSUME TypeInv, TypeOK', stack # <<>>, Top.kind = "host", stack' = Pop,
         current' = current, DOMAIN tokens' = DOMAIN tokens,
         OnlyRun(Top.run), allowSuspend' = allowSuspend,
         \/ status'[Top.run] = "done"
         \/ status'[Top.run] = "live" /\ next'[Top.run] \in Transfer
         \/ /\ status'[Top.run] = "pending" /\ allowSuspend[Top.run]
            /\ next'[Top.run] = next[Top.run] /\ h'[Top.run] = h[Top.run]
  PROVE  StackInv'
  <1> DEFINE r == Top.run
             n == Len(stack)
  <1>1. TypeOK /\ StackInv
    BY DEF TypeInv
  <1>2. /\ Alternating' /\ CurrentIsTop' /\ DOMAIN stack' = 1 .. n - 1
        /\ \A i \in DOMAIN stack' : stack'[i] = stack[i] /\ i \in DOMAIN stack
    BY PoppedStack
  <1>3. /\ n \in Nat \ {0} /\ n \in DOMAIN stack /\ DOMAIN stack = 1 .. n
        /\ \A i \in DOMAIN stack : stack[i].run \in Run
    BY <1>1, StackTypes DEF TypeOK, JsFrame
  <1>4. r \in Run /\ status[r] = "live" /\ AtRaw(r)
    BY HostFrame
  <1>5. \A i \in DOMAIN stack' : stack[i].kind = "host" => stack[i].run # r
    <2> SUFFICES ASSUME NEW i \in DOMAIN stack', stack[i].kind = "host", stack[i].run = r
                 PROVE  FALSE
      OBVIOUS
    <2>1. i \in DOMAIN stack /\ i < n
      BY <1>2, <1>3
    <2>2. i > 1 /\ stack[i-1].kind = "drive" /\ stack[i-1].run = r /\ i - 1 \in DOMAIN stack
      BY <1>1, <1>3, <2>1 DEF StackInv, Alternating
    <2>3. n > 1 /\ stack[n-1].kind = "drive" /\ stack[n-1].run = r /\ n - 1 \in DOMAIN stack
      BY <1>1, <1>3 DEF StackInv, Alternating, Top
    <2>4. i - 1 = n - 1
      BY <1>1, <2>2, <2>3 DEF StackInv, DriversAreOfRuns
    <2>5. QED
      BY <1>3, <2>1, <2>4
  <1>6. DriversAreOfRuns'
    <2>1. ASSUME NEW q \in Run, status'[q] = "live"
          PROVE  \E i \in DOMAIN stack' : stack'[i].kind = "drive" /\ stack'[i].run = q
      <3>1. status[q] = "live"
        BY <1>4, <2>1 DEF OnlyRun
      <3>2. PICK i \in DOMAIN stack : stack[i].kind = "drive" /\ stack[i].run = q
        BY <1>1, <3>1 DEF StackInv, DriversAreOfRuns
      <3>3. i # n
        BY <3>2 DEF Top
      <3>4. i \in DOMAIN stack'
        BY <1>2, <1>3, <3>2, <3>3
      <3>5. QED
        BY <1>2, <3>2, <3>4
    <2>2. ASSUME NEW i \in DOMAIN stack'
          PROVE  status'[stack'[i].run] # "free"
      <3>1. stack'[i] = stack[i] /\ i \in DOMAIN stack /\ stack[i].run \in Run
        BY <1>2, <1>3
      <3>2. QED
        BY <1>1, <1>4, <3>1 DEF StackInv, DriversAreOfRuns, OnlyRun
    <2>3. QED
      BY <1>1, <1>2, <2>1, <2>2 DEF StackInv, DriversAreOfRuns
  <1>7. RunsAtCalls'
    <2>1. \A q \in Run : Started(q)' => next'[q] \in Transfer
      <3>1. next[r] \in Transfer
        BY <1>1, <1>4 DEF StackInv, RunsAtCalls, Started
      <3>2. QED
        BY <1>1, <1>4, <3>1 DEF StackInv, RunsAtCalls, Started, OnlyRun
    <2>2. \A q \in Run : status'[q] = "pending" => AtRaw(q)' /\ allowSuspend'[q]
      BY <1>1, <1>4 DEF StackInv, RunsAtCalls, AtRaw, OnlyRun
    <2>3. ASSUME NEW i \in DOMAIN stack', stack'[i].kind = "host"
          PROVE  /\ status'[stack'[i].run] = "live" /\ AtRaw(stack[i].run)'
                 /\ stack'[i].token \in {0} \cup DOMAIN tokens'
      <3>1. stack'[i] = stack[i] /\ i \in DOMAIN stack /\ stack[i].run \in Run
        BY <1>2, <1>3
      <3>2. stack[i].run # r
        BY <1>5, <2>3, <3>1
      <3>3. QED
        BY <1>1, <2>3, <3>1, <3>2 DEF StackInv, RunsAtCalls, AtRaw, OnlyRun
    <2>4. QED
      BY <2>1, <2>2, <2>3 DEF RunsAtCalls, AtRaw
  <1>8. QED
    BY <1>2, <1>6, <1>7 DEF StackInv

\* What apply makes of the run.
LEMMA ApplyOnly ==
  ASSUME TypeOK, NEW r \in Run, NEW k \in Continuation, NEW answer, Apply(r, k, answer)
  PROVE  /\ OnlyRun(r) /\ allowSuspend' = allowSuspend
         /\ \/ status'[r] = "done"
            \/ answer = "value" /\ status'[r] = "live" /\ next'[r] \in Transfer
  <1>1. CASE answer = "value"
    <2>1. resume(k) \in Transfer
      BY DEF resume, Transfer, Context
    <2>2. next'[r] = resume(k) /\ status'[r] = "live"
      BY <1>1 DEF Apply, TypeOK
    <2>3. QED
      BY <1>1, <2>1, <2>2 DEF Apply, OnlyRun, TypeOK
  <1>2. CASE answer # "value"
    <2>1. Finish(r, answer, h[r])
      BY <1>2 DEF Apply
    <2>2. allowSuspend' = allowSuspend
      BY <2>1 DEF Finish, runVars
    <2>3. QED
      BY <2>1, <2>2, FinishOnly
  <1>3. QED
    BY <1>1, <1>2

LEMMA HostReturnsStack ==
  ASSUME TypeInv, TypeOK', HostReturns
  PROVE  StackInv'
  <1> DEFINE r == Top.run
             n == Top.token
  <1>1. TypeOK /\ stack # <<>> /\ Top.kind = "host" /\ stack' = Pop /\ current' = current
    BY DEF HostReturns, TypeInv
  <1>2. r \in Run /\ Started(r) /\ n \in {0} \cup DOMAIN tokens /\ status[r] = "live"
    BY <1>1, HostFrame
  <1>3. CASE n = 0
    <2>1. Continue(r, resume(next[r].k)) /\ UNCHANGED <<h, tokens>>
      BY <1>3 DEF HostReturns
    <2>2. resume(next[r].k) \in Transfer
      BY <1>2, NextTyped DEF resume, Transfer, Context
    <2>3. OnlyRun(r) /\ status' = status /\ next'[r] = resume(next[r].k)
      BY <1>1, <1>2, <2>1, ContinueOnly
    <2>4. allowSuspend' = allowSuspend
      BY <2>1 DEF Continue
    <2>5. QED
      BY <1>1, <1>2, <2>1, <2>2, <2>3, <2>4, PopHost
  <1>4. CASE n # 0
    <2>1. n \in DOMAIN tokens /\ tokens[n].k \in Continuation
      BY <1>1, <1>2, <1>4, TokenTypes
    <2>2. DOMAIN tokens' = DOMAIN tokens
      BY <1>1, <1>4 DEF HostReturns, TypeOK
    <2>3. CASE tokens[n].settled
      <3>1. Apply(r, tokens[n].k, tokens[n].answer)
        BY <1>4, <2>3 DEF HostReturns
      <3>2. QED
        BY <1>1, <1>2, <2>1, <2>2, <3>1, ApplyOnly, PopHost
    <2>4. CASE ~tokens[n].settled /\ allowSuspend[r]
      <3>1. /\ status' = [status EXCEPT ![r] = "pending"]
            /\ UNCHANGED <<h, allowSuspend, next>>
        BY <1>4, <2>4 DEF HostReturns, Suspend
      <3>2. OnlyRun(r) /\ status'[r] = "pending"
        BY <1>1, <1>2, <3>1 DEF OnlyRun, TypeOK
      <3>3. QED
        BY <1>1, <1>2, <2>2, <2>4, <3>1, <3>2, PopHost
    <2>5. CASE ~tokens[n].settled /\ ~allowSuspend[r]
      <3>1. Finish(r, "error", h[r])
        BY <1>4, <2>5 DEF HostReturns, Suspend
      <3>2. allowSuspend' = allowSuspend
        BY <3>1 DEF Finish, runVars
      <3>3. QED
        BY <1>1, <1>2, <2>2, <3>1, <3>2, FinishOnly, PopHost
    <2>6. QED
      BY <2>3, <2>4, <2>5
  <1>5. QED
    BY <1>3, <1>4

LEMMA HostThrowsStack ==
  ASSUME TypeInv, TypeOK', HostThrows
  PROVE  StackInv'
  <1> DEFINE r == Top.run
             n == Top.token
  <1>1. TypeOK /\ stack # <<>> /\ Top.kind = "host" /\ stack' = Pop /\ current' = current
    BY DEF HostThrows, TypeInv
  <1>2. r \in Run /\ Started(r) /\ n \in {0} \cup DOMAIN tokens /\ status[r] = "live"
    BY <1>1, HostFrame
  <1>3. CASE n = 0
    <2>1. Finish(r, "error", h[r]) /\ UNCHANGED tokens
      BY <1>3 DEF HostThrows
    <2>2. allowSuspend' = allowSuspend
      BY <2>1 DEF Finish, runVars
    <2>3. QED
      BY <1>1, <1>2, <2>1, <2>2, FinishOnly, PopHost
  <1>4. CASE n # 0
    <2>1. n \in DOMAIN tokens /\ tokens[n].k \in Continuation
      BY <1>1, <1>2, <1>4, TokenTypes
    <2>2. DOMAIN tokens' = DOMAIN tokens
      BY <1>1, <1>4 DEF HostThrows, TypeOK
    <2>3. PICK answer : Apply(r, tokens[n].k, answer)
      BY <1>4 DEF HostThrows
    <2>4. QED
      BY <1>1, <1>2, <2>1, <2>2, <2>3, ApplyOnly, PopHost
  <1>5. QED
    BY <1>3, <1>4

LEMMA HostThrowsAbortStack ==
  ASSUME TypeInv, TypeOK', NEW t \in caught, HostThrowsAbort(t)
  PROVE  StackInv'
  <1> DEFINE r == Top.run
  <1>1. /\ TypeOK /\ stack # <<>> /\ Top.kind = "host" /\ stack' = Pop /\ current' = current
        /\ Continue(r, leave(t, h[r])) /\ UNCHANGED <<h, tokens>>
    BY DEF HostThrowsAbort, TypeInv
  <1>2. r \in Run /\ status[r] = "live"
    BY <1>1, HostFrame
  <1>3. leave(t, h[r]) \in Transfer
    BY <1>1, <1>2 DEF TypeOK, leave, Transfer, Continuation
  <1>4. OnlyRun(r) /\ status' = status /\ next'[r] = leave(t, h[r])
    BY <1>1, <1>2, ContinueOnly
  <1>5. allowSuspend' = allowSuspend
    BY <1>1 DEF Continue
  <1>6. QED
    BY <1>1, <1>2, <1>3, <1>4, <1>5, PopHost

LEMMA DeliverStack ==
  ASSUME TypeInv, TypeOK', NEW n \in DOMAIN tokens, NEW answer, Deliver(n, answer)
  PROVE  StackInv'
  <1>1. /\ StackInv /\ UNCHANGED <<status, h, allowSuspend, next, stack, current>>
        /\ DOMAIN tokens' = DOMAIN tokens
    BY DEF TypeInv, TypeOK, Deliver, runVars
  <1>2. QED
    BY <1>1 DEF StackInv, Alternating, CurrentIsTop, DriversAreOfRuns, RunsAtCalls,
                AtRaw, Started, Top

LEMMA SettleStack ==
  ASSUME TypeInv, TypeOK', Settle
  PROVE  StackInv'
  <1> DEFINE n == Head(microtasks)
             r == tokens[n].run
  <1>1. TypeOK /\ StackInv /\ stack = <<>> /\ tokens' = tokens
    BY DEF TypeInv, Settle
  <1>2. n \in DOMAIN tokens
    BY <1>1 DEF Settle, TypeOK
  <1>3. r \in Run /\ tokens[n].k \in Continuation
    BY <1>1, <1>2, TokenTypes
  <1>4. CASE status[r] = "done"
    <2>1. UNCHANGED <<status, h, allowSuspend, next, stack, current, tokens>>
      BY <1>1, <1>4 DEF Settle, runVars
    <2>2. QED
      BY <1>1, <2>1 DEF StackInv, Alternating, CurrentIsTop, DriversAreOfRuns, RunsAtCalls,
                AtRaw, Started, Top
  <1>5. CASE status[r] # "done" /\ tokens[n].answer = "value"
    <2>1. /\ Apply(r, tokens[n].k, tokens[n].answer)
          /\ stack' = Append(stack, Driver(r, current)) /\ current' = r
      BY <1>5 DEF Settle
    <2>2. OnlyRun(r) /\ status'[r] = "live" /\ next'[r] \in Transfer
      <3>1. resume(tokens[n].k) \in Transfer
        BY <1>3 DEF resume, Transfer, Context
      <3>2. status'[r] = "live" /\ next'[r] = resume(tokens[n].k)
        BY <1>1, <1>3, <1>5, <2>1 DEF Apply, TypeOK
      <3>3. QED
        BY <1>1, <1>3, <2>1, <3>1, <3>2, ApplyOnly
    <2>3. HostRuns /\ \A i \in DOMAIN stack : stack[i].run # r
      BY <1>1 DEF HostRuns
    <2>4. QED
      BY <1>1, <1>3, <2>1, <2>2, <2>3, PushDriver
  <1>6. CASE status[r] # "done" /\ tokens[n].answer # "value"
    <2>1. Finish(r, tokens[n].answer, h[r]) /\ UNCHANGED <<stack, current>>
      BY <1>6 DEF Settle, Apply
    <2>2. OnlyRun(r) /\ status'[r] = "done"
      BY <1>1, <1>3, <2>1, FinishOnly
    <2>3. \A q \in Run : status[q] # "live"
      BY <1>1 DEF StackInv, DriversAreOfRuns
    <2>4. Alternating' /\ CurrentIsTop' /\ DriversAreOfRuns'
      BY <1>1, <2>1, <2>2, <2>3 DEF StackInv, Alternating, CurrentIsTop, DriversAreOfRuns,
         OnlyRun
    <2>5. RunsAtCalls'
      BY <1>1, <2>1, <2>2 DEF StackInv, RunsAtCalls, AtRaw, Started, OnlyRun
    <2>6. QED
      BY <2>4, <2>5 DEF StackInv
  <1>7. QED
    BY <1>4, <1>5, <1>6

\* A step that only expires handlers keeps the resumptions of the others.
LEMMA ExpireExits ==
  ASSUME TypeInv, \/ UNCHANGED <<active, resumption>>
                  \/ \E ctx, stop : Expire(ctx, stop)
  PROVE  ExitsResume'
  <1>1. TypeOK /\ ExitsResume
    BY DEF TypeInv
  <1>2. CASE UNCHANGED <<active, resumption>>
    BY <1>1, <1>2 DEF ExitsResume
  <1>3. ASSUME NEW ctx, NEW stop, Expire(ctx, stop), NEW t \in Tag, active'[t]
        PROVE  resumption'[t] \in Continuation
    <2>1. t \notin Walked(ctx, stop) /\ active[t]
      BY <1>1, <1>3 DEF Expire
    <2>2. resumption'[t] = resumption[t]
      BY <1>1, <1>3, <2>1 DEF Expire
    <2>3. QED
      BY <1>1, <2>1, <2>2 DEF ExitsResume
  <1>4. QED
    BY <1>2, <1>3 DEF ExitsResume

LEMMA FinishExits ==
  ASSUME NEW r \in Run, NEW result, NEW ctx, Finish(r, result, ctx)
  PROVE  UNCHANGED <<active, resumption>> \/ \E c, stop : Expire(c, stop)
  BY DEF Finish, tagVars

LEMMA ApplyExits ==
  ASSUME NEW r \in Run, NEW k, NEW answer, Apply(r, k, answer)
  PROVE  UNCHANGED <<active, resumption>> \/ \E c, stop : Expire(c, stop)
  BY FinishExits DEF Apply, tagVars

LEMMA NextExits ==
  ASSUME TypeInv, [Next]_vars
  PROVE  ExitsResume'
  <1> DEFINE Kept == \/ UNCHANGED <<active, resumption>>
                     \/ \E c, stop : Expire(c, stop)
  <1>1. CASE UNCHANGED vars
    BY <1>1, ExpireExits DEF vars, tagVars
  <1>2. ASSUME NEW r \in Run, Step(r) \/ Call(r) \/ Raw(r) \/ Resume(r) \/ Leave(r)
        PROVE  ExitsResume'
    <2>1. CASE Step(r)
      BY <2>1, FinishExits, ExpireExits DEF Step, tagVars
    <2>2. CASE Call(r)
      BY <2>2, FinishExits, ExpireExits DEF Call, tagVars
    <2>3. CASE Raw(r)
      BY <2>3, ExpireExits DEF Raw, tagVars
    <2>4. CASE Resume(r)
      BY <2>4, FinishExits, ExpireExits DEF Resume, tagVars
    <2>5. CASE Leave(r)
      BY <2>5, FinishExits, ExpireExits DEF Leave
    <2>6. QED
      BY <1>2, <2>1, <2>2, <2>3, <2>4, <2>5
  <1>3. ASSUME NEW r \in Run, Enter(r)
        PROVE  ExitsResume'
    <2>1. Started(r) /\ next[r].kind = "enter" /\ TypeOK /\ ExitsResume
      BY <1>3 DEF Enter, Driving, Started, TypeInv
    <2>2. next[r].k \in Continuation /\ next[r].tag \in Tag
      BY <2>1, NextTyped
    <2>3. QED
      BY <1>3, <2>1, <2>2 DEF Enter, ExitsResume, TypeOK
  <1>4. ASSUME NEW r \in Run, DriveReturns(r) \/ InvokeSync(r) \/ InvokePromise(r)
        PROVE  ExitsResume'
    BY <1>4, ExpireExits DEF DriveReturns, InvokeSync, InvokePromise, Start, tagVars
  <1>5. CASE HostReturns \/ HostThrows
    <2>1. stack # <<>> /\ Top.kind = "host"
      BY <1>5 DEF HostReturns, HostThrows
    <2>2. Top.run \in Run
      BY <2>1, HostFrame
    <2>3. \/ UNCHANGED <<active, resumption>>
          \/ \E k, answer : Apply(Top.run, k, answer)
          \/ Finish(Top.run, "error", h[Top.run])
      BY <1>5 DEF HostReturns, HostThrows, Suspend, tagVars
    <2>4. QED
      BY <2>2, <2>3, FinishExits, ApplyExits, ExpireExits
  <1>6. ASSUME NEW t, HostThrowsAbort(t)
        PROVE  ExitsResume'
    BY <1>6, ExpireExits DEF HostThrowsAbort, tagVars
  <1>7. ASSUME NEW n, NEW answer, Deliver(n, answer)
        PROVE  ExitsResume'
    BY <1>7, ExpireExits DEF Deliver, tagVars
  <1>8. CASE Settle
    <2>1. /\ microtasks # <<>> /\ TypeOK
          /\ \/ UNCHANGED tagVars
             \/ Apply(tokens[Head(microtasks)].run, tokens[Head(microtasks)].k,
                      tokens[Head(microtasks)].answer)
      BY <1>8 DEF Settle, TypeInv
    <2>2. tokens[Head(microtasks)].run \in Run
      BY <2>1, TokenTypes DEF TypeOK
    <2>3. QED
      BY <2>1, <2>2, ApplyExits, ExpireExits DEF tagVars
  <1>9. QED
    BY <1>1, <1>2, <1>3, <1>4, <1>5, <1>6, <1>7, <1>8 DEF Next, DriverLoop, Foreign

-----------------------------------------------------------------------------
(* Theorems *)

LEMMA InitTypeInv == Init => TypeInv
  <1> SUFFICES ASSUME Init PROVE TypeInv
    OBVIOUS
  <1> USE DEF Init
  <1>1. TypeOK
    <2>1. <<>> \in Context /\ <<>> \in Seq(JsFrame) /\ <<>> \in Seq(Token)
          /\ <<>> \in Seq(DOMAIN tokens)
      BY DEF Context
    <2>2. QED
      BY <2>1 DEF TypeOK
  <1>2. StackInv
    BY DEF StackInv, Alternating, CurrentIsTop, DriversAreOfRuns, RunsAtCalls, Started
  <1>3. ExitsResume
    BY DEF ExitsResume
  <1>4. QED
    BY <1>1, <1>2, <1>3 DEF TypeInv

LEMMA NextTypeInv == TypeInv /\ [Next]_vars => TypeInv'
  <1> SUFFICES ASSUME TypeInv, [Next]_vars PROVE TypeInv'
    OBVIOUS
  <1>1. TypeOK'
    BY NextTypes
  <1>2. ExitsResume'
    BY NextExits
  <1>3. StackInv'
    <2>1. CASE UNCHANGED vars
      BY <2>1 DEF vars, runVars, hostVars, TypeInv, StackInv, Alternating, CurrentIsTop,
                  DriversAreOfRuns, RunsAtCalls, AtRaw, Started, Top
    <2>2. ASSUME NEW r \in Run, DriverLoop(r)
          PROVE  StackInv'
      BY <1>1, <2>2, LoopStack, RawStack
    <2>3. CASE Foreign
      BY <1>1, <2>3, InvokeStack, HostReturnsStack, HostThrowsStack, HostThrowsAbortStack,
         DeliverStack DEF Foreign
    <2>4. QED
      BY <1>1, <2>1, <2>2, <2>3, DriveReturnsStack, SettleStack DEF Next
  <1>4. QED
    BY <1>1, <1>2, <1>3 DEF TypeInv

\* The driver's state, the tags, the stack and the tokens keep their types.
THEOREM Typing == Spec => []TypeOK
  <1>1. TypeInv => TypeOK
    BY DEF TypeInv
  <1>2. QED
    BY <1>1, InitTypeInv, NextTypeInv, PTL DEF Spec

\* `$active` is the run of the innermost driver on the JavaScript stack, however
\* deeply foreign functions and synchronous callbacks nest, throw and return.
THEOREM ActiveInnermost == Spec => []ActiveIsInnermost
  <1>1. TypeInv => ActiveIsInnermost
    <2> SUFFICES ASSUME TypeInv PROVE ActiveIsInnermost
      OBVIOUS
    <2> DEFINE n == Len(stack)
    <2>1. TypeOK /\ Alternating /\ CurrentIsTop
      BY DEF TypeInv, StackInv
    <2>2. DOMAIN stack = 1 .. n /\ n \in Nat /\ (stack = <<>> <=> n = 0)
      BY <2>1 DEF TypeOK
    <2>3. CASE stack = <<>>
      <3>1. DriverPositions = {}
        BY <2>2, <2>3 DEF DriverPositions
      <3>2. QED
        BY <2>1, <2>3, <3>1 DEF ActiveIsInnermost, CurrentIsTop
    <2>4. CASE stack # <<>>
      <3> DEFINE d == IF Top.kind = "drive" THEN n ELSE n - 1
      <3>1. Top.kind \in {"drive", "host"}
        BY <2>1, <2>4, StackTypes DEF JsFrame
      <3>2. d \in DriverPositions /\ stack[d].run = current
        <4>1. n \in DOMAIN stack /\ Top = stack[n]
          BY <2>2, <2>4 DEF Top
        <4>2. current = Top.run
          BY <2>1, <2>4 DEF CurrentIsTop
        <4>3. CASE Top.kind = "drive"
          BY <4>1, <4>2, <4>3 DEF DriverPositions
        <4>4. CASE Top.kind = "host"
          <5>1. n > 1 /\ stack[n-1].kind = "drive" /\ stack[n-1].run = Top.run
            BY <2>1, <4>1, <4>4 DEF Alternating
          <5>2. n - 1 \in DOMAIN stack
            BY <2>2, <5>1
          <5>3. QED
            BY <4>2, <4>4, <5>1, <5>2 DEF DriverPositions
        <4>5. QED
          BY <3>1, <4>3, <4>4
      <3>3. \A j \in DriverPositions : j <= d
        BY <2>2, <2>4 DEF DriverPositions, Top
      <3>4. \A i \in DriverPositions : (\A j \in DriverPositions : j <= i) => i = d
        BY <2>2, <3>2, <3>3 DEF DriverPositions
      <3>5. (CHOOSE i \in DriverPositions : \A j \in DriverPositions : j <= i) = d
        BY <3>2, <3>3, <3>4
      <3>6. QED
        BY <3>2, <3>5 DEF ActiveIsInnermost
    <2>5. QED
      BY <2>3, <2>4
  <1>2. QED
    BY <1>1, InitTypeInv, NextTypeInv, PTL DEF Spec

-----------------------------------------------------------------------------
(* Answers *)

\* The foreign functions of a run are called by its driver: the run of the
\* topmost has no other.
LEMMA OneHost ==
  ASSUME TypeInv, stack # <<>>, Top.kind = "host",
         NEW i \in DOMAIN stack, stack[i].kind = "host", stack[i].run = Top.run
  PROVE  i = Len(stack)
  <1> DEFINE n == Len(stack)
  <1>1. n \in DOMAIN stack /\ n \in Nat /\ DOMAIN stack = 1 .. n /\ Top = stack[n]
    BY StackTypes DEF TypeInv, TypeOK, Top
  <1>2. /\ n > 1 /\ stack[n-1].kind = "drive" /\ stack[n-1].run = Top.run
        /\ i > 1 /\ stack[i-1].kind = "drive" /\ stack[i-1].run = Top.run
    BY <1>1 DEF TypeInv, StackInv, Alternating
  <1>3. n - 1 \in DOMAIN stack /\ i - 1 \in DOMAIN stack
    BY <1>1, <1>2
  <1>4. i - 1 = n - 1
    BY <1>2, <1>3 DEF TypeInv, StackInv, DriversAreOfRuns
  <1> QED
    BY <1>1, <1>4

\* A run that is live or free has no outstanding token.
LEMMA NothingOutstanding ==
  ASSUME TypeInv, TokenInv, NEW n \in DOMAIN tokens, Outstanding(n)
  PROVE  status[tokens[n].run] \in {"pending", "done"}
  BY DEF TokenInv, RunsAwait

\* Answers are not affected by a step of a run that is not waiting.
LEMMA TokensKept ==
  ASSUME TypeInv, TokenInv, NEW r \in Run, OnlyRun(r), UNCHANGED <<tokens, microtasks>>,
         status[r] \in {"live", "free"}, status'[r] # "pending",
         \A i \in DOMAIN stack' : stack'[i].kind = "host" =>
           i \in DOMAIN stack /\ stack'[i] = stack[i] /\ stack[i].run # r
  PROVE  TokenInv'
  <1>1. \A n : Queued(n)' = Queued(n) /\ Outstanding(n)' = Outstanding(n)
    BY DEF Queued, Outstanding
  <1>2. AnswersQueued'
    BY DEF TokenInv, AnswersQueued
  <1>3. \A n \in DOMAIN tokens : tokens[n].run \in Run
    BY TokenTypes DEF TypeInv
  <1>4. \A n \in DOMAIN tokens : Outstanding(n) => tokens[n].run # r
    BY NothingOutstanding
  <1>5. \A q \in Run : q # r => status'[q] = status[q] /\ next'[q] = next[q]
    BY DEF OnlyRun
  <1>6. RunsAwait'
    BY <1>1, <1>3, <1>4, <1>5 DEF TokenInv, RunsAwait
  <1>7. \A i \in DOMAIN stack : stack[i].run \in Run
    BY DEF TypeInv, TypeOK, JsFrame
  <1>8. CallsHold'
    BY <1>5, <1>7 DEF TokenInv, CallsHold
  <1> QED
    BY <1>2, <1>6, <1>8 DEF TokenInv

\* Nor by one that only takes a driver off the stack.
LEMMA TokensIdle ==
  ASSUME TypeInv, TokenInv, UNCHANGED <<tokens, microtasks, status, next>>,
         \A i \in DOMAIN stack' : stack'[i].kind = "host" =>
           i \in DOMAIN stack /\ stack'[i] = stack[i]
  PROVE  TokenInv'
  <1>1. \A n : Queued(n)' = Queued(n) /\ Outstanding(n)' = Outstanding(n)
    BY DEF Queued, Outstanding
  <1>2. AnswersQueued' /\ RunsAwait'
    BY <1>1 DEF TokenInv, AnswersQueued, RunsAwait
  <1>3. CallsHold'
    BY DEF TokenInv, CallsHold
  <1> QED
    BY <1>2, <1>3 DEF TokenInv

\* A foreign call that has a token returns or throws.
LEMMA CallEnds ==
  ASSUME TypeInv, TokenInv, stack # <<>>, Top.kind = "host", stack' = Pop,
         NEW n \in DOMAIN tokens, n = Top.token, NEW r \in Run, r = Top.run, n # 0,
         OnlyRun(r), microtasks' = microtasks, DOMAIN tokens' = DOMAIN tokens,
         \A m \in DOMAIN tokens : m # n => tokens'[m] = tokens[m],
         tokens'[n].run = tokens[n].run, tokens'[n].k = tokens[n].k, ~tokens'[n].calling,
         \/ tokens'[n].settled /\ status'[r] # "pending"
         \/ ~tokens'[n].settled /\ status'[r] = "pending" /\ next'[r] = next[r]
         \/ status'[r] = "done"
  PROVE  TokenInv'
  <1>1. /\ Len(stack) \in DOMAIN stack /\ Top = stack[Len(stack)]
        /\ DOMAIN stack' = 1 .. Len(stack) - 1
        /\ \A i \in DOMAIN stack' : stack'[i] = stack[i] /\ i \in DOMAIN stack /\ i # Len(stack)
    BY StackTypes DEF TypeInv, TypeOK, Top
  <1>2. tokens[n].calling /\ tokens[n].run = r /\ tokens[n].k = next[r].k
    BY <1>1 DEF TokenInv, CallsHold
  <1>3. status[r] = "live"
    BY HostFrame
  <1>4. ~Queued(n)
    BY <1>2 DEF TokenInv, AnswersQueued, Queued
  <1>5. \A m : Queued(m)' = Queued(m)
    BY DEF Queued
  <1>6. /\ \A m \in DOMAIN tokens : m # n => Outstanding(m)' = Outstanding(m)
        /\ Outstanding(n)' <=> ~tokens'[n].settled
    BY <1>4, <1>5 DEF Outstanding
  <1>7. \A m \in DOMAIN tokens : Outstanding(m) => tokens[m].run # r
    BY <1>3, NothingOutstanding
  <1>8. \A q \in Run : q # r => status'[q] = status[q] /\ next'[q] = next[q]
    BY DEF OnlyRun
  <1>9. \A m \in DOMAIN tokens : tokens[m].run \in Run
    BY TokenTypes DEF TypeInv
  <1>10. \A i \in DOMAIN microtasks : microtasks[i] \in DOMAIN tokens /\ microtasks[i] # n
    BY <1>4 DEF TypeInv, TypeOK, Queued
  <1>11. AnswersQueued'
    BY <1>10 DEF TokenInv, AnswersQueued
  <1>12. RunsAwait'
    <2>1. ASSUME NEW m \in DOMAIN tokens, Outstanding(m)'
          PROVE  \/ status'[tokens'[m].run] = "pending" /\ tokens'[m].k = next'[tokens'[m].run].k
                 \/ status'[tokens'[m].run] = "done" /\ ~Queued(m)'
      <3>1. CASE m = n
        BY <1>2, <1>4, <1>5, <1>6, <2>1, <3>1
      <3>2. CASE m # n
        BY <1>5, <1>6, <1>7, <1>8, <1>9, <2>1, <3>2 DEF TokenInv, RunsAwait
      <3> QED
        BY <3>1, <3>2
    <2>2. ASSUME NEW l \in DOMAIN tokens, NEW m \in DOMAIN tokens,
                 Outstanding(l)', Outstanding(m)', tokens'[l].run = tokens'[m].run,
                 status'[tokens'[m].run] = "pending"
          PROVE  l = m
      <3>1. CASE l = n \/ m = n
        BY <1>2, <1>6, <1>7, <2>2, <3>1
      <3>2. CASE l # n /\ m # n
        BY <1>6, <1>7, <1>8, <1>9, <2>2, <3>2 DEF TokenInv, RunsAwait
      <3> QED
        BY <3>1, <3>2
    <2>3. ASSUME NEW q \in Run, status'[q] = "pending"
          PROVE  \E m \in DOMAIN tokens : Outstanding(m)' /\ tokens'[m].run = q
      <3>1. CASE q = r
        BY <1>2, <1>6, <2>3, <3>1
      <3>2. CASE q # r
        <4>1. PICK m \in DOMAIN tokens : Outstanding(m) /\ tokens[m].run = q
          BY <1>8, <2>3, <3>2 DEF TokenInv, RunsAwait
        <4>2. m # n
          BY <1>2, <3>2, <4>1
        <4> QED
          BY <1>6, <4>1, <4>2
      <3> QED
        BY <3>1, <3>2
    <2> QED
      BY <2>1, <2>2, <2>3 DEF RunsAwait
  <1>13. CallsHold'
    <2>1. \A i \in DOMAIN stack' : stack'[i].kind = "host" => stack[i].run # r /\ stack[i].run \in Run
      BY <1>1, OneHost DEF TypeInv, TypeOK, JsFrame
    <2>2. \A i \in DOMAIN stack' : stack'[i].kind = "host" /\ stack'[i].token # 0 =>
            stack'[i].token # n /\ stack'[i].token \in DOMAIN tokens
      BY <1>1 DEF TypeInv, StackInv, RunsAtCalls, TokenInv, CallsHold
    <2> QED
      BY <1>1, <1>8, <2>1, <2>2 DEF TokenInv, CallsHold
  <1> QED
    BY <1>11, <1>12, <1>13 DEF TokenInv

\* A turn of the loop that starts no foreign function.
LEMMA TurnTokens ==
  ASSUME TypeInv, TokenInv, NEW r \in Run, DriverLoop(r), ~Raw(r)
  PROVE  TokenInv'
  <1>1. Driving(r) /\ UNCHANGED hostVars
    BY DEF DriverLoop, Step, Call, Resume, Enter, Leave
  <1>2. Moves(r)
    BY StepMoves, CallMoves, ResumeMoves, EnterMoves, LeaveMoves DEF DriverLoop
  <1>3. OnlyRun(r) /\ status'[r] # "pending" /\ status[r] = "live"
    <2>1. TypeOK /\ status[r] = "live"
      BY <1>1 DEF TypeInv, Driving
    <2> QED
      BY <1>2, <2>1, FinishOnly, ContinueOnly DEF Moves
  <1>4. \A i \in DOMAIN stack : stack[i].kind = "host" => stack[i].run # r
    BY <1>1, DriverFrame
  <1> QED
    BY <1>1, <1>3, <1>4, TokensKept DEF hostVars

\* A foreign function that starts brings a token of its own.
LEMMA RawTokens ==
  ASSUME TypeInv, TokenInv, NEW r \in Run, Raw(r)
  PROVE  TokenInv'
  <1>0. PICK N : N = Len(tokens) + 1
    OBVIOUS
  <1> DEFINE token == [run |-> r, k |-> next[r].k, settled |-> FALSE,
                       calling |-> TRUE, answer |-> "none"]
  <1>1. /\ Driving(r) /\ UNCHANGED <<status, next, microtasks>>
    BY DEF Raw
  <1>2. /\ tokens \in Seq(Token) /\ stack \in Seq(JsFrame)
        /\ \A i \in DOMAIN microtasks : microtasks[i] \in DOMAIN tokens
    BY DEF TypeInv, TypeOK
  <1>3. \A i \in DOMAIN stack : stack[i].kind = "host" => stack[i].run # r
    BY <1>1, DriverFrame
  <1>4. \A i \in DOMAIN stack : stack[i].kind = "host" => stack[i].token \in {0} \cup DOMAIN tokens
    BY DEF TypeInv, StackInv, RunsAtCalls
  <1>5. CASE next[r].completion # "Promise"
    <2>1. tokens' = tokens /\ stack' = Append(stack, Host(r, 0))
      BY <1>5 DEF Raw
    <2>2. \A i \in DOMAIN stack' : /\ stack'[i].kind = "host" /\ stack'[i].token # 0
                                   => i \in DOMAIN stack /\ stack'[i] = stack[i]
      BY <1>2, <2>1 DEF Host
    <2>3. \A n : Queued(n)' = Queued(n) /\ Outstanding(n)' = Outstanding(n)
      BY <1>1, <2>1 DEF Queued, Outstanding
    <2>4. AnswersQueued' /\ RunsAwait'
      BY <1>1, <2>1, <2>3 DEF TokenInv, AnswersQueued, RunsAwait
    <2>5. CallsHold'
      BY <1>1, <2>1, <2>2 DEF TokenInv, CallsHold
    <2> QED
      BY <2>4, <2>5 DEF TokenInv
  <1>6. CASE next[r].completion = "Promise"
    <2>1. tokens' = Append(tokens, token) /\ stack' = Append(stack, Host(r, N))
      BY <1>0, <1>6 DEF Raw
    <2>2. /\ DOMAIN tokens' = DOMAIN tokens \cup {N} /\ N \notin DOMAIN tokens
          /\ tokens'[N] = token
          /\ \A n \in DOMAIN tokens : tokens'[n] = tokens[n]
      BY <1>0, <1>2, <2>1
    <2>3. tokens'[N].calling /\ tokens'[N].run = r /\ tokens'[N].k = next[r].k
      BY <2>2
    <2> HIDE DEF token
    <2>4. \A n : Queued(n)' = Queued(n)
      BY <1>1 DEF Queued
    <2>5. /\ \A n \in DOMAIN tokens : Outstanding(n)' <=> Outstanding(n)
          /\ ~Outstanding(N)'
      BY <2>2, <2>3, <2>4 DEF Outstanding
    <2>6. AnswersQueued'
      BY <1>1, <1>2, <2>2 DEF TokenInv, AnswersQueued
    <2>7. RunsAwait'
      <3>1. \A m \in DOMAIN tokens' : Outstanding(m)' => m \in DOMAIN tokens /\ Outstanding(m)
        BY <2>2, <2>5
      <3>2. \A m \in DOMAIN tokens : tokens'[m].run = tokens[m].run /\ tokens'[m].k = tokens[m].k
        BY <2>2
      <3>3. UNCHANGED <<status, next>>
        BY <1>1
      <3>4. \A m \in DOMAIN tokens' : Outstanding(m)' =>
              \/ status'[tokens'[m].run] = "pending" /\ tokens'[m].k = next'[tokens'[m].run].k
              \/ status'[tokens'[m].run] = "done" /\ ~Queued(m)'
        BY <2>4, <3>1, <3>2, <3>3 DEF TokenInv, RunsAwait
      <3>5. \A l, m \in DOMAIN tokens' :
              /\ Outstanding(l)' /\ Outstanding(m)' /\ tokens'[l].run = tokens'[m].run
              /\ status'[tokens'[m].run] = "pending"
              => l = m
        BY <3>1, <3>2, <3>3 DEF TokenInv, RunsAwait
      <3>6. \A q \in Run : status'[q] = "pending" =>
              \E m \in DOMAIN tokens' : Outstanding(m)' /\ tokens'[m].run = q
        BY <2>2, <2>5, <3>2, <3>3 DEF TokenInv, RunsAwait
      <3> QED
        BY <3>4, <3>5, <3>6 DEF RunsAwait
    <2>8. \A i \in DOMAIN stack' :
            \/ i \in DOMAIN stack /\ stack'[i] = stack[i]
            \/ i = Len(stack) + 1 /\ stack'[i] = Host(r, N)
      BY <1>2, <2>1
    <2>9. Host(r, N).run = r /\ Host(r, N).token = N
      BY DEF Host
    <2>10. 0 \notin DOMAIN tokens
      BY <1>2
    <2>11. CallsHold'
      <3>1. ASSUME NEW i \in DOMAIN stack', stack'[i].kind = "host", stack'[i].token # 0
            PROVE  LET u == tokens'[stack'[i].token]
                   IN  u.calling /\ u.run = stack'[i].run /\ u.k = next'[stack'[i].run].k
        <4>1. CASE i \in DOMAIN stack /\ stack'[i] = stack[i]
          <5>1. stack[i].token \in DOMAIN tokens /\ tokens'[stack[i].token] = tokens[stack[i].token]
            BY <1>4, <2>2, <3>1, <4>1
          <5> QED
            BY <1>1, <3>1, <4>1, <5>1 DEF TokenInv, CallsHold
        <4>2. CASE i = Len(stack) + 1 /\ stack'[i] = Host(r, N)
          BY <1>1, <2>3, <2>9, <4>2
        <4> QED
          BY <2>8, <4>1, <4>2
      <3>2. ASSUME NEW i \in DOMAIN stack', NEW j \in DOMAIN stack',
                   stack'[i].kind = "host", stack'[j].kind = "host",
                   stack'[i].token = stack'[j].token, stack'[i].token # 0
            PROVE  i = j
        BY <1>4, <2>2, <2>8, <2>9, <3>2 DEF TokenInv, CallsHold
      <3> QED
        BY <3>1, <3>2 DEF CallsHold
    <2> QED
      BY <2>6, <2>7, <2>11 DEF TokenInv
  <1> QED
    BY <1>5, <1>6

LEMMA StartTokens ==
  ASSUME TypeInv, TokenInv, NEW r \in Run, InvokeSync(r) \/ InvokePromise(r)
  PROVE  TokenInv'
  <1>1. PICK ctx, suspends : Start(r, ctx, suspends)
    BY DEF InvokeSync, InvokePromise
  <1>2. /\ OnlyRun(r) /\ status[r] = "free" /\ status'[r] = "live"
        /\ UNCHANGED <<tokens, microtasks>> /\ stack' = Append(stack, Driver(r, current))
    BY <1>1 DEF Start, OnlyRun, TypeInv, TypeOK
  <1>3. \A i \in DOMAIN stack : stack[i].run # r
    BY <1>2 DEF TypeInv, StackInv, DriversAreOfRuns
  <1>4. \A i \in DOMAIN stack' : stack'[i].kind = "host" =>
          i \in DOMAIN stack /\ stack'[i] = stack[i]
    BY <1>2 DEF Driver, TypeInv, TypeOK
  <1> QED
    BY <1>2, <1>3, <1>4, TokensKept

LEMMA DriveReturnsTokens ==
  ASSUME TypeInv, TokenInv, NEW r \in Run, DriveReturns(r)
  PROVE  TokenInv'
  <1>1. UNCHANGED <<tokens, microtasks, status, next>> /\ stack' = Pop /\ stack # <<>>
    BY DEF DriveReturns, runVars
  <1>2. \A i \in DOMAIN stack' : i \in DOMAIN stack /\ stack'[i] = stack[i]
    BY <1>1, StackTypes DEF TypeInv
  <1> QED
    BY <1>1, <1>2, TokensIdle

\* The top foreign function goes, and leaves those of other runs.
LEMMA HostGoes ==
  ASSUME TypeInv, stack # <<>>, Top.kind = "host", stack' = Pop
  PROVE  \A i \in DOMAIN stack' : stack'[i].kind = "host" =>
           i \in DOMAIN stack /\ stack'[i] = stack[i] /\ stack[i].run # Top.run
  <1>1. /\ DOMAIN stack' = 1 .. Len(stack) - 1
        /\ \A i \in DOMAIN stack' : stack'[i] = stack[i] /\ i \in DOMAIN stack /\ i # Len(stack)
    BY StackTypes DEF TypeInv, TypeOK
  <1> QED
    BY <1>1, OneHost

LEMMA HostReturnsTokens ==
  ASSUME TypeInv, TokenInv, HostReturns
  PROVE  TokenInv'
  <1> DEFINE r == Top.run
             n == Top.token
  <1>1. TypeOK /\ stack # <<>> /\ Top.kind = "host" /\ stack' = Pop /\ microtasks' = microtasks
    BY DEF HostReturns, TypeInv
  <1>2. r \in Run /\ n \in {0} \cup DOMAIN tokens /\ status[r] = "live"
    BY <1>1, HostFrame
  <1>3. CASE n = 0
    <2>1. Continue(r, resume(next[r].k)) /\ UNCHANGED <<h, tokens>>
      BY <1>3 DEF HostReturns
    <2>2. OnlyRun(r) /\ status' = status
      BY <1>1, <1>2, <2>1, ContinueOnly
    <2> QED
      BY <1>1, <1>2, <2>1, <2>2, HostGoes, TokensKept
  <1>4. CASE n # 0
    <2>1. n \in DOMAIN tokens /\ tokens[n].k \in Continuation
      BY <1>1, <1>2, <1>4, TokenTypes
    <2>2. tokens' = [tokens EXCEPT ![n].calling = FALSE]
      BY <1>4 DEF HostReturns
    <2>3. /\ DOMAIN tokens' = DOMAIN tokens
          /\ \A m \in DOMAIN tokens : m # n => tokens'[m] = tokens[m]
          /\ tokens'[n].run = tokens[n].run /\ tokens'[n].k = tokens[n].k
          /\ ~tokens'[n].calling /\ tokens'[n].settled = tokens[n].settled
      <3>1. tokens[n] \in Token
        BY <1>1, <2>1, TokenTypes
      <3>2. /\ DOMAIN tokens' = DOMAIN tokens
            /\ \A m \in DOMAIN tokens : m # n => tokens'[m] = tokens[m]
            /\ tokens'[n] = [tokens[n] EXCEPT !.calling = FALSE]
        BY <1>1, <2>1, <2>2 DEF TypeOK
      <3> QED
        BY <3>1, <3>2 DEF Token
    <2>4. /\ OnlyRun(r)
          /\ \/ tokens[n].settled /\ status'[r] # "pending"
             \/ ~tokens[n].settled /\ status'[r] = "pending" /\ next'[r] = next[r]
             \/ status'[r] = "done"
      <3>1. CASE tokens[n].settled
        <4>1. Apply(r, tokens[n].k, tokens[n].answer)
          BY <1>4, <3>1 DEF HostReturns
        <4> QED
          BY <1>1, <1>2, <2>1, <3>1, <4>1, ApplyOnly
      <3>2. CASE ~tokens[n].settled /\ allowSuspend[r]
        <4>1. /\ status' = [status EXCEPT ![r] = "pending"]
              /\ UNCHANGED <<h, allowSuspend, next>>
          BY <1>4, <3>2 DEF HostReturns, Suspend
        <4> QED
          BY <1>1, <1>2, <3>2, <4>1 DEF OnlyRun, TypeOK
      <3>3. CASE ~tokens[n].settled /\ ~allowSuspend[r]
        <4>1. Finish(r, "error", h[r])
          BY <1>4, <3>3 DEF HostReturns, Suspend
        <4> QED
          BY <1>1, <1>2, <4>1, FinishOnly
      <3> QED
        BY <3>1, <3>2, <3>3
    <2> QED
      BY <1>1, <1>2, <1>4, <2>1, <2>3, <2>4, CallEnds
  <1> QED
    BY <1>3, <1>4

LEMMA HostThrowsTokens ==
  ASSUME TypeInv, TokenInv, HostThrows
  PROVE  TokenInv'
  <1> DEFINE r == Top.run
             n == Top.token
  <1>1. TypeOK /\ stack # <<>> /\ Top.kind = "host" /\ stack' = Pop /\ microtasks' = microtasks
    BY DEF HostThrows, TypeInv
  <1>2. r \in Run /\ n \in {0} \cup DOMAIN tokens /\ status[r] = "live"
    BY <1>1, HostFrame
  <1>3. CASE n = 0
    <2>1. Finish(r, "error", h[r]) /\ UNCHANGED tokens
      BY <1>3 DEF HostThrows
    <2>2. OnlyRun(r) /\ status'[r] = "done"
      BY <1>1, <1>2, <2>1, FinishOnly
    <2> QED
      BY <1>1, <1>2, <2>1, <2>2, HostGoes, TokensKept
  <1>4. CASE n # 0
    <2> DEFINE answer == IF tokens[n].settled THEN tokens[n].answer ELSE "error"
    <2>1. n \in DOMAIN tokens /\ tokens[n].k \in Continuation
      BY <1>1, <1>2, <1>4, TokenTypes
    <2>2. /\ tokens' = [tokens EXCEPT ![n].calling = FALSE, ![n].settled = TRUE, ![n].answer = answer]
          /\ Apply(r, tokens[n].k, answer)
      BY <1>4 DEF HostThrows
    <2>3. /\ DOMAIN tokens' = DOMAIN tokens
          /\ \A m \in DOMAIN tokens : m # n => tokens'[m] = tokens[m]
          /\ tokens'[n].run = tokens[n].run /\ tokens'[n].k = tokens[n].k
          /\ ~tokens'[n].calling /\ tokens'[n].settled
      <3>1. tokens[n] \in Token
        BY <1>1, <2>1, TokenTypes
      <3>2. /\ DOMAIN tokens' = DOMAIN tokens
            /\ \A m \in DOMAIN tokens : m # n => tokens'[m] = tokens[m]
            /\ tokens'[n] = [tokens[n] EXCEPT !.calling = FALSE, !.settled = TRUE, !.answer = answer]
        BY <1>1, <2>1, <2>2 DEF TypeOK
      <3> QED
        BY <3>1, <3>2 DEF Token
    <2>4. OnlyRun(r) /\ status'[r] # "pending"
      BY <1>1, <1>2, <2>1, <2>2, ApplyOnly
    <2> QED
      BY <1>1, <1>2, <1>4, <2>1, <2>3, <2>4, CallEnds
  <1> QED
    BY <1>3, <1>4

LEMMA HostThrowsAbortTokens ==
  ASSUME TypeInv, TokenInv, NEW t, HostThrowsAbort(t)
  PROVE  TokenInv'
  <1>1. /\ TypeOK /\ stack # <<>> /\ Top.kind = "host" /\ stack' = Pop
        /\ Continue(Top.run, leave(t, h[Top.run])) /\ UNCHANGED <<h, tokens, microtasks>>
    BY DEF HostThrowsAbort, TypeInv
  <1>2. Top.run \in Run /\ status[Top.run] = "live"
    BY <1>1, HostFrame
  <1>3. OnlyRun(Top.run) /\ status' = status
    BY <1>1, <1>2, ContinueOnly
  <1> QED
    BY <1>1, <1>2, <1>3, HostGoes, TokensKept

LEMMA DeliverTokens ==
  ASSUME TypeInv, TokenInv, NEW n \in DOMAIN tokens, NEW answer, Deliver(n, answer)
  PROVE  TokenInv'
  <1> DEFINE r == tokens[n].run
             Was(m) == Queued(m)
  <1>1. /\ UNCHANGED <<status, next, stack>> /\ ~tokens[n].settled /\ status[r] # "done"
        /\ tokens' = [tokens EXCEPT ![n].settled = TRUE, ![n].answer = answer]
        /\ microtasks' = IF tokens[n].calling THEN microtasks ELSE Append(microtasks, n)
    BY DEF Deliver, runVars
  <1>2. /\ DOMAIN tokens' = DOMAIN tokens
        /\ \A m \in DOMAIN tokens : m # n => tokens'[m] = tokens[m]
        /\ tokens'[n].run = r /\ tokens'[n].k = tokens[n].k
        /\ tokens'[n].calling = tokens[n].calling /\ tokens'[n].settled
    <2>1. tokens[n] \in Token
      BY TokenTypes DEF TypeInv
    <2>2. /\ DOMAIN tokens' = DOMAIN tokens
          /\ \A m \in DOMAIN tokens : m # n => tokens'[m] = tokens[m]
          /\ tokens'[n] = [tokens[n] EXCEPT !.settled = TRUE, !.answer = answer]
      BY <1>1 DEF TypeInv, TypeOK
    <2> QED
      BY <2>1, <2>2 DEF Token
  <1>3. ~Queued(n)
    BY <1>1 DEF TokenInv, AnswersQueued, Queued
  <1>4. microtasks \in Seq(DOMAIN tokens)
    BY DEF TypeInv, TypeOK
  <1>5. \A m : Queued(m)' <=> Queued(m) \/ (m = n /\ ~tokens[n].calling)
    BY <1>1, <1>4 DEF Queued
  <1>6. \A m \in DOMAIN tokens : Outstanding(m)' <=> Outstanding(m)
    BY <1>1, <1>2, <1>3, <1>5 DEF Outstanding
  <1>7. ~tokens[n].calling => status[r] = "pending"
    BY <1>1 DEF TokenInv, RunsAwait, Outstanding
  <1>8. AnswersQueued'
    <2>1. CASE tokens[n].calling
      <3>1. \A i \in DOMAIN microtasks : microtasks[i] \in DOMAIN tokens /\ microtasks[i] # n
        BY <1>3, <1>4 DEF Queued
      <3> QED
        BY <1>1, <1>2, <2>1, <3>1 DEF TokenInv, AnswersQueued
    <2>2. CASE ~tokens[n].calling
      <3>1. /\ DOMAIN microtasks' = DOMAIN microtasks \cup {Len(microtasks) + 1}
            /\ microtasks'[Len(microtasks) + 1] = n
            /\ \A i \in DOMAIN microtasks : /\ microtasks'[i] = microtasks[i]
                                            /\ microtasks[i] \in DOMAIN tokens /\ microtasks[i] # n
        BY <1>1, <1>3, <1>4, <2>2 DEF Queued
      <3> QED
        BY <1>2, <2>2, <3>1 DEF TokenInv, AnswersQueued
    <2> QED
      BY <2>1, <2>2
  <1>9. \A m \in DOMAIN tokens : tokens'[m].run = tokens[m].run /\ tokens'[m].k = tokens[m].k
    BY <1>2
  <1>10. RunsAwait'
    BY <1>1, <1>2, <1>5, <1>6, <1>7, <1>9 DEF TokenInv, RunsAwait
  <1>11. CallsHold'
    <2>1. \A i \in DOMAIN stack : stack[i].kind = "host" /\ stack[i].token # 0 =>
            stack[i].token \in DOMAIN tokens
      BY DEF TypeInv, StackInv, RunsAtCalls
    <2>2. \A m \in DOMAIN tokens : tokens'[m].calling = tokens[m].calling
      BY <1>2
    <2> QED
      BY <1>1, <1>9, <2>1, <2>2 DEF TokenInv, CallsHold
  <1> QED
    BY <1>8, <1>10, <1>11 DEF TokenInv

LEMMA SettleTokens ==
  ASSUME TypeInv, TokenInv, Settle
  PROVE  TokenInv'
  <1>0. PICK n : n = Head(microtasks)
    OBVIOUS
  <1> DEFINE r == tokens[n].run
  <1>1. /\ TypeOK /\ stack = <<>> /\ microtasks # <<>> /\ microtasks' = Tail(microtasks)
        /\ tokens' = tokens
    BY DEF TypeInv, Settle
  <1>2. /\ n \in DOMAIN tokens /\ Queued(n) /\ n = microtasks[1] /\ 1 \in DOMAIN microtasks
        /\ microtasks \in Seq(DOMAIN tokens)
    BY <1>0, <1>1 DEF TypeOK, Queued
  <1>3. r \in Run /\ tokens[n].k \in Continuation
    BY <1>1, <1>2, TokenTypes
  <1>4. tokens[n].settled /\ ~tokens[n].calling /\ Outstanding(n) /\ status[r] = "pending"
    BY <1>2 DEF TokenInv, AnswersQueued, RunsAwait, Outstanding
  <1>5. /\ DOMAIN microtasks' = 1 .. Len(microtasks) - 1
        /\ \A i \in DOMAIN microtasks' : microtasks'[i] = microtasks[i + 1] /\ i + 1 \in DOMAIN microtasks
        /\ \A i \in DOMAIN microtasks : i # 1 => i - 1 \in DOMAIN microtasks' /\ microtasks'[i - 1] = microtasks[i]
    BY <1>1, <1>2
  <1>6. \A m : Queued(m)' <=> Queued(m) /\ m # n
    <2>1. \A i \in DOMAIN microtasks : microtasks[i] = n => i = 1
      BY <1>2 DEF TokenInv, AnswersQueued
    <2>2. ASSUME NEW m, Queued(m)' PROVE Queued(m) /\ m # n
      BY <1>2, <1>5, <2>1, <2>2 DEF Queued
    <2>3. ASSUME NEW m, Queued(m), m # n PROVE Queued(m)'
      BY <1>2, <1>5, <2>3 DEF Queued
    <2> QED
      BY <2>2, <2>3
  <1>7. /\ \A m \in DOMAIN tokens : m # n => (Outstanding(m)' <=> Outstanding(m))
        /\ ~Outstanding(n)'
    <2>1. tokens' = tokens
      BY <1>1
    <2> QED
      BY <1>4, <1>6, <2>1 DEF Outstanding
  <1>8. \A m \in DOMAIN tokens : Outstanding(m)' => tokens[m].run # r
    BY <1>2, <1>4, <1>7 DEF TokenInv, RunsAwait
  <1>9. Apply(r, tokens[n].k, tokens[n].answer)
    BY <1>0, <1>4 DEF Settle
  <1>10. OnlyRun(r) /\ status'[r] # "pending"
    BY <1>1, <1>3, <1>9, ApplyOnly
  <1>11. \A q \in Run : q # r => status'[q] = status[q] /\ next'[q] = next[q]
    BY <1>10 DEF OnlyRun
  <1>12. AnswersQueued'
    BY <1>1, <1>5 DEF TokenInv, AnswersQueued
  <1>13. \A m \in DOMAIN tokens : tokens[m].run \in Run
    BY <1>1, TokenTypes
  <1>14. RunsAwait'
    <2>1. ASSUME NEW m \in DOMAIN tokens, Outstanding(m)'
          PROVE  \/ status'[tokens[m].run] = "pending" /\ tokens[m].k = next'[tokens[m].run].k
                 \/ status'[tokens[m].run] = "done" /\ ~Queued(m)'
      BY <1>6, <1>7, <1>8, <1>11, <1>13, <2>1 DEF TokenInv, RunsAwait
    <2>2. ASSUME NEW l \in DOMAIN tokens, NEW m \in DOMAIN tokens,
                 Outstanding(l)', Outstanding(m)', tokens[l].run = tokens[m].run,
                 status'[tokens[m].run] = "pending"
          PROVE  l = m
      BY <1>7, <1>8, <1>11, <1>13, <2>2 DEF TokenInv, RunsAwait
    <2>3. ASSUME NEW q \in Run, status'[q] = "pending"
          PROVE  \E m \in DOMAIN tokens : Outstanding(m)' /\ tokens[m].run = q
      <3>1. q # r /\ status[q] = "pending"
        BY <1>10, <1>11, <2>3
      <3>2. PICK m \in DOMAIN tokens : Outstanding(m) /\ tokens[m].run = q
        BY <3>1 DEF TokenInv, RunsAwait
      <3> QED
        BY <1>7, <3>1, <3>2
    <2> QED
      BY <1>1, <2>1, <2>2, <2>3 DEF RunsAwait
  <1>15. CallsHold'
    <2>1. \A i \in DOMAIN stack' : stack'[i].kind # "host"
      <3>1. stack' = <<>> \/ stack' = Append(<<>>, Driver(r, current))
        BY <1>0, <1>1, <1>4 DEF Settle
      <3>2. Driver(r, current).kind = "drive"
        BY DEF Driver
      <3> QED
        BY <3>1, <3>2
    <2> QED
      BY <2>1 DEF CallsHold
  <1> QED
    BY <1>12, <1>14, <1>15 DEF TokenInv

LEMMA TokensStep == TypeInv /\ TokenInv /\ [Next]_vars => TokenInv'
  <1> SUFFICES ASSUME TypeInv, TokenInv, [Next]_vars PROVE TokenInv'
    OBVIOUS
  <1>1. CASE UNCHANGED vars
    BY <1>1, TokensIdle DEF vars, runVars, hostVars
  <1>2. ASSUME NEW r \in Run, DriverLoop(r)
        PROVE  TokenInv'
    BY <1>2, TurnTokens, RawTokens
  <1>3. CASE Foreign
    BY <1>3, StartTokens, HostReturnsTokens, HostThrowsTokens, HostThrowsAbortTokens,
       DeliverTokens DEF Foreign
  <1> QED
    BY <1>1, <1>2, <1>3, DriveReturnsTokens, SettleTokens DEF Next

LEMMA InitTokens == Init => TokenInv
  BY DEF Init, TokenInv, AnswersQueued, RunsAwait, CallsHold

\* A run goes on once, by one driver or by one answer, in whatever order foreign
\* calls return, throw and are settled.
THEOREM GoesOn == Spec => []GoesOnOnce
  <1>1. ASSUME TypeInv, TokenInv PROVE GoesOnOnce
    <2>1. ASSUME NEW r \in Run, status[r] = "live" PROVE Cardinality(Drivers(r)) = 1
      <3>1. PICK i \in DOMAIN stack : stack[i].kind = "drive" /\ stack[i].run = r
        BY <1>1, <2>1 DEF TypeInv, StackInv, DriversAreOfRuns
      <3>2. Drivers(r) = {i}
        BY <1>1, <3>1 DEF Drivers, TypeInv, StackInv, DriversAreOfRuns
      <3> QED
        BY <3>2, FS_Singleton
    <2>2. ASSUME NEW r \in Run, status[r] = "pending" PROVE Cardinality(Answers(r)) = 1
      <3>1. PICK n \in DOMAIN tokens : Outstanding(n) /\ tokens[n].run = r
        BY <1>1, <2>2 DEF TokenInv, RunsAwait
      <3>2. Answers(r) = {n}
        BY <1>1, <2>2, <3>1 DEF Answers, Outstanding, Queued, TokenInv, RunsAwait
      <3> QED
        BY <3>2, FS_Singleton
    <2>3. \A i \in DOMAIN microtasks :
            /\ microtasks[i] \in DOMAIN tokens /\ Outstanding(microtasks[i])
            /\ status[tokens[microtasks[i]].run] = "pending"
      <3> TAKE i \in DOMAIN microtasks
      <3>1. microtasks[i] \in DOMAIN tokens
        BY <1>1 DEF TypeInv, TypeOK
      <3>2. Queued(microtasks[i]) /\ Outstanding(microtasks[i])
        BY <1>1 DEF Queued, Outstanding, TokenInv, AnswersQueued
      <3> QED
        BY <1>1, <3>1, <3>2 DEF TokenInv, RunsAwait
    <2>4. SettlementsAreAwaited
      BY <1>1, <2>3 DEF SettlementsAreAwaited, TokenInv, RunsAwait, AnswersQueued
    <2> QED
      BY <2>1, <2>2, <2>4 DEF GoesOnOnce, OneWayForward
  <1> QED
    BY <1>1, InitTypeInv, NextTypeInv, InitTokens, TokensStep, PTL DEF Spec

-----------------------------------------------------------------------------
(* What steps do to contexts *)

\* Nothing but run r is affected.
Alone(r) ==
  /\ OnlyRun(r) /\ base' = base /\ allowSuspend' = allowSuspend
  /\ \A q \in Run \ {r} : outcome'[q] = outcome[q]

\* Drivers of runs that extend a context stay where they are.
DrivesKept ==
  \A i \in DOMAIN stack' : stack'[i].kind = "drive" /\ base[stack'[i].run] # <<>> =>
    i \in DOMAIN stack /\ \A m \in 1 .. i : stack'[m] = stack[m]

\* Run r executes no foreign function.
NoHost(r) == \A i \in DOMAIN stack' : stack'[i].kind = "host" => stack'[i].run # r

\* The kinds of steps: the run goes on in its context; is about to enter a
\* handler; is done; enters; leaves; begins; or nothing happens to any run.
Goes(r) ==
  /\ Started(r) /\ Started(r)' /\ Alone(r) /\ DrivesKept
  /\ status'[r] = "live" => status[r] = "live" \/ base[r] = <<>>
  /\ UNCHANGED <<tagVars, outcome>>
  /\ next[r].kind # "enter" /\ next'[r].kind # "enter"
  /\ Here(r)' = Here(r) /\ FitsNext(r)'

Readies(r, t) ==
  /\ Started(r) /\ Alone(r) /\ UNCHANGED <<hostVars, status, outcome>>
  /\ UNCHANGED <<active, owner, parent, resumption>>
  /\ t \in Tag \ allocated /\ allocated' = allocated \cup {t}
  /\ next[r].kind # "enter"
  /\ next'[r].kind = "enter" /\ next'[r].tag = t /\ next'[r].h = Here(r) /\ h'[r] = Here(r)
  /\ Fits(next'[r].k, Here(r), r)

Ends(r) ==
  /\ Started(r) /\ status'[r] = "done" /\ Alone(r) /\ DrivesKept /\ NoHost(r)
  /\ next[r].kind # "enter"
  /\ Expire(Here(r), base[r])

Opens(r) ==
  /\ Driving(r) /\ next[r].kind = "enter" /\ Alone(r)
  /\ UNCHANGED <<hostVars, status, outcome>>
  /\ Enter(r)

Closes(r, t) ==
  /\ Driving(r) /\ next[r].kind = "leave" /\ Alone(r)
  /\ UNCHANGED <<hostVars, status, outcome>>
  /\ t \in Tag /\ active[t] /\ owner[t] = r
  /\ Expire(Here(r), parent[t])
  /\ h'[r] = parent[t] /\ next'[r] = resume(resumption[t])

Begins(r, ctx) ==
  /\ status[r] = "free" /\ status'[r] = "live" /\ OnlyRun(r) /\ HostRuns
  /\ UNCHANGED <<tagVars, outcome>>
  /\ \A q \in Run \ {r} : base'[q] = base[q]
  /\ ctx = <<>> \/ (current # Null /\ ctx = h[current] /\ ~allowSuspend'[r])
  /\ base'[r] = ctx /\ h'[r] = ctx /\ next'[r] = call(<<>>, ctx)
  /\ stack' = Append(stack, Driver(r, current))

Rests == UNCHANGED <<runVars, tagVars>> /\ DrivesKept

-----------------------------------------------------------------------------
(* Facts about contexts *)

LEMMA HereTyped ==
  ASSUME TypeInv, NEW r \in Run, Started(r)
  PROVE  Here(r) \in Context
  BY NextTyped DEF Here, TypeInv, TypeOK

\* The walk over the parents from a context to one of its beginnings visits the
\* tags after it.
LEMMA WalkedFrom ==
  ASSUME NEW ctx \in Context, NEW n \in 0 .. Len(ctx)
  PROVE  Walked(ctx, SubSeq(ctx, 1, n)) = { ctx[i] : i \in (n + 1) .. Len(ctx) }
  <1> DEFINE stop == SubSeq(ctx, 1, n)
  <1>1. Len(ctx) \in Nat /\ DOMAIN ctx = 1 .. Len(ctx) /\ n \in Nat
    BY DEF Context
  <1>2. \A m \in 0 .. Len(ctx) : SubSeq(ctx, 1, m) = stop <=> m = n
    BY PrefixOfSeq DEF Context
  <1> HIDE DEF stop
  <1>3. \A j \in DOMAIN ctx : (\A m \in j .. Len(ctx) : SubSeq(ctx, 1, m) # stop) <=> j \in (n + 1) .. Len(ctx)
    BY <1>1, <1>2
  <1>4. { j \in DOMAIN ctx : \A m \in j .. Len(ctx) : SubSeq(ctx, 1, m) # stop }
          = (n + 1) .. Len(ctx)
    BY <1>1, <1>3
  <1> QED
    BY <1>4 DEF Walked, stop

\* The handlers of the context a run was started in are open, and belong to runs
\* whose foreign calls are below its driver.
LEMMA BaseBorrowed ==
  ASSUME TypeInv, Borrowed, NEW r \in Run, Started(r), NEW j \in DOMAIN base[r]
  PROVE  /\ status[r] = "live" /\ active[base[r][j]] /\ owner[base[r][j]] # r
         /\ \E i, m \in DOMAIN stack : /\ stack[i].kind = "drive" /\ stack[i].run = r /\ m < i
                                       /\ stack[m].kind = "host" /\ stack[m].run = owner[base[r][j]]
  <1>1. TypeOK /\ StackInv
    BY DEF TypeInv
  <1>2. base[r] # <<>>
    BY <1>1 DEF TypeOK, Context
  <1>3. status[r] = "live"
    BY <1>1, <1>2 DEF Borrowed, StackInv, RunsAtCalls, Started
  <1>4. PICK i \in DOMAIN stack : stack[i].kind = "drive" /\ stack[i].run = r
    BY <1>1, <1>3 DEF StackInv, DriversAreOfRuns
  <1>5. /\ active[base[r][j]]
        /\ \E m \in 1 .. i - 1 : stack[m].kind = "host" /\ stack[m].run = owner[base[r][j]]
    <2>1. stack[i].run = r /\ status[stack[i].run] = "live" /\ j \in DOMAIN base[stack[i].run]
      BY <1>3, <1>4
    <2> DEFINE Under(t) == \E m \in 1 .. i - 1 : stack[m].kind = "host" /\ stack[m].run = owner[t]
    <2>2. \A k \in DOMAIN base[stack[i].run] :
            active[base[stack[i].run][k]] /\ Under(base[stack[i].run][k])
      BY <1>4, <2>1, Zenon DEF Borrowed
    <2> HIDE DEF Under
    <2>3. active[base[r][j]] /\ Under(base[r][j])
      BY <2>1, <2>2
    <2> QED
      BY <2>3 DEF Under
  <1>6. PICK m \in 1 .. i - 1 : stack[m].kind = "host" /\ stack[m].run = owner[base[r][j]]
    BY <1>5
  <1>7. DOMAIN stack = 1 .. Len(stack) /\ Len(stack) \in Nat
    BY <1>1 DEF TypeOK
  <1>8. m \in DOMAIN stack /\ m < i /\ m \in Nat /\ i \in Nat
    BY <1>4, <1>6, <1>7
  <1>9. m > 1 /\ stack[m-1].kind = "drive" /\ stack[m-1].run = stack[m].run
    BY <1>1, <1>6, <1>8 DEF StackInv, Alternating
  <1>10. m - 1 \in DOMAIN stack
    BY <1>7, <1>8, <1>9
  <1>11. stack[m].run # r
    BY <1>1, <1>4, <1>8, <1>9, <1>10 DEF StackInv, DriversAreOfRuns
  <1> QED
    BY <1>3, <1>4, <1>5, <1>6, <1>8, <1>11

\* Positions of a run's context are those of its base and its own.
LEMMA Positions ==
  ASSUME TypeInv, Nested, NEW r \in Run, Started(r)
  PROVE  /\ Len(base[r]) \in Nat /\ Len(Here(r)) \in Nat /\ Len(base[r]) \in 0 .. Len(Here(r))
         /\ DOMAIN base[r] = 1 .. Len(base[r]) /\ DOMAIN Here(r) = 1 .. Len(Here(r))
         /\ base[r] = SubSeq(Here(r), 1, Len(base[r]))
         /\ \A i \in DOMAIN Here(r) : i \in DOMAIN base[r] \/ i \in Own(r)
         /\ Own(r) \subseteq DOMAIN Here(r)
  <1>1. Here(r) \in Seq(Tag) /\ base[r] \in Seq(Tag)
    BY HereTyped DEF TypeInv, TypeOK, Context
  <1>2. Len(base[r]) <= Len(Here(r)) /\ \A i \in DOMAIN base[r] : Here(r)[i] = base[r][i]
    BY DEF Nested, Stacked
  <1>3. base[r] = SubSeq(Here(r), 1, Len(base[r]))
    <2>1. Len(base[r]) \in 0 .. Len(Here(r))
      BY <1>1, <1>2
    <2> QED
      BY <1>1, <1>2, <2>1, PrefixOfSeq
  <1> QED
    BY <1>1, <1>2, <1>3 DEF Own

\* Every handler of a run's context is open and belongs to the run or to one whose
\* foreign call is below it.
LEMMA AllOpen ==
  ASSUME TypeInv, ExtentInv, NEW r \in Run, Started(r), NEW i \in DOMAIN Here(r)
  PROVE  active[Here(r)[i]]
  <1>1. CASE i \in Own(r)
    BY <1>1 DEF ExtentInv, Nested, Stacked
  <1>2. CASE i \in DOMAIN base[r]
    BY <1>2, BaseBorrowed DEF ExtentInv, Nested, Stacked
  <1> QED
    BY <1>1, <1>2, Positions DEF ExtentInv

-----------------------------------------------------------------------------
(* Every step is of one of these kinds *)

LEMMA ContinueAlone ==
  ASSUME TypeOK, NEW r \in Run, NEW s, Continue(r, s), \A q \in Run \ {r} : h'[q] = h[q]
  PROVE  Alone(r) /\ UNCHANGED <<status, outcome>> /\ next'[r] = s
  BY ContinueOnly DEF Continue, Alone

LEMMA FinishEnds ==
  ASSUME TypeInv, NEW r \in Run, Started(r), NEW result, Finish(r, result, Here(r)),
         next[r].kind # "enter", DrivesKept, NoHost(r)
  PROVE  Ends(r)
  <1>1. TypeOK /\ status[r] # "done"
    BY DEF TypeInv, Started
  <1>2. Alone(r)
    BY <1>1, FinishOnly DEF Finish, Alone, TypeOK
  <1> QED
    BY <1>1, <1>2, FinishOnly DEF Ends, Finish

\* A turn that leaves the stack alone.
LEMMA TurnKeeps ==
  ASSUME TypeInv, NEW r \in Run, Driving(r), stack' = stack
  PROVE  DrivesKept /\ NoHost(r) /\ Started(r) /\ status[r] = "live"
  BY DriverFrame DEF DrivesKept, NoHost, Driving, Started, TypeInv, TypeOK

\* One more frame made in the same context.
LEMMA FitsAppend ==
  ASSUME NEW r \in Run, NEW k \in Seq(Frame), NEW ctx, Fits(k, ctx, r),
         NEW f, f.h = ctx, f.tag = Null
  PROVE  Fits(Append(k, f), ctx, r)
  <1> DEFINE l == Append(k, f)
  <1>1. /\ Len(k) \in Nat /\ DOMAIN k = 1 .. Len(k)
        /\ l # <<>> /\ DOMAIN l = 1 .. Len(k) + 1
        /\ \A i \in DOMAIN k : l[i] = k[i]
        /\ l[Len(k) + 1] = f
    OBVIOUS
  <1> HIDE DEF l
  <1>2. \A i \in DOMAIN l : l[i].h = ctx /\ (l[i].tag # Null => i = 1 /\ l[i].kind = "block")
    <2>1. \A i \in DOMAIN l : i \in DOMAIN k \/ i = Len(k) + 1
      BY <1>1
    <2> QED
      BY <1>1, <2>1 DEF Fits
  <1>3. CASE k = <<>>
    <2>1. l[1] = f /\ ctx = base[r]
      BY <1>1, <1>3 DEF Fits
    <2> QED
      BY <1>1, <1>2, <2>1 DEF Fits, l
  <1>4. CASE k # <<>>
    <2>1. 1 \in DOMAIN k /\ l[1] = k[1]
      BY <1>1, <1>4
    <2> QED
      BY <1>1, <1>2, <1>4, <2>1 DEF Fits, l
  <1> QED
    BY <1>3, <1>4

\* What a block passes on as its continuation returns to its context.
LEMMA FitsPassed ==
  ASSUME NEW r \in Run, NEW s \in Transfer, NEW k \in Continuations(s),
         IF s.tag = Null THEN Fits(s.k, s.h, r)
         ELSE Len(s.h) > Len(base[r]) /\ s.h[Len(s.h)] = s.tag
  PROVE  Fits(k, s.h, r)
  <1>1. s.k \in Seq(Frame)
    BY DEF Transfer, Continuation
  <1>2. CASE s.tag # Null
    <2>1. k = <<BlockFrame(s.h, s.tag)>>
      BY <1>2 DEF Continuations, TailCall, Rest
    <2>2. /\ DOMAIN k = {1} /\ k # <<>> /\ k[1] = BlockFrame(s.h, s.tag)
      BY <2>1
    <2> QED
      BY <1>2, <2>2 DEF Fits, BlockFrame
  <1>3. CASE s.tag = Null /\ k = s.k
    BY <1>3
  <1>4. CASE s.tag = Null /\ k = Append(s.k, BlockFrame(s.h, Null))
    BY <1>1, <1>4, FitsAppend DEF BlockFrame
  <1> QED
    BY <1>2, <1>3, <1>4 DEF Continuations, TailCall, Rest

LEMMA StepKind ==
  ASSUME TypeInv, ExtentInv, NEW r \in Run, Step(r)
  PROVE  Goes(r) \/ Ends(r) \/ \E t : Readies(r, t)
  <1> DEFINE s == next[r]
  <1>1. Driving(r) /\ s.kind = "step" /\ UNCHANGED hostVars /\ TypeOK
    BY DEF Step, TypeInv
  <1>2. DrivesKept /\ NoHost(r) /\ Started(r) /\ status[r] = "live"
    BY <1>1, TurnKeeps DEF hostVars
  <1>3. s \in Transfer /\ s.h \in Context /\ s.k \in Continuation /\ Here(r) = s.h
    BY <1>1, <1>2, NextTyped DEF Here
  <1>4. /\ s.tag = Null => Fits(s.k, s.h, r)
        /\ s.tag # Null => Len(s.h) > Len(base[r]) /\ s.h[Len(s.h)] = s.tag
    BY <1>1, <1>2 DEF ExtentInv, Fitting, FitsNext
  <1>5. \A k \in Continuations(s) : Fits(k, s.h, r)
    BY <1>3, <1>4, FitsPassed
  <1>6. CASE Finish(r, "error", s.h)
    BY <1>1, <1>2, <1>3, <1>6, FinishEnds
  <1>7. ASSUME h' = [h EXCEPT ![r] = s.h], UNCHANGED tagVars, NEW u, Continue(r, u),
               \/ u.kind = "resume" /\ Fits(u.k, s.h, r)
               \/ u.kind = "leave" /\ u.h = s.h
               \/ u.kind \in {"call", "raw"} /\ u.h = s.h /\ Fits(u.k, s.h, r)
        PROVE  Goes(r)
    <2>1. Alone(r) /\ UNCHANGED <<status, outcome>> /\ next'[r] = u /\ h'[r] = s.h
      BY <1>1, <1>7, ContinueAlone DEF TypeOK
    <2>2. Here(r)' = s.h
      BY <1>7, <2>1 DEF Here
    <2>3. FitsNext(r)'
      BY <1>7, <2>1 DEF FitsNext, Fits, Alone
    <2> QED
      BY <1>1, <1>2, <1>3, <1>7, <2>1, <2>2, <2>3 DEF Goes, Started
  <1>8. ASSUME h' = [h EXCEPT ![r] = s.h], UNCHANGED tagVars,
               \/ Continue(r, IF s.tag = Null THEN resume(s.k) ELSE leave(s.tag, s.h))
               \/ \E k \in Continuations(s) : Continue(r, call(k, s.h))
               \/ \E k \in Continuations(s), completion \in {"Immediate", "Promise"} :
                    Continue(r, raw(k, s.h, completion))
               \/ \E t \in allocated : Continue(r, leave(t, s.h))
        PROVE  Goes(r)
    <2>1. CASE Continue(r, IF s.tag = Null THEN resume(s.k) ELSE leave(s.tag, s.h))
      <3>1. CASE s.tag = Null
        <4>1. Continue(r, resume(s.k)) /\ resume(s.k).kind = "resume" /\ resume(s.k).k = s.k
          BY <2>1, <3>1 DEF resume
        <4> QED
          BY <1>4, <1>7, <1>8, <3>1, <4>1
      <3>2. CASE s.tag # Null
        <4>1. /\ Continue(r, leave(s.tag, s.h))
              /\ leave(s.tag, s.h).kind = "leave" /\ leave(s.tag, s.h).h = s.h
          BY <2>1, <3>2 DEF leave
        <4> QED
          BY <1>7, <1>8, <4>1
      <3> QED
        BY <3>1, <3>2
    <2>2. ASSUME NEW k \in Continuations(s), Continue(r, call(k, s.h))
          PROVE  Goes(r)
      <3>1. call(k, s.h).kind = "call" /\ call(k, s.h).k = k /\ call(k, s.h).h = s.h
        BY DEF call
      <3> QED
        BY <1>5, <1>7, <1>8, <2>2, <3>1
    <2>3. ASSUME NEW k \in Continuations(s), NEW completion, Continue(r, raw(k, s.h, completion))
          PROVE  Goes(r)
      <3>1. /\ raw(k, s.h, completion).kind = "raw" /\ raw(k, s.h, completion).k = k
            /\ raw(k, s.h, completion).h = s.h
        BY DEF raw
      <3> QED
        BY <1>5, <1>7, <1>8, <2>3, <3>1
    <2>4. ASSUME NEW t, Continue(r, leave(t, s.h))
          PROVE  Goes(r)
      <3>1. leave(t, s.h).kind = "leave" /\ leave(t, s.h).h = s.h
        BY DEF leave
      <3> QED
        BY <1>7, <1>8, <2>4, <3>1
    <2> QED
      BY <1>8, <2>1, <2>2, <2>3, <2>4
  <1>9. ASSUME h' = [h EXCEPT ![r] = s.h], NEW t \in Tag \ allocated, NEW k \in Continuations(s),
               allocated' = allocated \cup {t}, Continue(r, enter(t, k, s.h)),
               UNCHANGED <<active, owner, parent, resumption>>
        PROVE  Readies(r, t)
    <2>1. /\ enter(t, k, s.h).kind = "enter" /\ enter(t, k, s.h).tag = t
          /\ enter(t, k, s.h).k = k /\ enter(t, k, s.h).h = s.h
      BY DEF enter
    <2>2. Alone(r) /\ UNCHANGED <<status, outcome>> /\ next'[r] = enter(t, k, s.h) /\ h'[r] = s.h
      BY <1>1, <1>9, ContinueAlone DEF TypeOK
    <2> QED
      BY <1>1, <1>2, <1>3, <1>5, <1>9, <2>1, <2>2 DEF Readies
  <1> QED
    BY <1>6, <1>8, <1>9 DEF Step

LEMMA CallKind ==
  ASSUME TypeInv, ExtentInv, NEW r \in Run, Call(r)
  PROVE  Goes(r) \/ Ends(r)
  <1> DEFINE s == next[r]
  <1>1. Driving(r) /\ s.kind = "call" /\ UNCHANGED hostVars /\ TypeOK
    BY DEF Call, TypeInv
  <1>2. DrivesKept /\ NoHost(r) /\ Started(r) /\ status[r] = "live"
    BY <1>1, TurnKeeps DEF hostVars
  <1>3. s \in Transfer /\ s.h \in Context /\ s.k \in Continuation /\ Here(r) = s.h
    BY <1>1, <1>2, NextTyped DEF Here
  <1>4. Fits(s.k, s.h, r)
    BY <1>1, <1>2 DEF ExtentInv, Fitting, FitsNext
  <1>5. Fits(Append(s.k, ConvertFrame(s.h)), s.h, r)
    BY <1>3, <1>4, FitsAppend DEF ConvertFrame, Continuation
  <1>6. CASE Finish(r, "error", s.h)
    BY <1>1, <1>2, <1>3, <1>6, FinishEnds
  <1>7. ASSUME h' = [h EXCEPT ![r] = s.h], UNCHANGED tagVars, NEW u, Continue(r, u),
               u.h = s.h, u.kind \in {"step", "raw"}, Fits(u.k, s.h, r), u.tag = Null
        PROVE  Goes(r)
    <2>1. Alone(r) /\ UNCHANGED <<status, outcome>> /\ next'[r] = u /\ h'[r] = s.h
      BY <1>1, <1>7, ContinueAlone DEF TypeOK
    <2>2. Here(r)' = s.h
      BY <1>7, <2>1 DEF Here
    <2>3. FitsNext(r)'
      BY <1>7, <2>1 DEF FitsNext, Fits, Alone
    <2> QED
      BY <1>1, <1>2, <1>3, <1>7, <2>1, <2>2, <2>3 DEF Goes, Started
  <1>8. ASSUME h' = [h EXCEPT ![r] = s.h], UNCHANGED tagVars, Continue(r, step(s.h, s.k, Null))
        PROVE  Goes(r)
    <2>1. /\ step(s.h, s.k, Null).kind = "step" /\ step(s.h, s.k, Null).h = s.h
          /\ step(s.h, s.k, Null).k = s.k /\ step(s.h, s.k, Null).tag = Null
      BY DEF step
    <2> QED
      BY <1>4, <1>7, <1>8, <2>1
  <1>9. ASSUME h' = [h EXCEPT ![r] = s.h], UNCHANGED tagVars,
               Continue(r, raw(Append(s.k, ConvertFrame(s.h)), s.h, "Immediate"))
        PROVE  Goes(r)
    <2> DEFINE u == raw(Append(s.k, ConvertFrame(s.h)), s.h, "Immediate")
    <2>1. u.kind = "raw" /\ u.h = s.h /\ u.k = Append(s.k, ConvertFrame(s.h)) /\ u.tag = Null
      BY DEF raw
    <2> HIDE DEF u
    <2>2. Continue(r, u)
      BY <1>9 DEF u
    <2> QED
      BY <1>5, <1>7, <1>9, <2>1, <2>2
  <1> QED
    BY <1>6, <1>8, <1>9 DEF Call

LEMMA ResumeKind ==
  ASSUME TypeInv, ExtentInv, NEW r \in Run, Resume(r)
  PROVE  Goes(r) \/ Ends(r)
  <1> DEFINE k == next[r].k
             top == k[Len(k)]
             below == SubSeq(k, 1, Len(k) - 1)
  <1>1. Driving(r) /\ next[r].kind = "resume" /\ UNCHANGED hostVars /\ TypeOK
    BY DEF Resume, TypeInv
  <1>2. DrivesKept /\ NoHost(r) /\ Started(r) /\ status[r] = "live"
    BY <1>1, TurnKeeps DEF hostVars
  <1>3. k \in Seq(Frame) /\ Here(r) = h[r]
    BY <1>1, <1>2, NextTyped DEF Here, Continuation
  <1>4. Fits(k, h[r], r)
    BY <1>1, <1>2 DEF ExtentInv, Fitting, FitsNext
  <1>5. ASSUME NEW result, Finish(r, result, h[r]) PROVE Ends(r)
    BY <1>1, <1>2, <1>3, <1>5, FinishEnds
  <1>6. ASSUME k # <<>>, UNCHANGED <<h, tagVars>>,
               Continue(r, IF top.kind = "convert" THEN resume(below) ELSE step(top.h, below, top.tag))
        PROVE  Goes(r)
    <2>1. /\ Len(k) \in Nat \ {0} /\ Len(k) \in DOMAIN k
          /\ Len(below) = Len(k) - 1 /\ DOMAIN below = 1 .. Len(k) - 1
          /\ \A i \in DOMAIN below : below[i] = k[i] /\ i \in DOMAIN k
      BY <1>3, <1>6, FrontOfSeq
    <2>2. top.h = h[r] /\ top \in Frame
      BY <1>3, <1>4, <2>1 DEF Fits
    <2>3. top.tag = Null => Fits(below, h[r], r)
      <3>1. ASSUME top.tag = Null PROVE Fits(below, h[r], r)
        <4>1. \A i \in DOMAIN below : below[i].h = h[r] /\ (below[i].tag # Null => i = 1 /\ below[i].kind = "block")
          BY <1>4, <2>1 DEF Fits
        <4>2. CASE Len(k) = 1
          <5>1. below = <<>> /\ k[1].tag = Null
            BY <2>1, <3>1, <4>2
          <5> QED
            BY <1>4, <5>1 DEF Fits
        <4>3. CASE Len(k) # 1
          <5> HIDE DEF k, below
          <5>0. 1 \in DOMAIN below
            BY <2>1, <4>3
          <5>1. below # <<>> /\ 1 \in DOMAIN below /\ below[1] = k[1]
            BY <2>1, <5>0
          <5> QED
            BY <1>4, <1>6, <4>1, <5>1 DEF Fits
        <4> QED
          BY <4>2, <4>3
      <3> QED
        BY <3>1
    <2>4. top.tag # Null => Len(k) = 1 /\ below = <<>> /\ Len(h[r]) > Len(base[r]) /\ h[r][Len(h[r])] = top.tag
      <3>1. ASSUME top.tag # Null PROVE Len(k) = 1
        BY <1>4, <2>1, <3>1 DEF Fits
      <3>2. Len(k) = 1 => below = <<>>
        BY <2>1
      <3> QED
        BY <1>4, <1>6, <3>1, <3>2 DEF Fits
    <2>5. top.kind = "convert" => top.tag = Null
      BY <1>4, <2>1 DEF Fits
    <2> HIDE DEF below, top
    <2>6. CASE top.kind = "convert"
      <3>1. Alone(r) /\ UNCHANGED <<status, outcome>> /\ next'[r] = resume(below)
        BY <1>1, <1>6, <2>6, ContinueAlone
      <3>2. resume(below).kind = "resume" /\ resume(below).k = below
        BY DEF resume
      <3>3. Here(r)' = h[r]
        BY <1>6, <3>1, <3>2 DEF Here
      <3>4. FitsNext(r)'
        BY <1>6, <2>3, <2>5, <2>6, <3>1, <3>2 DEF FitsNext, Fits, Alone
      <3> QED
        BY <1>1, <1>2, <1>3, <1>6, <3>1, <3>2, <3>3, <3>4 DEF Goes, Started
    <2>7. CASE top.kind # "convert"
      <3> DEFINE u == step(top.h, below, top.tag)
      <3>1. u.kind = "step" /\ u.k = below /\ u.h = h[r] /\ u.tag = top.tag
        BY <2>2 DEF step
      <3> HIDE DEF u
      <3>2. Alone(r) /\ UNCHANGED <<status, outcome>> /\ next'[r] = u
        BY <1>1, <1>6, <2>7, ContinueAlone DEF u
      <3>3. Here(r)' = h[r]
        BY <3>1, <3>2 DEF Here
      <3>4. FitsNext(r)'
        BY <1>6, <2>3, <2>4, <3>1, <3>2 DEF FitsNext, Fits, Alone
      <3> QED
        BY <1>1, <1>2, <1>3, <1>6, <3>1, <3>2, <3>3, <3>4 DEF Goes, Started
    <2> QED
      BY <2>6, <2>7
  <1> QED
    BY <1>5, <1>6 DEF Resume

LEMMA EnterKind ==
  ASSUME TypeInv, NEW r \in Run, Enter(r)
  PROVE  Opens(r)
  <1>1. Driving(r) /\ next[r].kind = "enter" /\ UNCHANGED <<hostVars, h>> /\ TypeOK
    BY DEF Enter, TypeInv
  <1>2. PICK u : Continue(r, u)
    BY DEF Enter
  <1> QED
    BY <1>1, <1>2, ContinueAlone DEF Opens

LEMMA LeaveKind ==
  ASSUME TypeInv, NEW r \in Run, Leave(r)
  PROVE  Ends(r) \/ \E t : Closes(r, t)
  <1> DEFINE s == next[r]
             t == s.tag
  <1>1. Driving(r) /\ s.kind = "leave" /\ UNCHANGED hostVars /\ TypeOK
    BY DEF Leave, TypeInv
  <1>2. DrivesKept /\ NoHost(r) /\ Started(r) /\ status[r] = "live"
    BY <1>1, TurnKeeps DEF hostVars
  <1>3. s.h \in Context /\ Here(r) = s.h /\ t \in Tag
    BY <1>1, <1>2, NextTyped DEF Here
  <1>4. ASSUME NEW result, Finish(r, result, s.h) PROVE Ends(r)
    BY <1>1, <1>2, <1>3, <1>4, FinishEnds
  <1>5. ASSUME active[t], owner[t] = r, Expire(s.h, parent[t]), h' = [h EXCEPT ![r] = parent[t]],
               Continue(r, resume(resumption[t]))
        PROVE  Closes(r, t)
    <2>1. /\ Alone(r) /\ UNCHANGED <<status, outcome>> /\ next'[r] = resume(resumption[t])
          /\ h'[r] = parent[t]
      BY <1>1, <1>5, ContinueAlone DEF TypeOK
    <2> QED
      BY <1>1, <1>3, <1>5, <2>1 DEF Closes
  <1> QED
    BY <1>1, <1>4, <1>5 DEF Leave

LEMMA PopKeeps ==
  ASSUME TypeInv, stack # <<>>, stack' = Pop
  PROVE  DrivesKept
  <1>1. /\ DOMAIN stack' = 1 .. Len(stack) - 1 /\ Len(stack) \in Nat
        /\ \A i \in DOMAIN stack' : stack'[i] = stack[i] /\ i \in DOMAIN stack
    BY StackTypes DEF TypeInv, TypeOK
  <1> QED
    BY <1>1 DEF DrivesKept

LEMMA PushKeeps ==
  ASSUME TypeInv, NEW f, stack' = Append(stack, f), f.kind = "host" \/ base[f.run] = <<>>
  PROVE  DrivesKept
  <1>1. /\ Len(stack) \in Nat /\ DOMAIN stack = 1 .. Len(stack)
        /\ DOMAIN stack' = 1 .. Len(stack) + 1 /\ stack'[Len(stack) + 1] = f
        /\ \A i \in DOMAIN stack : stack'[i] = stack[i]
    BY DEF TypeInv, TypeOK
  <1>2. ASSUME NEW i \in DOMAIN stack', stack'[i].kind = "drive", base[stack'[i].run] # <<>>
        PROVE  i \in DOMAIN stack /\ \A m \in 1 .. i : stack'[m] = stack[m]
    <2>1. i # Len(stack) + 1
      BY <1>1, <1>2
    <2>2. i \in DOMAIN stack
      BY <1>1, <2>1
    <2> QED
      BY <1>1, <2>2
  <1> QED
    BY <1>2 DEF DrivesKept

LEMMA RawKind ==
  ASSUME TypeInv, ExtentInv, NEW r \in Run, Raw(r)
  PROVE  Goes(r)
  <1> DEFINE s == next[r]
  <1>1. /\ Driving(r) /\ s.kind = "raw" /\ TypeOK /\ status[r] = "live" /\ Started(r)
        /\ h' = [h EXCEPT ![r] = s.h]
        /\ UNCHANGED <<status, outcome, base, allowSuspend, next, tagVars>>
    BY DEF Raw, TypeInv, Driving, Started
  <1>2. PICK n : stack' = Append(stack, Host(r, n))
    BY DEF Raw
  <1>3. DrivesKept
    BY <1>2, PushKeeps DEF Host
  <1>4. h'[r] = s.h /\ Alone(r)
    BY <1>1 DEF Alone, OnlyRun, TypeOK
  <1>5. Here(r) = s.h /\ Here(r)' = s.h
    BY <1>1 DEF Here
  <1>6. FitsNext(r)'
    BY <1>1 DEF ExtentInv, Fitting, FitsNext, Fits
  <1> QED
    BY <1>1, <1>3, <1>4, <1>5, <1>6 DEF Goes, Started

\* A run that is at a foreign call fits the call's continuation.
LEMMA CallFits ==
  ASSUME TypeInv, ExtentInv, NEW r \in Run, Started(r), AtRaw(r)
  PROVE  Here(r) = h[r] /\ Fits(next[r].k, h[r], r) /\ next[r].kind # "enter"
  BY DEF AtRaw, Here, ExtentInv, Fitting, FitsNext

\* A run at a foreign call goes on with its result.
LEMMA AnswerGoes ==
  ASSUME TypeInv, ExtentInv, NEW r \in Run, Started(r), AtRaw(r), DrivesKept,
         UNCHANGED <<h, tagVars, outcome, base, allowSuspend>>, OnlyRun(r), status'[r] = "live",
         status[r] = "live" \/ base[r] = <<>>, next'[r] = resume(next[r].k)
  PROVE  Goes(r)
  <1>1. resume(next[r].k).kind = "resume" /\ resume(next[r].k).k = next[r].k
    BY DEF resume
  <1>2. Here(r)' = h[r]
    BY <1>1 DEF Here
  <1>3. FitsNext(r)'
    BY <1>1, CallFits DEF FitsNext, Fits
  <1> QED
    BY <1>1, <1>2, <1>3, CallFits DEF Goes, Alone, Started

LEMMA HostReturnsKind ==
  ASSUME TypeInv, TokenInv, ExtentInv, HostReturns
  PROVE  \E r \in Run : Goes(r) \/ Ends(r)
  <1> DEFINE n == Top.token
  <1>1. TypeOK /\ stack # <<>> /\ Top.kind = "host" /\ stack' = Pop
    BY DEF HostReturns, TypeInv
  <1>0. PICK r : r = Top.run
    OBVIOUS
  <1>2. /\ r \in Run /\ n \in {0} \cup DOMAIN tokens /\ status[r] = "live" /\ Started(r) /\ AtRaw(r)
        /\ Len(stack) \in DOMAIN stack /\ Top = stack[Len(stack)]
    BY <1>0, <1>1, HostFrame, StackTypes DEF Top
  <1>3. DrivesKept /\ NoHost(r)
    BY <1>0, <1>1, HostGoes, PopKeeps DEF NoHost
  <1>4. CASE n = 0
    <2>1. Continue(r, resume(next[r].k)) /\ UNCHANGED <<h, tagVars>>
      BY <1>0, <1>4 DEF HostReturns
    <2>2. OnlyRun(r) /\ status' = status /\ next'[r] = resume(next[r].k)
      BY <1>1, <1>2, <2>1, ContinueOnly
    <2>3. UNCHANGED <<outcome, base, allowSuspend>>
      BY <2>1 DEF Continue
    <2> QED
      BY <1>2, <1>3, <2>1, <2>2, <2>3, AnswerGoes
  <1>5. CASE n # 0
    <2>1. n \in DOMAIN tokens /\ tokens[n].k = next[r].k
      BY <1>0, <1>1, <1>2, <1>5 DEF TokenInv, CallsHold
    <2>2. CASE tokens[n].settled /\ tokens[n].answer = "value"
      <3>1. /\ status' = [status EXCEPT ![r] = "live"] /\ next' = [next EXCEPT ![r] = resume(tokens[n].k)]
            /\ UNCHANGED <<outcome, base, h, allowSuspend, tagVars>>
        BY <1>0, <1>5, <2>2 DEF HostReturns, Apply
      <3>2. OnlyRun(r) /\ status'[r] = "live" /\ next'[r] = resume(next[r].k)
        BY <1>1, <1>2, <2>1, <3>1 DEF OnlyRun, TypeOK
      <3> QED
        BY <1>2, <1>3, <3>1, <3>2, AnswerGoes
    <2>3. CASE ~tokens[n].settled /\ allowSuspend[r]
      <3>1. /\ status' = [status EXCEPT ![r] = "pending"]
            /\ UNCHANGED <<outcome, base, h, allowSuspend, next, tagVars>>
        BY <1>0, <1>5, <2>3 DEF HostReturns, Suspend
      <3>2. Alone(r) /\ status'[r] = "pending"
        BY <1>1, <1>2, <3>1 DEF Alone, OnlyRun, TypeOK
      <3>3. Here(r)' = Here(r) /\ FitsNext(r)'
        BY <1>2, <3>1 DEF Here, ExtentInv, Fitting, FitsNext, Fits
      <3> QED
        BY <1>2, <1>3, <3>1, <3>2, <3>3, CallFits DEF Goes, Started
    <2>4. ASSUME NEW result, Finish(r, result, h[r])
          PROVE  Ends(r)
      BY <1>2, <1>3, <2>4, CallFits, FinishEnds
    <2> QED
      BY <1>0, <1>2, <1>5, <2>2, <2>3, <2>4 DEF HostReturns, Apply, Suspend
  <1> QED
    BY <1>4, <1>5

LEMMA HostThrowsKind ==
  ASSUME TypeInv, TokenInv, ExtentInv, HostThrows
  PROVE  \E r \in Run : Goes(r) \/ Ends(r)
  <1> DEFINE r == Top.run
             n == Top.token
             answer == IF tokens[n].settled THEN tokens[n].answer ELSE "error"
  <1>1. TypeOK /\ stack # <<>> /\ Top.kind = "host" /\ stack' = Pop
    BY DEF HostThrows, TypeInv
  <1>2. /\ r \in Run /\ n \in {0} \cup DOMAIN tokens /\ status[r] = "live" /\ Started(r) /\ AtRaw(r)
        /\ Len(stack) \in DOMAIN stack /\ Top = stack[Len(stack)]
    BY <1>1, HostFrame, StackTypes DEF Top
  <1>3. DrivesKept /\ NoHost(r)
    BY <1>1, HostGoes, PopKeeps DEF NoHost
  <1>4. ASSUME NEW result, Finish(r, result, h[r])
        PROVE  Ends(r)
    BY <1>2, <1>3, <1>4, CallFits, FinishEnds
  <1>5. CASE n # 0 /\ answer = "value"
    <2>1. n \in DOMAIN tokens /\ tokens[n].k = next[r].k
      BY <1>1, <1>2, <1>5 DEF TokenInv, CallsHold
    <2>2. Apply(r, tokens[n].k, answer)
      BY <1>5 DEF HostThrows
    <2>3. /\ status' = [status EXCEPT ![r] = "live"] /\ next' = [next EXCEPT ![r] = resume(tokens[n].k)]
          /\ UNCHANGED <<outcome, base, h, allowSuspend, tagVars>>
      BY <1>5, <2>2 DEF Apply
    <2>4. OnlyRun(r) /\ status'[r] = "live" /\ next'[r] = resume(next[r].k)
      BY <1>1, <1>2, <2>1, <2>3 DEF OnlyRun, TypeOK
    <2> QED
      BY <1>2, <1>3, <2>3, <2>4, AnswerGoes
  <1>6. CASE ~(n # 0 /\ answer = "value")
    <2>1. \E result : Finish(r, result, h[r])
      BY <1>6 DEF HostThrows, Apply
    <2> QED
      BY <1>2, <1>4, <2>1
  <1> QED
    BY <1>5, <1>6

LEMMA HostThrowsAbortKind ==
  ASSUME TypeInv, ExtentInv, NEW t, HostThrowsAbort(t)
  PROVE  \E r \in Run : Goes(r)
  <1> DEFINE r == Top.run
             u == leave(t, h[r])
  <1>1. /\ TypeOK /\ stack # <<>> /\ Top.kind = "host" /\ stack' = Pop
        /\ Continue(r, u) /\ UNCHANGED <<h, tagVars>>
    BY DEF HostThrowsAbort, TypeInv
  <1>2. r \in Run /\ status[r] = "live" /\ Started(r) /\ AtRaw(r)
    BY <1>1, HostFrame
  <1>3. DrivesKept
    BY <1>1, PopKeeps
  <1>4. u.kind = "leave" /\ u.h = h[r]
    BY DEF leave
  <1> HIDE DEF u
  <1>5. Alone(r) /\ UNCHANGED <<status, outcome>> /\ next'[r] = u
    BY <1>1, <1>2, ContinueAlone
  <1>6. \A q \in Run : next'[q] = u => Here(q)' = h[r]
    BY <1>4 DEF Here
  <1>7. \A q \in Run : next'[q] = u => FitsNext(q)'
    BY <1>4 DEF FitsNext
  <1>8. PICK q \in Run : q = r
    BY <1>2
  <1>9. Goes(q)
    BY <1>1, <1>2, <1>3, <1>4, <1>5, <1>6, <1>7, <1>8, CallFits DEF Goes, Started
  <1> QED
    BY <1>9

LEMMA InvokeKind ==
  ASSUME TypeInv, NEW r \in Run, InvokeSync(r) \/ InvokePromise(r)
  PROVE  \E ctx : Begins(r, ctx)
  <1>1. PICK ctx, suspends :
          /\ Start(r, ctx, suspends)
          /\ ctx = <<>> \/ (current # Null /\ ctx = h[current] /\ ~suspends)
    <2>1. CASE InvokePromise(r)
      <3>1. Start(r, <<>>, TRUE)
        BY <2>1 DEF InvokePromise
      <3> WITNESS <<>>, TRUE
      <3> QED
        BY <3>1
    <2>2. CASE InvokeSync(r) /\ current = Null
      <3>1. Start(r, <<>>, FALSE)
        BY <2>2 DEF InvokeSync
      <3> WITNESS <<>>, FALSE
      <3> QED
        BY <3>1
    <2>3. CASE InvokeSync(r) /\ current # Null
      <3>1. Start(r, h[current], FALSE)
        BY <2>3 DEF InvokeSync
      <3> WITNESS h[current], FALSE
      <3> QED
        BY <2>3, <3>1
    <2> QED
      BY <2>1, <2>2, <2>3
  <1>2. Begins(r, ctx)
    BY <1>1 DEF Start, Begins, OnlyRun, TypeInv, TypeOK
  <1> QED
    BY <1>2

LEMMA SettleKind ==
  ASSUME TypeInv, TokenInv, ExtentInv, Settle
  PROVE  Rests \/ \E r \in Run : Goes(r) \/ Ends(r)
  <1>0. PICK n : n = Head(microtasks)
    OBVIOUS
  <1> DEFINE r == tokens[n].run
  <1>1. TypeOK /\ stack = <<>> /\ microtasks # <<>>
    BY DEF TypeInv, Settle
  <1>2. n \in DOMAIN tokens /\ Queued(n)
    BY <1>0, <1>1 DEF TypeOK, Queued
  <1>3. r \in Run /\ status[r] = "pending" /\ tokens[n].k = next[r].k
    BY <1>1, <1>2, TokenTypes DEF TokenInv, AnswersQueued, RunsAwait, Outstanding, Queued
  <1>4. AtRaw(r) /\ Started(r) /\ base[r] = <<>>
    BY <1>3 DEF TypeInv, StackInv, RunsAtCalls, Started, ExtentInv, Borrowed
  <1>5. Apply(r, tokens[n].k, tokens[n].answer)
    BY <1>0, <1>3 DEF Settle
  <1>6. CASE tokens[n].answer = "value"
    <2>1. stack' = Append(stack, Driver(r, current)) /\ Driver(r, current).run = r
      BY <1>0, <1>3, <1>6 DEF Settle, Driver
    <2>2. DrivesKept
      BY <1>4, <2>1, PushKeeps
    <2>3. /\ status' = [status EXCEPT ![r] = "live"] /\ next' = [next EXCEPT ![r] = resume(tokens[n].k)]
          /\ UNCHANGED <<outcome, base, h, allowSuspend, tagVars>>
      BY <1>5, <1>6 DEF Apply
    <2>4. OnlyRun(r) /\ status'[r] = "live" /\ next'[r] = resume(next[r].k)
      BY <1>1, <1>3, <2>3 DEF OnlyRun, TypeOK
    <2> QED
      BY <1>3, <1>4, <2>2, <2>3, <2>4, AnswerGoes
  <1>7. CASE tokens[n].answer # "value"
    <2>1. stack' = <<>>
      BY <1>0, <1>1, <1>3, <1>7 DEF Settle
    <2>2. DrivesKept /\ NoHost(r)
      BY <2>1 DEF DrivesKept, NoHost
    <2>3. Finish(r, tokens[n].answer, h[r])
      BY <1>5, <1>7 DEF Apply
    <2> QED
      BY <1>3, <1>4, <2>2, <2>3, CallFits, FinishEnds
  <1> QED
    BY <1>6, <1>7

LEMMA Kinds ==
  ASSUME TypeInv, TokenInv, ExtentInv, [Next]_vars
  PROVE  \/ Rests
         \/ \E r \in Run :
              \/ Goes(r) \/ Ends(r) \/ Opens(r)
              \/ \E t : Readies(r, t) \/ Closes(r, t) \/ Begins(r, t)
  <1>1. ASSUME UNCHANGED <<runVars, tagVars, stack>> PROVE Rests
    BY <1>1 DEF Rests, DrivesKept, TypeInv, TypeOK
  <1>2. CASE UNCHANGED vars
    BY <1>1, <1>2 DEF vars, hostVars
  <1>3. ASSUME NEW r \in Run, DriveReturns(r) PROVE Rests
    BY <1>3, PopKeeps DEF DriveReturns, Rests
  <1>4. ASSUME NEW n, NEW answer, Deliver(n, answer) PROVE Rests
    BY <1>1, <1>4 DEF Deliver
  <1>5. ASSUME NEW r \in Run, DriverLoop(r)
        PROVE  \E q \in Run :
                 \/ Goes(q) \/ Ends(q) \/ Opens(q)
                 \/ \E t : Readies(q, t) \/ Closes(q, t) \/ Begins(q, t)
    BY <1>5, StepKind, CallKind, RawKind, ResumeKind, EnterKind, LeaveKind DEF DriverLoop
  <1>6. CASE Foreign
    BY <1>4, <1>6, InvokeKind, HostReturnsKind, HostThrowsKind, HostThrowsAbortKind DEF Foreign
  <1> QED
    BY <1>2, <1>3, <1>5, <1>6, SettleKind DEF Next

-----------------------------------------------------------------------------
(* Handlers and contexts *)

\* A step of one run leaves the contexts of the others alone.
LEMMA Others ==
  ASSUME NEW r \in Run, OnlyRun(r), NEW q \in Run \ {r}, base'[q] = base[q]
  PROVE  /\ status'[q] = status[q] /\ next'[q] = next[q] /\ allowSuspend'[q] = allowSuspend[q]
         /\ Started(q)' <=> Started(q)
         /\ Here(q)' = Here(q)
         /\ FitsNext(q)' <=> FitsNext(q)
  <1>1. status'[q] = status[q] /\ next'[q] = next[q] /\ allowSuspend'[q] = allowSuspend[q] /\ h'[q] = h[q]
    BY DEF OnlyRun
  <1>2. Started(q)' <=> Started(q)
    BY <1>1 DEF Started
  <1>3. Here(q)' = Here(q)
    BY <1>1 DEF Here
  <1>4. FitsNext(q)' <=> FitsNext(q)
    BY <1>1 DEF FitsNext, Fits
  <1> QED
    BY <1>1, <1>2, <1>3, <1>4

\* A context stays in order as long as its handlers are left alone.
LEMMA StackedKept ==
  ASSUME NEW q \in Run, Stacked(q), base'[q] = base[q], Here(q)' = Here(q),
         \A i \in Own(q) :
           /\ active'[Here(q)[i]]
           /\ owner'[Here(q)[i]] = owner[Here(q)[i]]
           /\ parent'[Here(q)[i]] = parent[Here(q)[i]]
           /\ resumption'[Here(q)[i]] = resumption[Here(q)[i]]
  PROVE  Stacked(q)'
  <1>1. Own(q)' = Own(q)
    BY DEF Own
  <1>2. ASSUME NEW i \in Own(q)
        PROVE  LET t == Here(q)[i] IN
                 /\ active'[t] /\ owner'[t] = q /\ parent'[t] = SubSeq(Here(q), 1, i - 1)
                 /\ Fits(resumption[t], parent[t], q)'
    <2> DEFINE t == Here(q)[i]
    <2>1. PICK n : n = t
      OBVIOUS
    <2>2. Fits(resumption[n], parent[n], q) /\ parent'[n] = parent[n] /\ resumption'[n] = resumption[n]
      BY <1>2, <2>1 DEF Stacked
    <2>3. Fits(resumption[n], parent[n], q)'
      BY <2>2 DEF Fits
    <2> QED
      BY <1>2, <2>1, <2>3 DEF Stacked
  <1> QED
    BY <1>1, <1>2 DEF Stacked

\* The drivers of runs that extend a context keep what is below them, and with it
\* the foreign functions of the handlers' owners.
LEMMA BorrowedKept ==
  ASSUME TypeInv, TypeInv', Borrowed, DrivesKept,
         NEW i \in DOMAIN stack', stack'[i].kind = "drive", status'[stack'[i].run] = "live",
         status[stack'[i].run] = "live" \/ base[stack'[i].run] = <<>>,
         NEW j \in DOMAIN base[stack'[i].run]
  PROVE  LET t == base[stack'[i].run][j] IN
         /\ i \in DOMAIN stack /\ stack'[i] = stack[i] /\ active[t]
         /\ \E m \in 1 .. i - 1 :
              m \in DOMAIN stack' /\ stack'[m].kind = "host" /\ stack'[m].run = owner[t]
  <1>1. base[stack'[i].run] # <<>>
    OBVIOUS
  <1>2. i \in DOMAIN stack /\ \A m \in 1 .. i : stack'[m] = stack[m]
    BY <1>1 DEF DrivesKept
  <1>3. /\ DOMAIN stack = 1 .. Len(stack) /\ Len(stack) \in Nat
        /\ DOMAIN stack' = 1 .. Len(stack') /\ Len(stack') \in Nat
    BY DEF TypeInv, TypeOK
  <1>4. /\ stack'[i] = stack[i] /\ i \in Nat /\ i >= 1
        /\ \A m \in 1 .. i - 1 : m \in DOMAIN stack' /\ stack'[m] = stack[m]
    BY <1>2, <1>3
  <1>5. PICK q, n : q = stack[i].run /\ n = base[q][j]
    OBVIOUS
  <1>6. stack[i].kind = "drive" /\ status[q] = "live" /\ j \in DOMAIN base[q]
    BY <1>1, <1>4, <1>5
  <1>7. active[n] /\ \E m \in 1 .. i - 1 : stack[m].kind = "host" /\ stack[m].run = owner[n]
    BY <1>2, <1>5, <1>6 DEF Borrowed
  <1> QED
    BY <1>2, <1>4, <1>5, <1>7

\* Handlers whose owners execute foreign functions stay open: those that contexts
\* were extended from.
LEMMA BorrowedStep ==
  ASSUME TypeInv, TypeInv', Borrowed, DrivesKept, base' = base, allowSuspend' = allowSuspend,
         \A q \in Run : status'[q] = "live" => status[q] = "live" \/ base[q] = <<>>,
         \A t \in Tag, m \in DOMAIN stack' :
           active[t] /\ stack'[m].kind = "host" /\ stack'[m].run = owner[t] =>
             active'[t] /\ owner'[t] = owner[t]
  PROVE  Borrowed'
  <1>1. ASSUME NEW i \in DOMAIN stack', stack'[i].kind = "drive", status'[stack'[i].run] = "live",
               NEW j \in DOMAIN base'[stack'[i].run]
        PROVE  LET t == base'[stack'[i].run][j] IN
               /\ active'[t]
               /\ \E m \in 1 .. i - 1 : stack'[m].kind = "host" /\ stack'[m].run = owner'[t]
    <2>1. PICK q : q = stack'[i].run
      OBVIOUS
    <2>2. q \in Run /\ base[q] \in Seq(Tag)
      BY <2>1 DEF TypeInv, TypeOK, JsFrame, Context
    <2>3. PICK t \in Tag : t = base[q][j]
      BY <1>1, <2>1, <2>2
    <2>4. PICK m \in 1 .. i - 1 :
            active[t] /\ m \in DOMAIN stack' /\ stack'[m].kind = "host" /\ stack'[m].run = owner[t]
      BY <1>1, <2>1, <2>2, <2>3, BorrowedKept
    <2> QED
      BY <2>1, <2>3, <2>4
  <1>2. \A q \in Run : allowSuspend'[q] => base'[q] = <<>>
    BY DEF Borrowed
  <1> QED
    BY <1>1, <1>2 DEF Borrowed

-----------------------------------------------------------------------------
(* Each kind of step keeps the contexts in order *)

LEMMA RestsExtent ==
  ASSUME TypeInv, TypeInv', ExtentInv, Rests
  PROVE  ExtentInv'
  <1>1. /\ UNCHANGED <<status, outcome, base, h, allowSuspend, next>>
        /\ UNCHANGED <<allocated, active, owner, parent, resumption>>
    BY DEF Rests, runVars, tagVars
  <1>2. \A q \in Run : (Started(q)' <=> Started(q)) /\ Here(q)' = Here(q) /\ Own(q)' = Own(q)
    BY <1>1 DEF Started, Here, Own
  <1>3. Fitting'
    BY <1>1, <1>2 DEF ExtentInv, Fitting, FitsNext, Fits
  <1>4. ASSUME NEW q \in Run, Started(q)' PROVE Stacked(q)'
    <2>1. Stacked(q)
      BY <1>2, <1>4 DEF ExtentInv, Nested
    <2> QED
      BY <1>1, <1>2, <2>1, StackedKept DEF Stacked
  <1>5. Owned' /\ EntersOnce'
    BY <1>1, <1>2 DEF ExtentInv, Owned, EntersOnce
  <1>6. Borrowed'
    BY <1>1, BorrowedStep DEF ExtentInv, Rests
  <1> QED
    BY <1>1, <1>3, <1>4, <1>5, <1>6 DEF ExtentInv, Undecided, Nested

LEMMA GoesExtent ==
  ASSUME TypeInv, TypeInv', ExtentInv, NEW r \in Run, Goes(r)
  PROVE  ExtentInv'
  <1>1. /\ Alone(r) /\ OnlyRun(r) /\ base' = base /\ allowSuspend' = allowSuspend /\ outcome' = outcome
        /\ UNCHANGED <<allocated, active, owner, parent, resumption>>
        /\ Started(r) /\ Started(r)' /\ Here(r)' = Here(r) /\ FitsNext(r)'
        /\ next'[r].kind # "enter"
    BY DEF Goes, Alone, tagVars
  <1>2. \A q \in Run : (Started(q)' <=> Started(q)) /\ Here(q)' = Here(q) /\ Own(q)' = Own(q)
    BY <1>1, Others DEF Own
  <1>3. ASSUME NEW q \in Run, Started(q)' PROVE FitsNext(q)' /\ Stacked(q)'
    <2>1. Stacked(q) /\ (q # r => FitsNext(q))
      BY <1>2, <1>3 DEF ExtentInv, Nested, Fitting
    <2>2. FitsNext(q)'
      BY <1>1, <2>1, Others
    <2> QED
      BY <1>1, <1>2, <2>1, <2>2, StackedKept DEF Stacked
  <1>4. Owned'
    BY <1>1, <1>2 DEF ExtentInv, Owned
  <1>8. EntersOnce'
    BY <1>1, Others DEF ExtentInv, EntersOnce
  <1>5. \A q \in Run : status'[q] = "live" => status[q] = "live" \/ base[q] = <<>>
    BY <1>1 DEF Goes, OnlyRun
  <1>6. Borrowed'
    BY <1>1, <1>5, BorrowedStep DEF ExtentInv, Goes
  <1>7. Undecided'
    BY <1>1, Others DEF ExtentInv, Undecided, Started
  <1> QED
    BY <1>3, <1>4, <1>6, <1>7, <1>8 DEF ExtentInv, Nested, Fitting

LEMMA ReadiesExtent ==
  ASSUME TypeInv, TypeInv', ExtentInv, NEW r \in Run, NEW t, Readies(r, t)
  PROVE  ExtentInv'
  <1>1. /\ Alone(r) /\ OnlyRun(r) /\ base' = base /\ allowSuspend' = allowSuspend
        /\ UNCHANGED <<status, outcome, stack, active, owner, parent, resumption>>
        /\ Started(r) /\ t \notin allocated /\ allocated' = allocated \cup {t}
        /\ next'[r].kind = "enter" /\ next'[r].tag = t /\ next'[r].h = Here(r) /\ h'[r] = Here(r)
        /\ Fits(next'[r].k, Here(r), r)
    BY DEF Readies, Alone, hostVars
  <1>2. \A q \in Run : (Started(q)' <=> Started(q)) /\ Here(q)' = Here(q) /\ Own(q)' = Own(q)
    <2>1. Here(r)' = Here(r)
      BY <1>1 DEF Here
    <2> QED
      BY <1>1, <2>1, Others DEF Own, Started
  <1>3. FitsNext(r)'
    BY <1>1 DEF FitsNext, Fits
  <1>4. ASSUME NEW q \in Run, Started(q)' PROVE FitsNext(q)' /\ Stacked(q)'
    <2>1. Stacked(q) /\ (q # r => FitsNext(q))
      BY <1>2, <1>4 DEF ExtentInv, Nested, Fitting
    <2>2. FitsNext(q)'
      BY <1>1, <1>3, <2>1, Others
    <2> QED
      BY <1>1, <1>2, <2>1, <2>2, StackedKept DEF Stacked
  <1>5. Owned'
    BY <1>1, <1>2 DEF ExtentInv, Owned
  <1>9. EntersOnce'
    <2>2. t \in Tag /\ ~active[t]
      BY <1>1 DEF ExtentInv, Owned, Readies
    <2>3. \A q \in Run \ {r} : Started(q) /\ next[q].kind = "enter" => next[q].tag \in allocated
      BY DEF ExtentInv, EntersOnce
    <2>4. ASSUME NEW p \in Run, Started(p)', next'[p].kind = "enter"
          PROVE  /\ next'[p].tag \in allocated' /\ ~active'[next'[p].tag]
                 /\ \A q \in Run : Started(q)' /\ next'[q].kind = "enter" /\ next'[q].tag = next'[p].tag
                                   => q = p
      <3>1. CASE p = r
        BY <1>1, <2>2, <2>3, <3>1, Others
      <3>2. CASE p # r
        <4>1. Started(p) /\ next[p] = next'[p]
          BY <1>1, <2>4, <3>2, Others
        <4>2. /\ next[p].tag \in allocated /\ ~active[next[p].tag]
              /\ \A q \in Run : Started(q) /\ next[q].kind = "enter" /\ next[q].tag = next[p].tag => q = p
          BY <2>4, <4>1 DEF ExtentInv, EntersOnce
        <4> QED
          BY <1>1, <4>1, <4>2, Others
      <3> QED
        BY <3>1, <3>2
    <2> QED
      BY <2>4 DEF EntersOnce
  <1>6. DrivesKept
    BY <1>1 DEF DrivesKept, TypeInv, TypeOK
  <1>7. Borrowed'
    BY <1>1, <1>6, BorrowedStep DEF ExtentInv
  <1>8. Undecided'
    BY <1>1 DEF ExtentInv, Undecided
  <1> QED
    BY <1>4, <1>5, <1>7, <1>8, <1>9 DEF ExtentInv, Nested, Fitting

\* What is known of a handler of a run's own.
LEMMA OwnTag ==
  ASSUME TypeInv, ExtentInv, NEW r \in Run, Started(r), NEW i \in Own(r), NEW t, t = Here(r)[i]
  PROVE  /\ t \in Tag /\ active[t] /\ owner[t] = r
         /\ parent[t] = SubSeq(Here(r), 1, i - 1)
         /\ Fits(resumption[t], parent[t], r)
  <1>1. Here(r) \in Seq(Tag) /\ i \in DOMAIN Here(r)
    BY HereTyped, Positions DEF Context, ExtentInv
  <1>2. Stacked(r)
    BY DEF ExtentInv, Nested
  <1> QED
    BY <1>1, <1>2 DEF Stacked

\* A run that closes its handlers from a position on keeps those before it, and
\* those of other runs.
LEMMA Closing ==
  ASSUME TypeInv, ExtentInv, NEW r \in Run, Started(r),
         NEW n \in Len(base[r]) .. Len(Here(r)), Expire(Here(r), SubSeq(Here(r), 1, n))
  PROVE  /\ allocated' = allocated /\ parent' = parent
         /\ \A t \in Tag : active'[t] =>
              active[t] /\ owner'[t] = owner[t] /\ resumption'[t] = resumption[t]
         /\ \A t \in Tag : active[t] /\ owner[t] # r => active'[t]
         /\ \A i \in (n + 1) .. Len(Here(r)) : ~active'[Here(r)[i]]
         /\ \A i \in Own(r) : i <= n => active'[Here(r)[i]]
  <1>1. PICK ctx \in Seq(Tag) : ctx = Here(r)
    BY HereTyped DEF Context
  <1>2. /\ Len(base[r]) \in Nat /\ Len(ctx) \in Nat /\ n \in 0 .. Len(ctx) /\ n \in Nat
        /\ DOMAIN ctx = 1 .. Len(ctx) /\ Own(r) = (Len(base[r]) + 1) .. Len(ctx)
    BY <1>1, Positions DEF ExtentInv, Own
  <1>3. PICK gone : gone = { ctx[i] : i \in (n + 1) .. Len(ctx) }
    OBVIOUS
  <1>4. Walked(ctx, SubSeq(ctx, 1, n)) = gone
    BY <1>1, <1>2, <1>3, WalkedFrom DEF Context
  <1>5. /\ \A t \in Tag : active'[t] <=> t \notin gone /\ active[t]
        /\ \A t \in Tag : t \notin gone => owner'[t] = owner[t] /\ resumption'[t] = resumption[t]
        /\ allocated' = allocated /\ parent' = parent
    BY <1>1, <1>4 DEF Expire
  <1>6. \A i \in Own(r) : /\ active[ctx[i]] /\ owner[ctx[i]] = r
                          /\ parent[ctx[i]] = SubSeq(ctx, 1, i - 1) /\ ctx[i] \in Tag
    BY <1>1, OwnTag
  <1>7. \A t \in gone : t \in Tag /\ owner[t] = r
    BY <1>2, <1>3, <1>6
  <1>8. ASSUME NEW i \in Own(r), i <= n PROVE ctx[i] \notin gone
    <2>1. ASSUME NEW j \in (n + 1) .. Len(ctx), ctx[j] = ctx[i] PROVE FALSE
      <3>1. j \in Own(r) /\ j \in Nat /\ i \in Nat /\ i < j /\ i - 1 \in 0 .. Len(ctx) /\ j - 1 \in 0 .. Len(ctx)
        BY <1>2, <1>8, <2>1
      <3>2. SubSeq(ctx, 1, i - 1) = SubSeq(ctx, 1, j - 1)
        BY <1>6, <2>1, <3>1
      <3>3. Len(SubSeq(ctx, 1, i - 1)) = i - 1 /\ Len(SubSeq(ctx, 1, j - 1)) = j - 1
        BY <3>1, PrefixOfSeq
      <3> QED
        BY <3>1, <3>2, <3>3
    <2> QED
      BY <1>3, <2>1
  <1>9. \A i \in (n + 1) .. Len(ctx) : ctx[i] \in gone /\ ctx[i] \in Tag
    BY <1>2, <1>3
  <1> QED
    BY <1>1, <1>5, <1>6, <1>7, <1>8, <1>9

LEMMA EndsExtent ==
  ASSUME TypeInv, TypeInv', ExtentInv, NEW r \in Run, Ends(r)
  PROVE  ExtentInv'
  <1>1. /\ Alone(r) /\ OnlyRun(r) /\ base' = base /\ allowSuspend' = allowSuspend
        /\ Started(r) /\ ~Started(r)' /\ status'[r] = "done"
        /\ DrivesKept /\ NoHost(r)
    BY DEF Ends, Alone, Started
  <1>2. /\ Expire(Here(r), SubSeq(Here(r), 1, Len(base[r])))
        /\ Len(base[r]) \in Len(base[r]) .. Len(Here(r)) /\ Len(base[r]) \in Nat /\ Len(Here(r)) \in Nat
    <2>1. base[r] = SubSeq(Here(r), 1, Len(base[r])) /\ Expire(Here(r), base[r])
      BY <1>1, Positions DEF Ends, ExtentInv
    <2>2. Expire(Here(r), SubSeq(Here(r), 1, Len(base[r])))
      BY <2>1 DEF Expire
    <2>3. Len(base[r]) \in Nat /\ Len(Here(r)) \in Nat /\ Len(base[r]) \in 0 .. Len(Here(r))
      BY <1>1, Positions DEF ExtentInv
    <2> QED
      BY <2>2, <2>3
  <1>3. /\ allocated' = allocated /\ parent' = parent
        /\ \A t \in Tag : active'[t] =>
             active[t] /\ owner'[t] = owner[t] /\ resumption'[t] = resumption[t]
        /\ \A t \in Tag : active[t] /\ owner[t] # r => active'[t]
        /\ \A i \in Own(r) : ~active'[Here(r)[i]]
    BY <1>1, <1>2, Closing DEF Own
  <1>4. ASSUME NEW q \in Run, Started(q)' PROVE q # r /\ FitsNext(q)' /\ Stacked(q)'
    <2>1. q # r /\ Started(q) /\ Here(q)' = Here(q) /\ FitsNext(q)' /\ Stacked(q)
      BY <1>1, <1>4, Others DEF ExtentInv, Nested, Fitting
    <2>2. \A i \in Own(q) : Here(q)[i] \in Tag /\ active[Here(q)[i]] /\ owner[Here(q)[i]] = q
      BY <2>1, HereTyped, Positions DEF Stacked, Context, ExtentInv
    <2> QED
      BY <1>1, <1>3, <2>1, <2>2, StackedKept
  <1>5. Owned'
    <2>1. ASSUME NEW t \in Tag, active'[t]
          PROVE  t \in allocated' /\ \E q \in Run : owner'[t] = q /\ Started(q)' /\ \E i \in Own(q)' : Here(q)'[i] = t
      <3>1. active[t] /\ owner'[t] = owner[t]
        BY <1>3, <2>1
      <3>2. PICK q \in Run : owner[t] = q /\ Started(q) /\ \E i \in Own(q) : Here(q)[i] = t
        BY <3>1 DEF ExtentInv, Owned
      <3>3. q # r
        BY <1>3, <2>1, <3>2
      <3>4. Started(q)' /\ Here(q)' = Here(q) /\ Own(q)' = Own(q)
        BY <1>1, <3>2, <3>3, Others DEF Own
      <3> QED
        BY <1>3, <3>1, <3>2, <3>4 DEF ExtentInv, Owned
    <2> QED
      BY <2>1 DEF Owned
  <1>6. EntersOnce'
    <2>1. \A q \in Run : Started(q)' => Started(q) /\ next'[q] = next[q]
      BY <1>1, Others
    <2>2. \A q \in Run : Started(q)' /\ next'[q].kind = "enter" => next[q].tag \in Tag
      BY <2>1, NextTyped
    <2> QED
      BY <1>3, <2>1, <2>2 DEF ExtentInv, EntersOnce
  <1>7. Borrowed'
    <2>1. \A q \in Run : status'[q] = "live" => status[q] = "live"
      BY <1>1 DEF OnlyRun
    <2>2. \A t \in Tag, m \in DOMAIN stack' :
            active[t] /\ stack'[m].kind = "host" /\ stack'[m].run = owner[t] =>
              active'[t] /\ owner'[t] = owner[t]
      BY <1>1, <1>3 DEF NoHost
    <2> QED
      BY <1>1, <2>1, <2>2, BorrowedStep DEF ExtentInv
  <1>8. Undecided'
    BY <1>1 DEF ExtentInv, Undecided, Alone, OnlyRun
  <1> QED
    BY <1>4, <1>5, <1>6, <1>7, <1>8 DEF ExtentInv, Nested, Fitting

LEMMA ClosesExtent ==
  ASSUME TypeInv, TypeInv', ExtentInv, NEW r \in Run, NEW t, Closes(r, t)
  PROVE  ExtentInv'
  <1>1. /\ Alone(r) /\ OnlyRun(r) /\ base' = base /\ allowSuspend' = allowSuspend
        /\ UNCHANGED <<status, outcome, stack>>
        /\ Driving(r) /\ Started(r) /\ DrivesKept /\ NoHost(r)
        /\ t \in Tag /\ active[t] /\ owner[t] = r /\ next[r].kind = "leave"
        /\ h'[r] = parent[t] /\ next'[r] = resume(resumption[t])
    BY TurnKeeps DEF Closes, Alone, hostVars
  <1>2. PICK ctx \in Seq(Tag) : ctx = Here(r)
    BY <1>1, HereTyped DEF Context
  <1>3. PICK n \in Own(r) : ctx[n] = t
    BY <1>1, <1>2 DEF ExtentInv, Owned
  <1>4. /\ Len(base[r]) \in Nat /\ Len(ctx) \in Nat /\ Own(r) = (Len(base[r]) + 1) .. Len(ctx)
        /\ n \in Nat /\ n - 1 \in Len(base[r]) .. Len(ctx) /\ n - 1 \in 0 .. Len(ctx)
        /\ (n - 1) + 1 = n
    BY <1>1, <1>2, <1>3, Positions DEF ExtentInv, Own
  <1>5. PICK outer \in Seq(Tag) : outer = SubSeq(ctx, 1, n - 1)
    BY <1>2, <1>4, PrefixOfSeq
  <1>6. /\ parent[t] = outer /\ Fits(resumption[t], outer, r)
        /\ Len(outer) = n - 1 /\ \A i \in 1 .. n - 1 : outer[i] = ctx[i]
        /\ \A i \in Own(r) : i <= n => SubSeq(outer, 1, i - 1) = SubSeq(ctx, 1, i - 1)
    <2>1. parent[t] = outer /\ Fits(resumption[t], outer, r)
      <3>1. parent[t] = SubSeq(Here(r), 1, n - 1) /\ Fits(resumption[t], parent[t], r)
        BY <1>1, <1>2, <1>3, OwnTag
      <3> QED
        BY <1>2, <1>5, <3>1
    <2>2. Len(outer) = n - 1 /\ \A i \in 1 .. n - 1 : outer[i] = ctx[i]
      BY <1>4, <1>5, PrefixOfSeq
    <2>3. ASSUME NEW i \in Own(r), i <= n PROVE SubSeq(outer, 1, i - 1) = SubSeq(ctx, 1, i - 1)
      <3>1. i - 1 \in 0 .. Len(outer) /\ i - 1 \in 0 .. Len(ctx) /\ i - 1 \in Nat
        BY <1>4, <2>2, <2>3
      <3>2. \A j \in 1 .. i - 1 : outer[j] = ctx[j]
        BY <1>4, <2>2, <2>3
      <3> QED
        BY <3>1, <3>2, PrefixOfSeq
    <2> QED
      BY <2>1, <2>2, <2>3
  <1>7. /\ allocated' = allocated /\ parent' = parent
        /\ \A u \in Tag : active'[u] =>
             active[u] /\ owner'[u] = owner[u] /\ resumption'[u] = resumption[u]
        /\ \A u \in Tag : active[u] /\ owner[u] # r => active'[u]
        /\ \A i \in n .. Len(ctx) : ~active'[ctx[i]]
        /\ \A i \in Own(r) : i <= n - 1 => active'[ctx[i]]
    <2>1. Expire(Here(r), SubSeq(Here(r), 1, n - 1))
      BY <1>2, <1>5, <1>6 DEF Closes
    <2>2. n - 1 \in Len(base[r]) .. Len(Here(r))
      BY <1>2, <1>4
    <2>3. PICK m : m = n - 1
      OBVIOUS
    <2>4. m \in Len(base[r]) .. Len(Here(r)) /\ Expire(Here(r), SubSeq(Here(r), 1, m)) /\ m + 1 = n
      BY <1>4, <2>1, <2>2, <2>3
    <2>5. /\ allocated' = allocated /\ parent' = parent
          /\ \A u \in Tag : active'[u] =>
               active[u] /\ owner'[u] = owner[u] /\ resumption'[u] = resumption[u]
          /\ \A u \in Tag : active[u] /\ owner[u] # r => active'[u]
          /\ \A i \in (m + 1) .. Len(Here(r)) : ~active'[Here(r)[i]]
          /\ \A i \in Own(r) : i <= m => active'[Here(r)[i]]
      BY <1>1, <2>4, Closing
    <2> QED
      BY <1>2, <2>3, <2>4, <2>5
  <1>8. /\ next'[r].kind = "resume" /\ next'[r].k = resumption[t]
        /\ Here(r)' = outer /\ Own(r)' = (Len(base[r]) + 1) .. n - 1
    BY <1>1, <1>6 DEF resume, Here, Own
  <1>9. FitsNext(r)'
    BY <1>1, <1>6, <1>8 DEF FitsNext, Fits
  <1>10. ASSUME NEW q \in Run, q # r, Started(q)' PROVE FitsNext(q)' /\ Stacked(q)'
    <2>1. Started(q) /\ Here(q)' = Here(q) /\ FitsNext(q)' /\ Stacked(q)
      BY <1>1, <1>10, Others DEF ExtentInv, Nested, Fitting
    <2>2. \A i \in Own(q) : Here(q)[i] \in Tag /\ active[Here(q)[i]] /\ owner[Here(q)[i]] = q
      BY <2>1, HereTyped, Positions DEF Stacked, Context, ExtentInv
    <2> QED
      BY <1>1, <1>7, <1>10, <2>1, <2>2, StackedKept
  <1>11. Stacked(r)'
    <2>1. Len(base'[r]) <= Len(outer) /\ \A i \in DOMAIN base'[r] : outer[i] = base'[r][i]
      <3>1. DOMAIN base[r] = 1 .. Len(base[r]) /\ \A i \in DOMAIN base[r] : ctx[i] = base[r][i]
        BY <1>1, <1>2, Positions DEF ExtentInv, Nested, Stacked
      <3>2. base'[r] = base[r] /\ Len(base[r]) <= n - 1
        BY <1>1, <1>4
      <3>3. \A i \in DOMAIN base[r] : i \in 1 .. n - 1
        BY <1>4, <3>1, <3>2
      <3> QED
        BY <1>6, <3>1, <3>2, <3>3
    <2>2. ASSUME NEW i \in (Len(base[r]) + 1) .. n - 1
          PROVE  /\ active'[outer[i]] /\ owner'[outer[i]] = r
                 /\ parent'[outer[i]] = SubSeq(outer, 1, i - 1)
                 /\ Fits(resumption[outer[i]], parent[outer[i]], r)'
      <3>1. i \in Own(r) /\ i <= n - 1 /\ i <= n /\ i \in 1 .. n - 1
        BY <1>4
      <3>2. PICK u : u = ctx[i]
        OBVIOUS
      <3>3. /\ u = outer[i] /\ u \in Tag /\ active'[u] /\ owner[u] = r
            /\ parent[u] = SubSeq(outer, 1, i - 1) /\ Fits(resumption[u], parent[u], r)
        <4>1. /\ u \in Tag /\ owner[u] = r /\ parent[u] = SubSeq(Here(r), 1, i - 1)
              /\ Fits(resumption[u], parent[u], r)
          BY <1>1, <1>2, <3>1, <3>2, OwnTag
        <4> QED
          BY <1>2, <1>6, <1>7, <3>1, <3>2, <4>1
      <3>4. parent'[u] = parent[u] /\ owner'[u] = owner[u] /\ resumption'[u] = resumption[u]
        BY <1>7, <3>3
      <3>5. Fits(resumption[u], parent[u], r)'
        BY <1>1, <3>3, <3>4 DEF Fits
      <3>6. \A v : v = u => (Fits(resumption[v], parent[v], r)' <=> Fits(resumption[u], parent[u], r)')
        BY DEF Fits
      <3> QED
        BY <3>3, <3>4, <3>5, <3>6
    <2> QED
      BY <1>8, <2>1, <2>2 DEF Stacked
  <1>12. Owned'
    <2>1. ASSUME NEW u \in Tag, active'[u]
          PROVE  u \in allocated' /\ \E q \in Run : owner'[u] = q /\ Started(q)' /\ \E i \in Own(q)' : Here(q)'[i] = u
      <3>1. active[u] /\ owner'[u] = owner[u]
        BY <1>7, <2>1
      <3>2. PICK q \in Run : owner[u] = q /\ Started(q) /\ \E i \in Own(q) : Here(q)[i] = u
        BY <3>1 DEF ExtentInv, Owned
      <3>3. Started(q)'
        BY <1>1, <3>2, Others DEF Started
      <3>4. \E i \in Own(q)' : Here(q)'[i] = u
        <4>1. CASE q # r
          BY <1>1, <3>2, <4>1, Others DEF Own
        <4>2. CASE q = r
          <5>1. PICK i \in Own(r) : ctx[i] = u
            BY <1>2, <3>2, <4>2
          <5>2. i \in (Len(base[r]) + 1) .. n - 1 /\ i \in 1 .. n - 1
            BY <1>4, <1>7, <2>1, <5>1
          <5>3. i \in Own(r)' /\ Here(r)'[i] = u
            BY <1>6, <1>8, <5>1, <5>2
          <5> QED
            BY <4>2, <5>3 DEF Own, Here
        <4> QED
          BY <4>1, <4>2
      <3> QED
        BY <1>7, <3>1, <3>2, <3>3, <3>4 DEF ExtentInv, Owned
    <2> QED
      BY <2>1 DEF Owned
  <1>13. EntersOnce'
    <2>1. \A q \in Run : Started(q)' /\ next'[q].kind = "enter" => Started(q) /\ next'[q] = next[q]
      BY <1>1, <1>8, Others DEF Started
    <2>2. \A q \in Run : Started(q)' /\ next'[q].kind = "enter" => next[q].tag \in Tag
      BY <2>1, NextTyped
    <2> QED
      BY <1>7, <2>1, <2>2 DEF ExtentInv, EntersOnce
  <1>14. Borrowed'
    <2>1. \A u \in Tag, m \in DOMAIN stack' :
            active[u] /\ stack'[m].kind = "host" /\ stack'[m].run = owner[u] =>
              active'[u] /\ owner'[u] = owner[u]
      BY <1>1, <1>7 DEF NoHost
    <2> QED
      BY <1>1, <2>1, BorrowedStep DEF ExtentInv
  <1>15. Undecided'
    BY <1>1 DEF ExtentInv, Undecided
  <1> QED
    BY <1>9, <1>10, <1>11, <1>12, <1>13, <1>14, <1>15 DEF ExtentInv, Nested, Fitting

LEMMA OpensExtent ==
  ASSUME TypeInv, TypeInv', ExtentInv, NEW r \in Run, Opens(r)
  PROVE  ExtentInv'
  <1>0. PICK t, ctx, k : t = next[r].tag /\ ctx = next[r].h /\ k = next[r].k
    OBVIOUS
  <1>1. /\ Alone(r) /\ OnlyRun(r) /\ base' = base /\ allowSuspend' = allowSuspend
        /\ UNCHANGED <<status, outcome, stack, h, allocated>>
        /\ Driving(r) /\ Started(r) /\ DrivesKept /\ next[r].kind = "enter"
    BY TurnKeeps DEF Opens, Alone, hostVars, Enter
  <1>2. /\ ctx \in Seq(Tag) /\ Len(ctx) \in Nat /\ t \in Tag /\ Here(r) = ctx /\ h[r] = ctx
        /\ Fits(k, ctx, r)
    BY <1>0, <1>1, NextTyped DEF ExtentInv, Fitting, FitsNext, Here, Context
  <1>3. /\ t \in allocated /\ ~active[t]
        /\ \A q \in Run : Started(q) /\ next[q].kind = "enter" /\ next[q].tag = t => q = r
    BY <1>0, <1>1 DEF ExtentInv, EntersOnce
  <1>4. /\ active' = [active EXCEPT ![t] = TRUE] /\ parent' = [parent EXCEPT ![t] = ctx]
        /\ resumption' = [resumption EXCEPT ![t] = k] /\ owner' = [owner EXCEPT ![t] = r]
        /\ next' = [next EXCEPT ![r] = step(Append(ctx, t), <<>>, t)]
    BY <1>0 DEF Opens, Enter, Continue
  <1>5. /\ active'[t] /\ parent'[t] = ctx /\ resumption'[t] = k /\ owner'[t] = r
        /\ \A u \in Tag : active[u] => /\ u # t /\ active'[u] /\ owner'[u] = owner[u]
                                       /\ parent'[u] = parent[u] /\ resumption'[u] = resumption[u]
        /\ \A u \in Tag : active'[u] => u = t \/ active[u]
    BY <1>2, <1>3, <1>4 DEF TypeInv, TypeOK
  <1>6. PICK inner \in Seq(Tag) : inner = Append(ctx, t)
    <2>1. Append(ctx, t) \in Seq(Tag)
      BY <1>2
    <2> QED
      BY <2>1
  <1>7. /\ Len(inner) = Len(ctx) + 1 /\ inner[Len(ctx) + 1] = t
        /\ \A i \in 1 .. Len(ctx) : inner[i] = ctx[i]
        /\ \A i \in 1 .. Len(ctx) + 1 : SubSeq(inner, 1, i - 1) = SubSeq(ctx, 1, i - 1)
    <2>1. /\ Len(inner) = Len(ctx) + 1 /\ inner[Len(ctx) + 1] = t
          /\ \A i \in 1 .. Len(ctx) : inner[i] = ctx[i]
      BY <1>2, <1>6
    <2>2. ASSUME NEW i \in 1 .. Len(ctx) + 1 PROVE SubSeq(inner, 1, i - 1) = SubSeq(ctx, 1, i - 1)
      <3>1. i - 1 \in 0 .. Len(inner) /\ i - 1 \in 0 .. Len(ctx) /\ i - 1 \in Nat
        BY <1>2, <2>1, <2>2
      <3>2. \A j \in 1 .. i - 1 : inner[j] = ctx[j]
        BY <1>2, <2>1, <2>2
      <3> QED
        BY <1>2, <3>1, <3>2, PrefixOfSeq
    <2> QED
      BY <2>1, <2>2
  <1>8. /\ next'[r].kind = "step" /\ next'[r].h = inner /\ next'[r].tag = t /\ next'[r].k = <<>>
        /\ Here(r)' = inner
    BY <1>4, <1>6 DEF step, Here, TypeInv, TypeOK
  <1>9. /\ Len(base[r]) \in Nat /\ Len(base[r]) <= Len(ctx) /\ DOMAIN base[r] = 1 .. Len(base[r])
        /\ Own(r) = (Len(base[r]) + 1) .. Len(ctx) /\ Own(r)' = (Len(base[r]) + 1) .. Len(ctx) + 1
    BY <1>1, <1>2, <1>7, <1>8, Positions DEF ExtentInv, Own
  <1>10. FitsNext(r)'
    BY <1>1, <1>2, <1>7, <1>8, <1>9, NullAssumption DEF FitsNext
  <1>11. ASSUME NEW q \in Run, q # r, Started(q)' PROVE FitsNext(q)' /\ Stacked(q)'
    <2>1. Started(q) /\ Here(q)' = Here(q) /\ FitsNext(q)' /\ Stacked(q)
      BY <1>1, <1>11, Others DEF ExtentInv, Nested, Fitting
    <2>2. \A i \in Own(q) : Here(q)[i] \in Tag /\ active[Here(q)[i]]
      BY <2>1, OwnTag
    <2> QED
      BY <1>1, <1>5, <1>11, <2>1, <2>2, StackedKept
  <1>12. Stacked(r)'
    <2>1. Len(base'[r]) <= Len(inner) /\ \A i \in DOMAIN base'[r] : inner[i] = base'[r][i]
      <3>1. \A i \in DOMAIN base[r] : ctx[i] = base[r][i]
        BY <1>1, <1>2 DEF ExtentInv, Nested, Stacked
      <3> QED
        BY <1>1, <1>2, <1>7, <1>9, <3>1
    <2>2. ASSUME NEW i \in (Len(base[r]) + 1) .. Len(ctx) + 1
          PROVE  /\ active'[inner[i]] /\ owner'[inner[i]] = r
                 /\ parent'[inner[i]] = SubSeq(inner, 1, i - 1)
                 /\ Fits(resumption[inner[i]], parent[inner[i]], r)'
      <3>1. PICK u : u = inner[i]
        OBVIOUS
      <3>2. CASE i = Len(ctx) + 1
        <4>1. /\ u = t /\ active'[u] /\ owner'[u] = r /\ parent'[u] = ctx /\ resumption'[u] = k
              /\ SubSeq(inner, 1, i - 1) = ctx
          BY <1>2, <1>5, <1>7, <3>1, <3>2
        <4>2. Fits(resumption[u], parent[u], r)'
          BY <1>1, <1>2, <4>1 DEF Fits
        <4> QED
          BY <3>1, <4>1, <4>2 DEF Fits
      <3>3. CASE i # Len(ctx) + 1
        <4>1. i \in Own(r) /\ i \in 1 .. Len(ctx) /\ i \in 1 .. Len(ctx) + 1
          BY <1>2, <1>9, <3>3
        <4>2. /\ u \in Tag /\ u = Here(r)[i] /\ active[u] /\ owner[u] = r
              /\ parent[u] = SubSeq(inner, 1, i - 1) /\ Fits(resumption[u], parent[u], r)
          <5>1. u = Here(r)[i]
            BY <1>2, <1>7, <3>1, <4>1
          <5>2. /\ u \in Tag /\ active[u] /\ owner[u] = r
                /\ parent[u] = SubSeq(Here(r), 1, i - 1) /\ Fits(resumption[u], parent[u], r)
            BY <1>1, <4>1, <5>1, OwnTag
          <5> QED
            BY <1>2, <1>7, <4>1, <5>1, <5>2
        <4>3. /\ active'[u] /\ parent'[u] = parent[u] /\ owner'[u] = owner[u]
              /\ resumption'[u] = resumption[u]
          BY <1>5, <4>2
        <4>4. Fits(resumption[u], parent[u], r)'
          BY <1>1, <4>2, <4>3 DEF Fits
        <4> QED
          BY <3>1, <4>2, <4>3, <4>4 DEF Fits
      <3> QED
        BY <3>2, <3>3
    <2> QED
      BY <1>8, <1>9, <2>1, <2>2 DEF Stacked
  <1>13. Owned'
    <2>1. ASSUME NEW u \in Tag, active'[u]
          PROVE  u \in allocated' /\ \E q \in Run : owner'[u] = q /\ Started(q)' /\ \E i \in Own(q)' : Here(q)'[i] = u
      <3>1. CASE u = t
        <4>1. Len(ctx) + 1 \in Own(r)' /\ Here(r)'[Len(ctx) + 1] = u
          BY <1>2, <1>7, <1>8, <1>9, <3>1
        <4> QED
          BY <1>1, <1>3, <1>5, <3>1, <4>1 DEF Started
      <3>2. CASE u # t
        <4>1. active[u] /\ owner'[u] = owner[u]
          BY <1>5, <2>1, <3>2
        <4>2. PICK q \in Run : owner[u] = q /\ Started(q) /\ \E i \in Own(q) : Here(q)[i] = u
          BY <4>1 DEF ExtentInv, Owned
        <4>3. Started(q)'
          BY <1>1, <4>2 DEF Started
        <4>4. \E i \in Own(q)' : Here(q)'[i] = u
          <5>1. CASE q # r
            BY <1>1, <4>2, <5>1, Others DEF Own
          <5>2. CASE q = r
            <6>1. PICK i \in Own(r) : ctx[i] = u
              BY <1>2, <4>2, <5>2
            <6>2. i \in Own(r)' /\ i \in 1 .. Len(ctx)
              BY <1>2, <1>9, <6>1
            <6>3. i \in Own(r)' /\ Here(r)'[i] = u
              BY <1>7, <1>8, <6>1, <6>2
            <6> QED
              BY <5>2, <6>3 DEF Own, Here
          <5> QED
            BY <5>1, <5>2
        <4> QED
          BY <1>1, <4>1, <4>2, <4>3, <4>4 DEF ExtentInv, Owned
      <3> QED
        BY <3>1, <3>2
    <2> QED
      BY <2>1 DEF Owned
  <1>14. EntersOnce'
    <2>1. \A q \in Run : Started(q)' /\ next'[q].kind = "enter" =>
            q # r /\ Started(q) /\ next'[q] = next[q] /\ next[q].tag # t /\ next[q].tag \in Tag
      <3>1. ASSUME NEW q \in Run, Started(q)', next'[q].kind = "enter"
            PROVE  q # r /\ Started(q) /\ next'[q] = next[q]
        BY <1>1, <1>8, <3>1, Others
      <3>2. ASSUME NEW q \in Run, Started(q), next[q].kind = "enter", q # r
            PROVE  next[q].tag # t /\ next[q].tag \in Tag
        BY <1>3, <3>2, NextTyped
      <3> QED
        BY <3>1, <3>2
    <2> QED
      BY <1>1, <1>5, <2>1 DEF ExtentInv, EntersOnce
  <1>15. Borrowed'
    BY <1>1, <1>5, BorrowedStep DEF ExtentInv
  <1>16. Undecided'
    BY <1>1 DEF ExtentInv, Undecided
  <1> QED
    BY <1>10, <1>11, <1>12, <1>13, <1>14, <1>15, <1>16 DEF ExtentInv, Nested, Fitting

LEMMA BeginsExtent ==
  ASSUME TypeInv, TypeInv', ExtentInv, NEW r \in Run, NEW ctx, Begins(r, ctx)
  PROVE  ExtentInv'
  <1>1. /\ OnlyRun(r) /\ UNCHANGED <<outcome, allocated, active, owner, parent, resumption>>
        /\ status[r] = "free" /\ ~Started(r) /\ status'[r] = "live" /\ HostRuns
        /\ \A q \in Run \ {r} : base'[q] = base[q]
        /\ base'[r] = ctx /\ h'[r] = ctx /\ next'[r] = call(<<>>, ctx)
        /\ stack' = Append(stack, Driver(r, current))
    BY DEF Begins, tagVars, Started
  <1>2. /\ next'[r].kind = "call" /\ next'[r].k = <<>> /\ next'[r].h = ctx /\ Here(r)' = ctx
        /\ ctx \in Seq(Tag) /\ Len(ctx) \in Nat
    <2>1. base'[r] \in Seq(Tag)
      BY DEF TypeInv, TypeOK, Context
    <2> QED
      BY <1>1, <2>1 DEF call, Here
  <1>3. FitsNext(r)'
    BY <1>1, <1>2 DEF FitsNext, Fits
  <1>4. Stacked(r)'
    BY <1>1, <1>2 DEF Stacked, Own
  <1>5. ASSUME NEW q \in Run, q # r, Started(q)' PROVE FitsNext(q)' /\ Stacked(q)'
    <2>1. Started(q) /\ base'[q] = base[q] /\ Here(q)' = Here(q) /\ FitsNext(q)' /\ Stacked(q)
      BY <1>1, <1>5, Others DEF ExtentInv, Nested, Fitting
    <2>2. \A i \in Own(q) : active[Here(q)[i]]
      BY <2>1 DEF Stacked
    <2> QED
      BY <1>1, <2>1, <2>2, StackedKept
  <1>6. Owned'
    <2>1. ASSUME NEW u \in Tag, active'[u]
          PROVE  u \in allocated' /\ \E q \in Run : owner'[u] = q /\ Started(q)' /\ \E i \in Own(q)' : Here(q)'[i] = u
      <3>1. PICK q \in Run : owner[u] = q /\ Started(q) /\ \E i \in Own(q) : Here(q)[i] = u
        BY <1>1, <2>1 DEF ExtentInv, Owned
      <3>2. q # r
        BY <1>1, <3>1
      <3>3. Started(q)' /\ Here(q)' = Here(q) /\ Own(q)' = Own(q)
        BY <1>1, <3>1, <3>2, Others DEF Own
      <3> QED
        BY <1>1, <2>1, <3>1, <3>3 DEF ExtentInv, Owned
    <2> QED
      BY <2>1 DEF Owned
  <1>7. EntersOnce'
    <2>1. \A q \in Run : Started(q)' /\ next'[q].kind = "enter" => Started(q) /\ next'[q] = next[q]
      BY <1>1, <1>2, Others
    <2> QED
      BY <1>1, <2>1 DEF ExtentInv, EntersOnce
  <1>8. Borrowed'
    <2>1. /\ DOMAIN stack = 1 .. Len(stack) /\ Len(stack) \in Nat
          /\ DOMAIN stack' = 1 .. Len(stack) + 1 /\ stack'[Len(stack) + 1] = Driver(r, current)
          /\ \A i \in DOMAIN stack : stack'[i] = stack[i]
      BY <1>1 DEF TypeInv, TypeOK
    <2>2. ASSUME NEW i \in DOMAIN stack', stack'[i].kind = "drive", status'[stack'[i].run] = "live",
                 NEW j \in DOMAIN base'[stack'[i].run]
          PROVE  LET t == base'[stack'[i].run][j] IN
                 /\ active'[t]
                 /\ \E m \in 1 .. i - 1 : stack'[m].kind = "host" /\ stack'[m].run = owner'[t]
      <3>1. CASE i \in DOMAIN stack
        <4>1. PICK q \in Run : q = stack[i].run
          <5>1. stack[i].run \in Run
            BY <3>1 DEF TypeInv, TypeOK, JsFrame
          <5> QED
            BY <5>1
        <4>2. stack'[i] = stack[i] /\ q # r
          BY <1>1, <2>1, <3>1, <4>1 DEF TypeInv, StackInv, DriversAreOfRuns
        <4>3. status[q] = "live" /\ base'[q] = base[q] /\ stack[i].kind = "drive" /\ j \in DOMAIN base[q]
          BY <1>1, <2>2, <4>1, <4>2 DEF OnlyRun
        <4>4. PICK t : t = base[q][j]
          OBVIOUS
        <4>5. /\ active[t]
              /\ \E m \in 1 .. i - 1 : stack[m].kind = "host" /\ stack[m].run = owner[t]
          BY <3>1, <4>1, <4>3, <4>4 DEF ExtentInv, Borrowed
        <4>6. \A m \in 1 .. i - 1 : stack'[m] = stack[m]
          BY <2>1, <3>1
        <4> QED
          BY <1>1, <4>1, <4>2, <4>3, <4>4, <4>5, <4>6
      <3>2. CASE i = Len(stack) + 1
        <4>1. stack'[i].run = r /\ j \in DOMAIN ctx /\ ctx # <<>>
          BY <1>1, <2>1, <2>2, <3>2 DEF Driver
        <4>2. current # Null /\ ctx = h[current]
          BY <4>1 DEF Begins
        <4>3. stack # <<>> /\ Top.kind = "host" /\ Top.run = current
          BY <1>1, <4>2 DEF TypeInv, StackInv, CurrentIsTop, HostRuns
        <4>4. PICK p \in Run : p = current /\ Started(p) /\ AtRaw(p)
          BY <4>3, HostFrame
        <4>5. Here(p) = ctx
          BY <4>2, <4>4, CallFits
        <4>6. PICK t : t = ctx[j]
          OBVIOUS
        <4>7. active[t]
          BY <4>1, <4>4, <4>5, <4>6, AllOpen
        <4>8. \E m \in DOMAIN stack : stack[m].kind = "host" /\ stack[m].run = owner[t]
          <5>1. CASE j \in Own(p)
            <6>1. owner[t] = p
              BY <4>4, <4>5, <4>6, <5>1, OwnTag
            <6>2. Len(stack) \in DOMAIN stack /\ Top = stack[Len(stack)]
              BY <4>3, StackTypes DEF TypeInv, Top
            <6> QED
              BY <4>3, <4>4, <6>1, <6>2
          <5>2. CASE j \in DOMAIN base[p]
            <6>1. t = base[p][j]
              BY <4>4, <4>5, <4>6, <5>2 DEF ExtentInv, Nested, Stacked
            <6> QED
              BY <4>4, <5>2, <6>1, BaseBorrowed DEF ExtentInv
          <5> QED
            BY <4>1, <4>4, <4>5, <5>1, <5>2, Positions DEF ExtentInv
        <4>9. \A m \in DOMAIN stack : m \in 1 .. i - 1 /\ stack'[m] = stack[m]
          BY <2>1, <3>2
        <4> QED
          BY <1>1, <4>1, <4>6, <4>7, <4>8, <4>9
      <3> QED
        BY <2>1, <3>1, <3>2
    <2>3. ASSUME NEW q \in Run, allowSuspend'[q] PROVE base'[q] = <<>>
      <3>1. CASE q = r
        BY <1>1, <2>3, <3>1 DEF Begins
      <3>2. CASE q # r
        BY <1>1, <2>3, <3>2 DEF OnlyRun, ExtentInv, Borrowed
      <3> QED
        BY <3>1, <3>2
    <2> QED
      BY <2>2, <2>3 DEF Borrowed
  <1>9. Undecided'
    BY <1>1 DEF ExtentInv, Undecided, OnlyRun
  <1> QED
    BY <1>3, <1>4, <1>5, <1>6, <1>7, <1>8, <1>9 DEF ExtentInv, Nested, Fitting

LEMMA ExtentStep == TypeInv /\ TokenInv /\ ExtentInv /\ [Next]_vars => ExtentInv'
  <1> SUFFICES ASSUME TypeInv, TokenInv, ExtentInv, [Next]_vars PROVE ExtentInv'
    OBVIOUS
  <1>1. TypeInv'
    BY NextTypeInv
  <1> QED
    BY <1>1, Kinds, RestsExtent, GoesExtent, EndsExtent, OpensExtent, ReadiesExtent, ClosesExtent,
       BeginsExtent

LEMMA InitExtent == Init => ExtentInv
  BY DEF Init, ExtentInv, Fitting, Nested, Owned, EntersOnce, Borrowed, Undecided, Started

LEMMA Invariance == Spec => []CpsInv
  <1>1. Init => CpsInv
    BY InitTypeInv, InitTokens, InitExtent DEF CpsInv
  <1>2. CpsInv /\ [Next]_vars => CpsInv'
    BY NextTypeInv, TokensStep, ExtentStep DEF CpsInv
  <1> QED
    BY <1>1, <1>2, PTL DEF Spec

-----------------------------------------------------------------------------
(* Theorems *)

\* Returning from a call, a foreign call or a handler goes on in the context the
\* code that returns was in when it made the continuation.
THEOREM ResumesContexts == Spec => []ResumesItsContext
  <1>1. CpsInv => ResumesItsContext
    <2> SUFFICES ASSUME CpsInv, NEW r \in Run, Driving(r), next[r].kind = "resume"
                 PROVE  h[r] = IF next[r].k = <<>> THEN base[r] ELSE next[r].k[Len(next[r].k)].h
      BY DEF ResumesItsContext
    <2>1. Started(r) /\ TypeInv
      BY DEF Driving, Started, CpsInv
    <2>2. PICK k \in Seq(Frame) : k = next[r].k
      BY <2>1, NextTyped DEF Continuation
    <2>3. Fits(k, h[r], r)
      BY <2>1, <2>2 DEF CpsInv, ExtentInv, Fitting, FitsNext
    <2>4. k # <<>> => Len(k) \in DOMAIN k
      BY <2>2
    <2> QED
      BY <2>2, <2>3, <2>4 DEF Fits
  <1> QED
    BY <1>1, Invariance, PTL

\* When no JavaScript is on the stack, every run that is not over is suspended
\* and every open handler belongs to one of those.
THEOREM Quiet == Spec => []QuietBetweenTurns
  <1>1. CpsInv => QuietBetweenTurns
    <2> SUFFICES ASSUME CpsInv, stack = <<>>
                 PROVE  /\ \A r \in Run : Started(r) => status[r] = "pending" /\ allowSuspend[r]
                        /\ \A t \in Tag : active[t] => status[owner[t]] = "pending"
      BY DEF QuietBetweenTurns
    <2>1. \A r \in Run : Started(r) => status[r] = "pending" /\ allowSuspend[r]
      BY DEF CpsInv, TypeInv, StackInv, DriversAreOfRuns, RunsAtCalls, Started
    <2> QED
      BY <2>1 DEF CpsInv, ExtentInv, Owned
  <1> QED
    BY <1>1, Invariance, PTL

\* A run that throws an abort object does so to a run whose foreign call is below
\* it on the stack, and leaves the handler open for that run.
THEOREM TowardsCaller == Spec => AbortsTowardsCaller
  <1>1. CpsInv /\ [Next]_vars =>
          [ \A r \in Run : Driving(r) /\ next[r].kind = "leave" /\ outcome'[r] \in Tag =>
              /\ owner[outcome'[r]] \in Below(r) \ {r}
              /\ active'[outcome'[r]] ]_vars
    <2> SUFFICES ASSUME CpsInv, [Next]_vars, NEW r \in Run, Driving(r), next[r].kind = "leave",
                        outcome'[r] \in Tag
                 PROVE  owner[outcome'[r]] \in Below(r) \ {r} /\ active'[outcome'[r]]
      OBVIOUS
    <2>1. /\ TypeInv /\ TypeOK /\ ExtentInv /\ Started(r)
          /\ stack # <<>> /\ Top.kind = "drive" /\ Top.run = r /\ status[r] = "live"
      BY DEF CpsInv, TypeInv, Driving, Started
    <2>2. outcome'[r] # outcome[r]
      BY <2>1, OutcomeAssumption DEF ExtentInv, Undecided
    <2>3. Leave(r)
      <3>1. Next
        BY <2>2 DEF vars, runVars
      <3>2. \A q \in Run : ~DriveReturns(q) /\ ~InvokeSync(q) /\ ~InvokePromise(q)
        BY <2>1 DEF DriveReturns, InvokeSync, InvokePromise, Start, HostRuns
      <3>3. ~HostReturns /\ ~HostThrows /\ ~Settle /\ \A t : ~HostThrowsAbort(t)
        BY <2>1 DEF HostReturns, HostThrows, HostThrowsAbort, Settle
      <3>4. \A n, answer : ~Deliver(n, answer)
        BY <2>1 DEF Deliver, HostRuns
      <3>5. PICK q \in Run : DriverLoop(q)
        BY <3>1, <3>2, <3>3, <3>4 DEF Next, Foreign
      <3>6. Driving(q)
        BY <3>5 DEF DriverLoop, Step, Call, Raw, Resume, Enter, Leave
      <3>7. q = r
        BY <2>1, <3>6 DEF Driving
      <3> QED
        BY <3>5, <3>7 DEF DriverLoop, Step, Call, Raw, Resume, Enter
    <2>4. PICK t, ctx : t = next[r].tag /\ ctx = next[r].h
      OBVIOUS
    <2>5. ctx \in Seq(Tag) /\ t \in Tag /\ Here(r) = ctx
      BY <2>1, <2>4, NextTyped DEF Here, Context
    <2>6. active[t] /\ Inside(ctx, t) /\ owner[t] # r /\ Finish(r, t, ctx)
      <3>1. ~Finish(r, "error", ctx)
        BY <2>1, OutcomeAssumption DEF Finish, TypeOK
      <3>2. ASSUME NEW s, Continue(r, s) PROVE FALSE
        BY <2>2, <3>2 DEF Continue
      <3> QED
        BY <2>3, <2>4, <3>1, <3>2 DEF Leave
    <2>7. outcome'[r] = t /\ Expire(ctx, base[r])
      BY <2>1, <2>6 DEF Finish, TypeOK
    <2>8. PICK j \in DOMAIN ctx : ctx[j] = t
      BY <2>6 DEF Inside
    <2>9. j \in DOMAIN base[r] /\ base[r][j] = t
      <3>1. j \notin Own(r)
        BY <2>1, <2>5, <2>6, <2>8, OwnTag
      <3>2. j \in DOMAIN base[r]
        BY <2>1, <2>5, <2>8, <3>1, Positions DEF ExtentInv
      <3> QED
        BY <2>1, <2>5, <2>8, <3>2 DEF ExtentInv, Nested, Stacked
    <2>10. owner[t] \in Below(r) \ {r}
      BY <2>1, <2>6, <2>9, BaseBorrowed DEF Below, ExtentInv
    <2>11. active'[t]
      <3>1. base[r] = SubSeq(Here(r), 1, Len(base[r])) /\ Len(base[r]) \in Len(base[r]) .. Len(Here(r))
        <4>1. base[r] = SubSeq(Here(r), 1, Len(base[r]))
          BY <2>1, Positions DEF ExtentInv
        <4>2. Len(base[r]) \in Nat /\ Len(Here(r)) \in Nat /\ Len(base[r]) \in 0 .. Len(Here(r))
          BY <2>1, Positions DEF ExtentInv
        <4> QED
          BY <4>1, <4>2
      <3>2. Expire(Here(r), SubSeq(Here(r), 1, Len(base[r])))
        BY <2>5, <2>7, <3>1 DEF Expire
      <3> QED
        BY <2>1, <2>5, <2>6, <3>1, <3>2, Closing
    <2> QED
      BY <2>7, <2>10, <2>11
  <1> QED
    BY <1>1, Invariance, PTL DEF Spec, AbortsTowardsCaller

-----------------------------------------------------------------------------
(* The driver implements HandlerExtent *)

\* The handlers about to be entered, but for that of one run.
EnteringBut(r) ==
  { next[q].tag : q \in { p \in Run \ {r} : Started(p) /\ next[p].kind = "enter" } }

LEMMA EnteringStep ==
  ASSUME NEW r \in Run, OnlyRun(r), \A q \in Run \ {r} : base'[q] = base[q]
  PROVE  /\ \A t : t \in Entering <=>
              t \in EnteringBut(r) \/ (Started(r) /\ next[r].kind = "enter" /\ next[r].tag = t)
         /\ \A t : t \in Entering' <=>
              t \in EnteringBut(r) \/ (Started(r)' /\ next'[r].kind = "enter" /\ next'[r].tag = t)
  <1>1. \A q \in Run \ {r} : (Started(q)' <=> Started(q)) /\ next'[q] = next[q]
    BY Others
  <1>2. \A t : t \in EnteringBut(r) <=>
          \E q \in Run \ {r} : Started(q) /\ next[q].kind = "enter" /\ next[q].tag = t
    BY DEF EnteringBut
  <1>3. \A t : t \in Entering <=>
          \E q \in Run : Started(q) /\ next[q].kind = "enter" /\ next[q].tag = t
    BY DEF Entering
  <1>4. \A t : t \in Entering' <=>
          \E q \in Run : Started(q)' /\ next'[q].kind = "enter" /\ next'[q].tag = t
    BY DEF Entering
  <1> QED
    BY <1>1, <1>2, <1>3, <1>4

LEMMA OthersMapped ==
  ASSUME NEW r \in Run, OnlyRun(r), NEW q \in Run \ {r}, base'[q] = base[q]
  PROVE  PhaseOf(q)' = PhaseOf(q) /\ ExtentOf(q)' = ExtentOf(q)
  <1>1. status'[q] = status[q] /\ (Started(q)' <=> Started(q)) /\ Here(q)' = Here(q)
    BY Others
  <1> QED
    BY <1>1 DEF PhaseOf, ExtentOf

LEMMA PhaseRunning ==
  ASSUME TypeOK, NEW r \in Run
  PROVE  PhaseOf(r) = "running" <=> Started(r)
  BY DEF TypeOK, PhaseOf, Started

\* The handlers a run has entered and not left, in order.
LEMMA ExtentOwn ==
  ASSUME TypeInv, ExtentInv, NEW r \in Run, Started(r)
  PROVE  /\ ExtentOf(r) \in Seq(Tag) /\ Len(ExtentOf(r)) = Len(Here(r)) - Len(base[r])
         /\ DOMAIN ExtentOf(r) = 1 .. Len(Here(r)) - Len(base[r])
         /\ \A m \in 1 .. Len(Here(r)) - Len(base[r]) : ExtentOf(r)[m] = Here(r)[Len(base[r]) + m]
  <1>1. PICK ctx, b, l : ctx = Here(r) /\ b = Len(base[r]) /\ l = Len(ctx)
    OBVIOUS
  <1>2. ctx \in Seq(Tag) /\ b \in Nat /\ l \in Nat /\ b <= l /\ DOMAIN ctx = 1 .. l
    BY <1>1, HereTyped, Positions DEF Context, ExtentInv
  <1>3. b + 1 \in Int /\ l \in Int /\ \A i \in b + 1 .. l : ctx[i] \in Tag
    BY <1>2
  <1>4. PICK e : e = SubSeq(ctx, b + 1, l)
    OBVIOUS
  <1>5. /\ e \in Seq(Tag) /\ Len(e) = IF b + 1 <= l THEN l - (b + 1) + 1 ELSE 0
        /\ \A i \in 1 .. l - (b + 1) + 1 : e[i] = ctx[b + 1 + i - 1]
    BY <1>3, <1>4, SubSeqProperties
  <1>6. Len(e) = l - b /\ \A i \in 1 .. l - b : e[i] = ctx[b + i]
    BY <1>2, <1>5
  <1>7. ExtentOf(r) = e
    BY <1>1, <1>4 DEF ExtentOf
  <1> QED
    BY <1>1, <1>2, <1>5, <1>6, <1>7

\* Nothing happens to a handler that is neither opened, closed nor made.
LEMMA LifeKept ==
  ASSUME NEW u, active'[u] <=> active[u],
         u \in allocated' /\ u \notin Entering' <=> u \in allocated /\ u \notin Entering
  PROVE  LifeOf(u)' = LifeOf(u)
  BY DEF LifeOf

LEMMA StepStutters ==
  ASSUME \A q \in Run : PhaseOf(q)' = PhaseOf(q) /\ ExtentOf(q)' = ExtentOf(q),
         \A t \in Tag : LifeOf(t)' = LifeOf(t)
  PROVE  [Extent!Next]_Extent!extentVars
  <1>1. /\ [q \in Run |-> PhaseOf(q)]' = [q \in Run |-> PhaseOf(q)]
        /\ [q \in Run |-> ExtentOf(q)]' = [q \in Run |-> ExtentOf(q)]
        /\ [t \in Tag |-> LifeOf(t)]' = [t \in Tag |-> LifeOf(t)]
    OBVIOUS
  <1> QED
    BY <1>1 DEF Extent!extentVars

LEMMA RestsRefines ==
  ASSUME TypeInv, ExtentInv, Rests
  PROVE  [Extent!Next]_Extent!extentVars
  <1>1. /\ UNCHANGED <<status, outcome, base, h, allowSuspend, next>>
        /\ UNCHANGED <<allocated, active, owner, parent, resumption>>
    BY DEF Rests, runVars, tagVars
  <1>2. \A q \in Run : PhaseOf(q)' = PhaseOf(q) /\ ExtentOf(q)' = ExtentOf(q)
    BY <1>1 DEF PhaseOf, ExtentOf, Started, Here
  <1>3. \A t \in Tag : LifeOf(t)' = LifeOf(t)
    BY <1>1 DEF LifeOf, Entering, Started
  <1> QED
    BY <1>2, <1>3, StepStutters

LEMMA GoesRefines ==
  ASSUME TypeInv, TypeInv', ExtentInv, NEW r \in Run, Goes(r)
  PROVE  [Extent!Next]_Extent!extentVars
  <1>1. /\ OnlyRun(r) /\ base' = base /\ UNCHANGED <<allocated, active>>
        /\ Started(r) /\ Started(r)' /\ Here(r)' = Here(r)
        /\ next[r].kind # "enter" /\ next'[r].kind # "enter"
    BY DEF Goes, Alone, tagVars
  <1>2. PhaseOf(r)' = PhaseOf(r) /\ ExtentOf(r)' = ExtentOf(r)
    BY <1>1 DEF PhaseOf, ExtentOf, Started
  <1>3. \A q \in Run : PhaseOf(q)' = PhaseOf(q) /\ ExtentOf(q)' = ExtentOf(q)
    BY <1>1, <1>2, OthersMapped
  <1>4. \A t : t \in Entering' <=> t \in Entering
    BY <1>1, EnteringStep
  <1>5. \A t \in Tag : LifeOf(t)' = LifeOf(t)
    BY <1>1, <1>4, LifeKept
  <1> QED
    BY <1>3, <1>5, StepStutters

LEMMA ReadiesRefines ==
  ASSUME TypeInv, TypeInv', ExtentInv, NEW r \in Run, NEW t, Readies(r, t)
  PROVE  [Extent!Next]_Extent!extentVars
  <1>1. /\ OnlyRun(r) /\ base' = base /\ active' = active /\ status' = status
        /\ Started(r) /\ Started(r)' /\ Here(r)' = Here(r)
        /\ t \notin allocated /\ allocated' = allocated \cup {t}
        /\ next[r].kind # "enter" /\ next'[r].kind = "enter" /\ next'[r].tag = t
    BY DEF Readies, Alone, Started, Here
  <1>2. PhaseOf(r)' = PhaseOf(r) /\ ExtentOf(r)' = ExtentOf(r)
    BY <1>1 DEF PhaseOf, ExtentOf
  <1>3. \A q \in Run : PhaseOf(q)' = PhaseOf(q) /\ ExtentOf(q)' = ExtentOf(q)
    BY <1>1, <1>2, OthersMapped
  <1>4. \A u : u \in Entering' <=> u \in Entering \/ u = t
    BY <1>1, EnteringStep
  <1>5. \A u \in Tag : LifeOf(u)' = LifeOf(u)
    BY <1>1, <1>4, LifeKept
  <1> QED
    BY <1>3, <1>5, StepStutters

LEMMA BeginsRefines ==
  ASSUME TypeInv, TypeInv', ExtentInv, NEW r \in Run, NEW ctx, Begins(r, ctx)
  PROVE  Extent!Begin(r)
  <1>1. /\ OnlyRun(r) /\ UNCHANGED <<allocated, active>>
        /\ status[r] = "free" /\ ~Started(r) /\ status'[r] = "live" /\ Started(r)'
        /\ \A q \in Run \ {r} : base'[q] = base[q]
        /\ base'[r] = ctx /\ next'[r] = call(<<>>, ctx)
    BY DEF Begins, tagVars, Started
  <1>2. next'[r].kind = "call" /\ Here(r)' = ctx /\ Len(ctx) \in Nat
    <2>1. base'[r] \in Seq(Tag)
      BY DEF TypeInv, TypeOK, Context
    <2> QED
      BY <1>1, <2>1 DEF call, Here
  <1>3. PhaseOf(r) = "free" /\ PhaseOf(r)' = "running"
    BY <1>1 DEF PhaseOf
  <1>4. ExtentOf(r) = <<>> /\ ExtentOf(r)' = <<>>
    <2>1. SubSeq(ctx, Len(ctx) + 1, Len(ctx)) = <<>>
      BY <1>2, SubSeqEmpty
    <2> QED
      BY <1>1, <1>2, <2>1 DEF ExtentOf
  <1>5. \A t : t \in Entering' <=> t \in Entering
    BY <1>1, <1>2, EnteringStep
  <1>6. \A t \in Tag : LifeOf(t)' = LifeOf(t)
    BY <1>1, <1>5, LifeKept
  <1>7. \A q \in Run : q # r => PhaseOf(q)' = PhaseOf(q) /\ ExtentOf(q)' = ExtentOf(q)
    BY <1>1, OthersMapped
  <1>8. /\ [q \in Run |-> PhaseOf(q)]' = [[q \in Run |-> PhaseOf(q)] EXCEPT ![r] = "running"]
        /\ [q \in Run |-> ExtentOf(q)]' = [q \in Run |-> ExtentOf(q)]
        /\ [t \in Tag |-> LifeOf(t)]' = [t \in Tag |-> LifeOf(t)]
    BY <1>3, <1>4, <1>6, <1>7
  <1> QED
    BY <1>3, <1>8 DEF Extent!Begin

LEMMA OpensRefines ==
  ASSUME TypeInv, TypeInv', ExtentInv, ExtentInv', NEW r \in Run, Opens(r)
  PROVE  \E t \in Tag : Extent!Open(r, t)
  <1>0. PICK t, ctx : t = next[r].tag /\ ctx = next[r].h
    OBVIOUS
  <1>1. /\ OnlyRun(r) /\ base' = base /\ status' = status /\ allocated' = allocated
        /\ Started(r) /\ Started(r)' /\ next[r].kind = "enter"
    BY TurnKeeps DEF Opens, Alone, Enter, Started, Driving
  <1>2. /\ ctx \in Seq(Tag) /\ Len(ctx) \in Nat /\ t \in Tag /\ Here(r) = ctx
    BY <1>0, <1>1, NextTyped DEF ExtentInv, Fitting, FitsNext, Here, Context
  <1>3. /\ t \in allocated /\ ~active[t]
        /\ \A q \in Run : Started(q) /\ next[q].kind = "enter" /\ next[q].tag = t => q = r
    BY <1>0, <1>1 DEF ExtentInv, EntersOnce
  <1>4. /\ active' = [active EXCEPT ![t] = TRUE]
        /\ next' = [next EXCEPT ![r] = step(Append(ctx, t), <<>>, t)]
    BY <1>0 DEF Opens, Enter, Continue
  <1>5. active'[t] /\ \A u \in Tag : u # t => (active'[u] <=> active[u])
    BY <1>2, <1>4 DEF TypeInv, TypeOK
  <1>6. next'[r].kind = "step" /\ Here(r)' = Append(ctx, t)
    BY <1>4 DEF step, Here, TypeInv, TypeOK
  <1>7. \A u : u \in Entering' <=> u \in Entering /\ u # t
    <2>1. t \notin EnteringBut(r)
      BY <1>3 DEF EnteringBut
    <2> QED
      BY <1>0, <1>1, <1>6, <2>1, EnteringStep
  <1>8. LifeOf(t) = "unborn" /\ LifeOf(t)' = "live" /\ \A u \in Tag : u # t => LifeOf(u)' = LifeOf(u)
    <2>1. t \in Entering
      BY <1>0, <1>1 DEF Entering
    <2>2. LifeOf(t) = "unborn" /\ LifeOf(t)' = "live"
      BY <1>3, <1>5, <2>1 DEF LifeOf
    <2> QED
      BY <1>1, <1>5, <1>7, <2>2, LifeKept
  <1>9. ExtentOf(r)' = Append(ExtentOf(r), t)
    <2>1. PICK e, f : e = ExtentOf(r) /\ f = ExtentOf(r)'
      OBVIOUS
    <2>2. PICK b, l : b = Len(base[r]) /\ l = Len(ctx)
      OBVIOUS
    <2>3. b \in Nat /\ l \in Nat /\ b <= l
      BY <1>1, <1>2, <2>2, Positions DEF ExtentInv
    <2>4. e \in Seq(Tag) /\ Len(e) = l - b /\ \A m \in 1 .. l - b : e[m] = ctx[b + m]
      BY <1>1, <1>2, <2>1, <2>2, ExtentOwn
    <2>5. PICK inner : inner = Append(ctx, t)
      OBVIOUS
    <2>6. /\ inner \in Seq(Tag) /\ Len(inner) = l + 1 /\ inner[l + 1] = t
          /\ \A i \in 1 .. l : inner[i] = ctx[i]
      BY <1>2, <2>2, <2>5
    <2>7. PICK first, last : first = b + 1 /\ last = l + 1 /\ f = SubSeq(inner, first, last)
      BY <1>1, <1>6, <2>1, <2>2, <2>5, <2>6 DEF ExtentOf
    <2>8. first \in Int /\ last \in Int /\ \A i \in first .. last : inner[i] \in Tag
      BY <2>3, <2>6, <2>7
    <2>9. /\ f \in Seq(Tag) /\ Len(f) = IF first <= last THEN last - first + 1 ELSE 0
          /\ \A i \in 1 .. last - first + 1 : f[i] = inner[first + i - 1]
      BY <2>7, <2>8, SubSeqProperties
    <2>10. Len(f) = l - b + 1 /\ \A i \in 1 .. l - b + 1 : f[i] = inner[b + i]
      <3>1. first <= last /\ last - first + 1 = l - b + 1
        BY <2>3, <2>7
      <3>2. ASSUME NEW i \in 1 .. l - b + 1 PROVE first + i - 1 = b + i
        BY <2>3, <2>7, <3>2
      <3> QED
        BY <2>9, <3>1, <3>2
    <2>11. f = Append(e, t)
      <3>1. ASSUME NEW i \in 1 .. l - b PROVE f[i] = e[i]
        <4>1. b + i \in 1 .. l /\ i \in 1 .. l - b + 1
          BY <2>3
        <4>2. f[i] = inner[b + i] /\ inner[b + i] = ctx[b + i]
          BY <2>6, <2>10, <4>1
        <4> QED
          BY <2>4, <4>2
      <3>2. f[l - b + 1] = t
        <4>1. b + (l - b + 1) = l + 1 /\ l - b + 1 \in 1 .. l - b + 1
          BY <2>3
        <4> QED
          BY <2>6, <2>10, <4>1
      <3> QED
        BY <1>2, <2>3, <2>4, <2>9, <2>10, <3>1, <3>2
    <2> QED
      BY <2>1, <2>11
  <1>10. \A q \in Run : q # r => PhaseOf(q)' = PhaseOf(q) /\ ExtentOf(q)' = ExtentOf(q)
    BY <1>1, OthersMapped
  <1>11. PhaseOf(r) = "running" /\ PhaseOf(r)' = PhaseOf(r)
    BY <1>1, PhaseRunning DEF PhaseOf, TypeInv
  <1>12. /\ [q \in Run |-> PhaseOf(q)]' = [q \in Run |-> PhaseOf(q)]
         /\ [q \in Run |-> ExtentOf(q)]' = [[q \in Run |-> ExtentOf(q)] EXCEPT ![r] = Append(@, t)]
         /\ [u \in Tag |-> LifeOf(u)]' = [[u \in Tag |-> LifeOf(u)] EXCEPT ![t] = "live"]
    BY <1>2, <1>8, <1>9, <1>10, <1>11
  <1>13. Extent!Open(r, t)
    BY <1>2, <1>8, <1>11, <1>12 DEF Extent!Open
  <1> QED
    BY <1>2, <1>13

\* Closing handlers from a position on, in terms of HandlerExtent.
LEMMA LivesClosed ==
  ASSUME TypeInv, TypeInv', ExtentInv, NEW r \in Run, Started(r), OnlyRun(r), base' = base,
         next[r].kind # "enter", Started(r)' => next'[r].kind # "enter",
         NEW n \in Len(base[r]) .. Len(Here(r)), Expire(Here(r), SubSeq(Here(r), 1, n))
  PROVE  \A u \in Tag :
           LifeOf(u)' = IF u \in Extent!Within(ExtentOf(r), n - Len(base[r]) + 1) THEN "dead" ELSE LifeOf(u)
  <1>1. PICK ctx, b, e, l : ctx = Here(r) /\ b = Len(base[r]) /\ e = ExtentOf(r) /\ l = Len(ctx)
    OBVIOUS
  <1>2. /\ ctx \in Seq(Tag) /\ b \in Nat /\ l \in Nat /\ b <= l /\ n \in Nat /\ b <= n /\ n <= l
        /\ Own(r) = (b + 1) .. l
    BY <1>1, HereTyped, Positions DEF Context, ExtentInv, Own
  <1>3. Len(e) = l - b /\ \A m \in 1 .. l - b : e[m] = ctx[b + m]
    BY <1>1, ExtentOwn
  <1>4. /\ allocated' = allocated
        /\ \A t \in Tag : active'[t] => active[t]
        /\ \A t \in Tag : active[t] /\ owner[t] # r => active'[t]
        /\ \A i \in (n + 1) .. l : ~active'[ctx[i]]
        /\ \A i \in Own(r) : i <= n => active'[ctx[i]]
    BY <1>1, Closing
  <1>5. \A u : u \in Extent!Within(e, n - b + 1) <=> \E i \in (n + 1) .. l : ctx[i] = u
    <2>1. \A u : u \in Extent!Within(e, n - b + 1) <=> \E m \in (n - b + 1) .. l - b : e[m] = u
      BY <1>3 DEF Extent!Within
    <2>2. ASSUME NEW m \in (n - b + 1) .. l - b PROVE b + m \in (n + 1) .. l /\ e[m] = ctx[b + m]
      BY <1>2, <1>3, <2>2
    <2>3. ASSUME NEW i \in (n + 1) .. l PROVE i - b \in (n - b + 1) .. l - b /\ e[i - b] = ctx[i]
      <3>1. i - b \in (n - b + 1) .. l - b /\ i - b \in 1 .. l - b /\ b + (i - b) = i
        BY <1>2, <2>3
      <3> QED
        BY <1>3, <3>1
    <2> QED
      BY <2>1, <2>2, <2>3
  <1>6. \A u : u \in Entering' <=> u \in Entering
    BY EnteringStep
  <1>7. ASSUME NEW u \in Tag PROVE LifeOf(u)' = IF \E i \in (n + 1) .. l : ctx[i] = u THEN "dead" ELSE LifeOf(u)
    <2>1. CASE \E i \in (n + 1) .. l : ctx[i] = u
      <3>1. PICK i \in (n + 1) .. l : ctx[i] = u
        BY <2>1
      <3>2. i \in Own(r) /\ ~active'[u]
        BY <1>2, <1>4, <3>1
      <3>3. active[u]
        BY <1>1, <3>1, <3>2, OwnTag
      <3>4. u \in allocated /\ u \notin Entering
        BY <3>3, <1>7 DEF ExtentInv, Owned, EntersOnce, Entering
      <3> QED
        BY <1>4, <1>6, <2>1, <3>2, <3>4 DEF LifeOf
    <2>2. CASE ~ \E i \in (n + 1) .. l : ctx[i] = u
      <3>1. active[u] => active'[u]
        <4>1. ASSUME active[u], owner[u] = r PROVE active'[u]
          <5>1. PICK i \in Own(r) : ctx[i] = u
            BY <1>1, <4>1, <1>7 DEF ExtentInv, Owned
          <5>2. i <= n
            BY <1>2, <2>2, <5>1
          <5> QED
            BY <1>4, <5>1, <5>2
        <4> QED
          BY <1>4, <4>1
      <3> QED
        BY <1>4, <1>6, <2>2, <3>1, LifeKept
    <2> QED
      BY <2>1, <2>2
  <1> QED
    BY <1>1, <1>5, <1>7

LEMMA EndsRefines ==
  ASSUME TypeInv, TypeInv', ExtentInv, NEW r \in Run, Ends(r)
  PROVE  Extent!End(r)
  <1>1. /\ OnlyRun(r) /\ base' = base /\ Started(r) /\ ~Started(r)' /\ status'[r] = "done"
        /\ next[r].kind # "enter" /\ Expire(Here(r), base[r])
    BY DEF Ends, Alone, Started
  <1>2. PICK b : b = Len(base[r])
    OBVIOUS
  <1>3. b \in Nat /\ b \in b .. Len(Here(r)) /\ b - b + 1 = 1
    <2>1. b \in Nat /\ Len(Here(r)) \in Nat /\ b \in 0 .. Len(Here(r))
      BY <1>1, <1>2, Positions DEF ExtentInv
    <2> QED
      BY <2>1
  <1>4. Expire(Here(r), SubSeq(Here(r), 1, b))
    <2>1. base[r] = SubSeq(Here(r), 1, b)
      BY <1>1, <1>2, Positions DEF ExtentInv
    <2> QED
      BY <1>1, <2>1 DEF Expire
  <1>5. \A u \in Tag : LifeOf(u)' = IF u \in Extent!Within(ExtentOf(r), b - b + 1) THEN "dead" ELSE LifeOf(u)
    BY <1>1, <1>2, <1>3, <1>4, LivesClosed
  <1>6. PhaseOf(r) = "running" /\ PhaseOf(r)' = "over" /\ ExtentOf(r)' = <<>>
    BY <1>1, PhaseRunning DEF PhaseOf, ExtentOf, TypeInv
  <1>7. \A q \in Run : q # r => PhaseOf(q)' = PhaseOf(q) /\ ExtentOf(q)' = ExtentOf(q)
    BY <1>1, OthersMapped
  <1>8. /\ [q \in Run |-> PhaseOf(q)]' = [[q \in Run |-> PhaseOf(q)] EXCEPT ![r] = "over"]
        /\ [q \in Run |-> ExtentOf(q)]' = [[q \in Run |-> ExtentOf(q)] EXCEPT ![r] = <<>>]
        /\ [u \in Tag |-> LifeOf(u)]' =
             [u \in Tag |-> IF u \in Extent!Within([q \in Run |-> ExtentOf(q)][r], 1)
                            THEN "dead" ELSE [v \in Tag |-> LifeOf(v)][u]]
    BY <1>3, <1>5, <1>6, <1>7
  <1> QED
    BY <1>6, <1>8 DEF Extent!End

LEMMA ClosesRefines ==
  ASSUME TypeInv, TypeInv', ExtentInv, NEW r \in Run, NEW t, Closes(r, t)
  PROVE  \E m \in DOMAIN ExtentOf(r) : Extent!Exit(r, m)
  <1>1. /\ OnlyRun(r) /\ base' = base /\ status' = status /\ Started(r) /\ Started(r)'
        /\ t \in Tag /\ active[t] /\ owner[t] = r /\ next[r].kind = "leave"
        /\ h'[r] = parent[t] /\ next'[r] = resume(resumption[t]) /\ Expire(Here(r), parent[t])
    BY DEF Closes, Alone, Started, Driving
  <1>2. PICK ctx, b, l : ctx = Here(r) /\ b = Len(base[r]) /\ l = Len(ctx)
    OBVIOUS
  <1>3. ctx \in Seq(Tag) /\ b \in Nat /\ l \in Nat /\ b <= l /\ Own(r) = (b + 1) .. l
    BY <1>1, <1>2, HereTyped, Positions DEF Context, ExtentInv, Own
  <1>4. PICK i \in Own(r) : ctx[i] = t
    BY <1>1, <1>2 DEF ExtentInv, Owned
  <1>5. PICK n : n = i - 1
    OBVIOUS
  <1>6. n \in Nat /\ n \in b .. l /\ n \in 0 .. l /\ n + 1 <= l
    BY <1>3, <1>4, <1>5
  <1>7. parent[t] = SubSeq(ctx, 1, n)
    BY <1>1, <1>2, <1>4, <1>5, OwnTag
  <1>8. next'[r].kind = "resume" /\ Here(r)' = SubSeq(ctx, 1, n)
    <2>1. next'[r].kind = "resume"
      BY <1>1 DEF resume
    <2> QED
      BY <1>1, <1>7, <2>1 DEF Here
  <1>9. \A u \in Tag : LifeOf(u)' = IF u \in Extent!Within(ExtentOf(r), n - b + 1) THEN "dead" ELSE LifeOf(u)
    <2>1. Expire(Here(r), SubSeq(Here(r), 1, n))
      BY <1>1, <1>2, <1>7
    <2>2. n \in Len(base[r]) .. Len(Here(r))
      BY <1>2, <1>6
    <2> QED
      BY <1>1, <1>2, <1>8, <2>1, <2>2, LivesClosed
  <1>10. PICK m : m = n - b + 1
    OBVIOUS
  <1>11. m \in Nat /\ m \in 1 .. l - b /\ m - 1 = n - b /\ m - 1 \in 0 .. l - b
    BY <1>3, <1>6, <1>10
  <1>12. ExtentOf(r)' = SubSeq(ExtentOf(r), 1, m - 1)
    <2>1. PICK e, f, outer : e = ExtentOf(r) /\ f = ExtentOf(r)' /\ outer = SubSeq(ctx, 1, n)
      OBVIOUS
    <2>2. e \in Seq(Tag) /\ Len(e) = l - b /\ \A j \in 1 .. l - b : e[j] = ctx[b + j]
      BY <1>1, <1>2, <2>1, ExtentOwn
    <2>3. outer \in Seq(Tag) /\ Len(outer) = n /\ \A j \in 1 .. n : outer[j] = ctx[j]
      BY <1>2, <1>3, <1>6, <2>1, PrefixOfSeq
    <2>4. PICK first : first = b + 1 /\ f = SubSeq(outer, first, n)
      BY <1>1, <1>2, <1>8, <2>1, <2>3 DEF ExtentOf
    <2>5. first \in Int /\ n \in Int /\ \A j \in first .. n : outer[j] \in Tag
      BY <1>3, <1>6, <2>3, <2>4
    <2>6. /\ f \in Seq(Tag) /\ Len(f) = IF first <= n THEN n - first + 1 ELSE 0
          /\ \A j \in 1 .. n - first + 1 : f[j] = outer[first + j - 1]
      BY <2>4, <2>5, SubSeqProperties
    <2>7. Len(f) = n - b /\ \A j \in 1 .. n - b : f[j] = outer[b + j]
      BY <1>3, <1>6, <2>4, <2>6
    <2>8. PICK g : g = SubSeq(e, 1, m - 1)
      OBVIOUS
    <2>9. g \in Seq(Tag) /\ Len(g) = n - b /\ \A j \in 1 .. n - b : g[j] = e[j]
      BY <1>11, <2>2, <2>8, PrefixOfSeq
    <2>10. ASSUME NEW j \in 1 .. n - b PROVE f[j] = g[j]
      <3>1. j \in 1 .. l - b /\ b + j \in 1 .. n
        BY <1>3, <1>6, <2>10
      <3> QED
        BY <2>2, <2>3, <2>7, <2>9, <2>10, <3>1
    <2>11. f = g
      BY <2>6, <2>7, <2>9, <2>10
    <2> QED
      BY <2>1, <2>8, <2>11
  <1>13. PhaseOf(r) = "running" /\ PhaseOf(r)' = PhaseOf(r)
    BY <1>1, PhaseRunning DEF PhaseOf, TypeInv
  <1>14. \A q \in Run : q # r => PhaseOf(q)' = PhaseOf(q) /\ ExtentOf(q)' = ExtentOf(q)
    BY <1>1, OthersMapped
  <1>15. /\ [q \in Run |-> PhaseOf(q)]' = [q \in Run |-> PhaseOf(q)]
         /\ [q \in Run |-> ExtentOf(q)]' =
              [[q \in Run |-> ExtentOf(q)] EXCEPT ![r] = SubSeq(@, 1, m - 1)]
         /\ [u \in Tag |-> LifeOf(u)]' =
              [u \in Tag |-> IF u \in Extent!Within([q \in Run |-> ExtentOf(q)][r], m)
                             THEN "dead" ELSE [v \in Tag |-> LifeOf(v)][u]]
    BY <1>9, <1>10, <1>12, <1>13, <1>14
  <1>16. m \in DOMAIN ExtentOf(r)
    BY <1>1, <1>2, <1>11, ExtentOwn
  <1>17. Extent!Exit(r, m)
    BY <1>13, <1>15, <1>16 DEF Extent!Exit
  <1> QED
    BY <1>16, <1>17

\* Whatever is called, thrown or settled, in whatever order: handlers nest, belong
\* to the run that entered them, close with everything inside them, and are never
\* reopened.
THEOREM Implements == Spec => ImplementsExtent
  <1>1. Init => Extent!Init
    <2> SUFFICES ASSUME Init PROVE Extent!Init
      OBVIOUS
    <2>1. \A r \in Run : PhaseOf(r) = "free" /\ ExtentOf(r) = <<>>
      BY DEF Init, PhaseOf, ExtentOf, Started
    <2>2. \A t \in Tag : LifeOf(t) = "unborn"
      BY DEF Init, LifeOf
    <2> QED
      BY <2>1, <2>2 DEF Extent!Init
  <1>2. CpsInv /\ CpsInv' /\ [Next]_vars => [Extent!Next]_Extent!extentVars
    <2> SUFFICES ASSUME CpsInv, CpsInv', [Next]_vars PROVE [Extent!Next]_Extent!extentVars
      OBVIOUS
    <2>1. TypeInv /\ TypeInv' /\ TokenInv /\ ExtentInv /\ ExtentInv'
      BY DEF CpsInv
    <2>2. ASSUME NEW r \in Run, Ends(r) PROVE Extent!Next
      BY <2>1, <2>2, EndsRefines DEF Extent!Next
    <2>3. ASSUME NEW r \in Run, Opens(r) PROVE Extent!Next
      BY <2>1, <2>3, OpensRefines DEF Extent!Next
    <2>4. ASSUME NEW r \in Run, NEW t, Closes(r, t) PROVE Extent!Next
      <3>1. \E m \in DOMAIN [q \in Run |-> ExtentOf(q)][r] : Extent!Exit(r, m)
        BY <2>1, <2>4, ClosesRefines
      <3> QED
        BY <3>1 DEF Extent!Next
    <2>5. ASSUME NEW r \in Run, NEW t, Begins(r, t) PROVE Extent!Next
      BY <2>1, <2>5, BeginsRefines DEF Extent!Next
    <2> QED
      BY <2>1, <2>2, <2>3, <2>4, <2>5, Kinds, RestsRefines, GoesRefines, ReadiesRefines
  <1> QED
    BY <1>1, <1>2, Invariance, PTL DEF Spec, ImplementsExtent, Extent!Spec

-----------------------------------------------------------------------------
(* Module initialization *)

\* A run that is done stays done, with its outcome.
LEMMA DoneStays ==
  ASSUME CpsInv, [Next]_vars, NEW q \in Run, status[q] = "done"
  PROVE  status'[q] = "done" /\ outcome'[q] = outcome[q]
  <1>1. ~Started(q)
    BY DEF Started
  <1>2. CASE Rests
    BY <1>2 DEF Rests, runVars
  <1>3. ASSUME NEW r \in Run, Started(r), Alone(r)
        PROVE  status'[q] = "done" /\ outcome'[q] = outcome[q]
    BY <1>1, <1>3 DEF Alone, OnlyRun
  <1>4. ASSUME NEW r \in Run, NEW t, Begins(r, t)
        PROVE  status'[q] = "done" /\ outcome'[q] = outcome[q]
    BY <1>4 DEF Begins, OnlyRun
  <1> QED
    BY <1>2, <1>3, <1>4, Kinds
       DEF CpsInv, Goes, Readies, Ends, Opens, Closes, Driving, Started

\* What is known of the initializers: those before the last taken have their
\* values, of runs that are done.
InitializeInv ==
  /\ CpsInv
  /\ index \in 0 .. Initializers
  /\ globals \in [1 .. Initializers -> Run \cup {"unset"}]
  /\ initRun # Null => initRun \in Run /\ index > 0
  /\ InitializedInOrder

LEMMA InitializeStep == InitializeInv /\ [InitializeNext]_initializeVars => InitializeInv'
  <1> SUFFICES ASSUME InitializeInv, [InitializeNext]_initializeVars PROVE InitializeInv'
    OBVIOUS
  <1>1. [Next]_vars
    <2>1. ASSUME NEW r \in Run, AdvanceStarts(r) PROVE Next
      BY <2>1 DEF AdvanceStarts, Next, Foreign, InvokePromise
    <2> QED
      BY <2>1 DEF InitializeNext, initializeVars, AdvanceGoesOn, AdvanceResumes, AdvanceEnds
  <1>2. CpsInv /\ CpsInv'
    BY <1>1, NextTypeInv, TokensStep, ExtentStep DEF CpsInv, InitializeInv
  <1>3. \A q \in Run : status[q] = "done" => status'[q] = "done" /\ outcome'[q] = outcome[q]
    BY <1>1, <1>2, DoneStays
  <1>4. Initializers \in Nat /\ index \in Nat /\ index <= Initializers
    BY InitializersAssumption DEF InitializeInv
  <1>5. CASE UNCHANGED bootVars
    BY <1>2, <1>3, <1>5 DEF InitializeInv, InitializedInOrder, bootVars
  <1>6. ASSUME NEW r \in Run, AdvanceStarts(r) PROVE InitializeInv'
    <2>1. /\ index < Initializers /\ index' = index + 1 /\ initRun = Null /\ initRun' = r
          /\ r # Null /\ globals' = globals /\ boot' = boot /\ boot = "running"
      BY <1>6, NullAssumption DEF AdvanceStarts, Advancing
    <2>2. ASSUME NEW i \in 1 .. Initializers, i <= index
          PROVE  globals[i] \in Run /\ status'[globals[i]] = "done" /\ outcome'[globals[i]] = "value"
      BY <1>3, <1>4, <2>1, <2>2 DEF InitializeInv, InitializedInOrder
    <2>3. ASSUME NEW i \in 1 .. Initializers, i > index PROVE globals[i] = "unset"
      BY <1>4, <2>3 DEF InitializeInv, InitializedInOrder
    <2>4. InitializedInOrder'
      BY <1>4, <2>1, <2>2, <2>3 DEF InitializedInOrder
    <2> QED
      BY <1>2, <1>4, <2>1, <2>4 DEF InitializeInv
  <1>7. CASE AdvanceGoesOn
    <2>1. /\ initRun # Null /\ initRun \in Run /\ index > 0 /\ index' = index /\ boot = "running"
          /\ UNCHANGED vars
      BY <1>7 DEF AdvanceGoesOn, Advancing, InitializeInv
    <2>2. CASE UNCHANGED <<globals, initRun>> /\ boot' # "ready"
      BY <1>2, <1>3, <2>1, <2>2 DEF InitializeInv, InitializedInOrder
    <2>3. CASE /\ outcome[initRun] = "value"
               /\ globals' = [globals EXCEPT ![index] = initRun] /\ initRun' = Null /\ boot' = boot
      <3>1. status[initRun] = "done"
        BY <1>2, <2>1, <2>3 DEF CpsInv, ExtentInv, Undecided
      <3>2. status'[initRun] = "done" /\ outcome'[initRun] = "value"
        BY <1>3, <2>1, <2>3, <3>1
      <3>3. /\ globals'[index] = initRun /\ index \in 1 .. Initializers
            /\ \A i \in 1 .. Initializers : i # index => globals'[i] = globals[i]
        BY <1>4, <2>1, <2>3 DEF InitializeInv
      <3>4. InitializedInOrder'
        BY <1>3, <1>4, <2>1, <2>3, <3>2, <3>3 DEF InitializeInv, InitializedInOrder
      <3> QED
        BY <1>2, <2>1, <2>3, <3>4 DEF InitializeInv
    <2> QED
      BY <1>7, <2>1, <2>2, <2>3 DEF AdvanceGoesOn
  <1>8. CASE AdvanceResumes
    BY <1>2, <1>3, <1>8 DEF AdvanceResumes, InitializeInv, InitializedInOrder
  <1>9. CASE AdvanceEnds
    BY <1>2, <1>3, <1>9 DEF AdvanceEnds, InitializeInv, InitializedInOrder
  <1> QED
    BY <1>5, <1>6, <1>7, <1>8, <1>9 DEF InitializeNext, initializeVars

\* Whichever initializers suspend, and whatever runs while they do: each starts
\* after the one before it has its value, and importers see them all.
THEOREM InOrder == InitializeSpec => []InitializedInOrder
  <1>1. InitializeInit => InitializeInv
    <2> SUFFICES ASSUME InitializeInit PROVE InitializeInv
      OBVIOUS
    <2>1. CpsInv
      BY InitTypeInv, InitTokens, InitExtent DEF InitializeInit, CpsInv
    <2> QED
      BY <2>1, InitializersAssumption DEF InitializeInit, InitializeInv, InitializedInOrder
  <1>2. InitializeInv => InitializedInOrder
    BY DEF InitializeInv
  <1> QED
    BY <1>1, <1>2, InitializeStep, PTL DEF InitializeSpec
=============================================================================
