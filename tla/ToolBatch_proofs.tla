--------------------------- MODULE ToolBatch_proofs ---------------------------
(***************************************************************************)
(* Theorems about ToolBatch: its types, the gate, what may overlap, and the *)
(* read cache, for any files, batches, turns and pool size. IInv says, of   *)
(* each call, where it can be (CallInv) and what its gate has let through   *)
(* (Gate). Advance is the shape all steps of one call have; the steps of    *)
(* everything else have a lemma each. CacheInv builds on IInv: what is      *)
(* remembered of files, and what calls have in hand.                        *)
(***************************************************************************)
EXTENDS ToolBatch, FiniteSetTheorems, TLAPS

AtWork == Reading \cup Changing
Started(c) == work[c] # "idle"

\* A call that was started belongs to a turn that was asked for.
Shape(c) == Started(c) => c[1] <= turn /\ c[2] \in DOMAIN batch[c[1]]

\* Reads read and changes change.
Role(c) ==
  /\ work[c] \in Reading => IsRead(c)
  /\ work[c] \in Changing => ~IsRead(c)

Heard(c) ==
  /\ Answered(c) => Started(c)
  /\ c \in aborted => Answered(c)

\* Who is at work and was not cancelled is waited for, by this turn.
Live(c) ==
  work[c] \in AtWork /\ c \notin aborted => answer[c] = "none" /\ c \in Current

\* A change starts when the reads of its turn, and the changes before it,
\* have been answered.
Ordered(c) ==
  Started(c) /\ ~IsRead(c) =>
    \A d \in OfTurn(c[1]) : IsRead(d) \/ d[2] < c[2] => Answered(d)

\* A call stopped at its gate gets no further; a call that wrote is over.
Gate(c) ==
  /\ c \in barred =>
       /\ c \notin wrote
       /\ work[c] \in {"asking", "over"}
       /\ work[c] = "asking" => c \in aborted
  /\ c \in wrote => work[c] = "over"

CallInv(c) == Shape(c) /\ Role(c) /\ Heard(c) /\ Live(c) /\ Ordered(c)

IInv == TypeOK /\ \A c \in Calls : CallInv(c) /\ Gate(c)

-----------------------------------------------------------------------------
(* The calls of a turn are calls, and what each asks for is a request.      *)
LEMMA TurnsHoldCalls ==
  ASSUME TypeOK, NEW t \in 1..MaxTurns
  PROVE  /\ t # 0
         /\ OfTurn(t) = {<<t, i>> : i \in DOMAIN batch[t]}
         /\ OfTurn(t) \subseteq Calls
         /\ \A i \in DOMAIN batch[t] : batch[t][i] \in Request
<1>1. t # 0
  BY BatchAssumption
<1>2. OfTurn(t) = {<<t, i>> : i \in DOMAIN batch[t]}
  BY <1>1 DEF OfTurn
<1>3. batch[t] \in Seq(Request) /\ Len(batch[t]) <= MaxCalls
  <2>1. CASE batch[t] = <<>>
    BY <2>1, BatchAssumption
  <2>2. CASE batch[t] \in Batches
    BY <2>2, BatchAssumption
  <2> QED BY <2>1, <2>2 DEF TypeOK
<1>4. \A i \in DOMAIN batch[t] : batch[t][i] \in Request /\ i \in 1..MaxCalls
  BY <1>3, BatchAssumption
<1> QED BY <1>1, <1>2, <1>4 DEF Calls

LEMMA StartedCalls ==
  ASSUME IInv, NEW c \in Calls, Started(c)
  PROVE  /\ c \in OfTurn(c[1])
         /\ FileOf(c) \in Files
         /\ turn \in 1..MaxTurns
<1>1. c[1] \in 1..MaxTurns /\ c[1] <= turn /\ c[2] \in DOMAIN batch[c[1]] /\ c = <<c[1], c[2]>>
  BY DEF IInv, CallInv, Shape, Calls
<1>2. TypeOK
  BY DEF IInv
<1>3. c \in OfTurn(c[1])
  BY <1>1, <1>2, TurnsHoldCalls
<1>4. FileOf(c) \in Files
  BY <1>1, <1>2, TurnsHoldCalls DEF FileOf, Asked, Request
<1> QED BY <1>1, <1>2, <1>3, <1>4, BatchAssumption DEF TypeOK

(* What is at work is no longer idle and not yet over.                      *)
LEMMA AtWorkIsStarted ==
  ASSUME NEW c \in Calls, work[c] \in AtWork
  PROVE  Started(c) /\ work[c] # "over"
BY DEF AtWork, Reading, Changing, Started

-----------------------------------------------------------------------------
(* A call c starts in this turn, or goes on with its work, and nobody else  *)
(* does anything. Each action of a call but the last two is such a step.    *)
Advance(c, s) ==
  /\ work' = [work EXCEPT ![c] = s]
  /\ s \in AtWork \cup {"over"}
  /\ s \in Reading => IsRead(c)
  /\ s \in Changing => ~IsRead(c)
  /\ \/ work[c] \in AtWork
     \/ /\ work[c] = "idle" /\ c \in Current
        /\ ~IsRead(c) => \A d \in Current : IsRead(d) \/ d[2] < c[2] => Answered(d)
  /\ \/ s # "over" /\ UNCHANGED answer
     \/ s = "over" /\ \E a \in Answers : Answer(c, a)
  /\ UNCHANGED <<loop, aborted>>

(* Such a step keeps what is known of every call.                           *)
LEMMA AdvanceKeepsCalls ==
  ASSUME IInv, NEW c \in Calls, NEW s, Advance(c, s)
  PROVE  \A d \in Calls : CallInv(d)'
<1>1. /\ turn' = turn /\ batch' = batch /\ aborted' = aborted
      /\ work'[c] = s
      /\ \A d \in Calls : d # c => work'[d] = work[d]
  BY DEF Advance, loop, IInv, TypeOK
<1>2. /\ \A d \in Calls : d # c => answer'[d] = answer[d]
      /\ \A d \in Calls : Answered(d) => answer'[d] = answer[d]
      /\ s # "over" => answer'[c] = answer[c]
  BY DEF Advance, Answer, IInv, TypeOK, Answered
<1>3. s # "idle"
  BY DEF Advance, AtWork, Reading, Changing
<1>4. \A d \in Calls : IsRead(d)' = IsRead(d)
  BY <1>1 DEF IsRead, Asked
<1>5. \A t : OfTurn(t)' = OfTurn(t)
  BY <1>1 DEF OfTurn
<1>6. Current' = Current
  BY <1>1 DEF Current, OfTurn
<1>7. \A t \in 1..MaxTurns : OfTurn(t) \subseteq Calls
  BY TurnsHoldCalls DEF IInv
<1>8. c \in Current => c[1] = turn /\ c[2] \in DOMAIN batch[turn] /\ turn \in Nat
  BY DEF Current, OfTurn, IInv, TypeOK
<1>9. work[c] \in AtWork => Started(c)
  BY AtWorkIsStarted
<1>10. Shape(c)'
  BY <1>1, <1>8, <1>9 DEF Shape, Advance, IInv, CallInv
<1>11. \A d \in Calls : d # c => Shape(d)'
  BY <1>1 DEF Shape, Started, IInv, CallInv
<1>12. \A d \in Calls : Role(d)'
  BY <1>1, <1>4 DEF Role, Advance, IInv, CallInv
<1>13. \A d \in Calls : Heard(d)'
  <2> SUFFICES ASSUME NEW d \in Calls PROVE Heard(d)'
    OBVIOUS
  <2>1. CASE d = c
    BY <2>1, <1>1, <1>2, <1>3 DEF Heard, Started, Answered, IInv, CallInv
  <2>2. CASE d # c
    BY <2>2, <1>1, <1>2 DEF Heard, Started, Answered, IInv, CallInv
  <2> QED BY <2>1, <2>2
<1>14. \A d \in Calls : Live(d)'
  <2> SUFFICES ASSUME NEW d \in Calls PROVE Live(d)'
    OBVIOUS
  <2>1. CASE d # c
    BY <2>1, <1>1, <1>2, <1>6 DEF Live, IInv, CallInv
  <2>2. CASE d = c /\ s = "over"
    BY <2>2, <1>1 DEF Live, AtWork, Reading, Changing
  <2>3. CASE d = c /\ s # "over" /\ work[c] \in AtWork
    BY <2>3, <1>1, <1>2, <1>6 DEF Live, IInv, CallInv
  <2>4. CASE d = c /\ s # "over" /\ work[c] = "idle" /\ c \in Current
    BY <2>4, <1>1, <1>2, <1>6 DEF Live, Heard, Started, Answered, IInv, CallInv
  <2> QED BY <2>1, <2>2, <2>3, <2>4 DEF Advance
<1>15. \A d \in Calls : Ordered(d)'
  <2> SUFFICES ASSUME NEW d \in Calls, Started(d)', ~IsRead(d),
                      NEW e \in OfTurn(d[1]), IsRead(e) \/ e[2] < d[2]
               PROVE  Answered(e)'
    BY <1>4, <1>5, <1>7 DEF Ordered, Calls
  <2>1. e \in Calls
    BY <1>7 DEF Calls
  <2>2. Answered(e)
    <3>1. CASE Started(d)
      BY <3>1 DEF Ordered, IInv, CallInv
    <3>2. CASE ~Started(d)
      <4>1. d = c /\ work[c] = "idle" /\ c \in Current
        BY <3>2, <1>1, <1>9 DEF Started, Advance
      <4>2. e \in Current
        BY <4>1, <1>8 DEF Current
      <4> QED BY <4>1, <4>2, AtWorkIsStarted DEF Advance, Started
    <3> QED BY <3>1, <3>2
  <2> QED BY <2>1, <2>2, <1>2 DEF Answered
<1> QED
  BY <1>10, <1>11, <1>12, <1>13, <1>14, <1>15 DEF CallInv

(* And a gate that was shut stays shut.                                     *)
LEMMA AdvanceKeepsGates ==
  ASSUME IInv, NEW c \in Calls, NEW s, Advance(c, s), UNCHANGED ghosts,
         s = "over" \/ c \notin barred
  PROVE  \A d \in Calls : Gate(d)'
<1>1. /\ barred' = barred /\ wrote' = wrote /\ aborted' = aborted
      /\ work'[c] = s /\ \A d \in Calls : d # c => work'[d] = work[d]
  BY DEF Advance, ghosts, IInv, TypeOK
<1>2. c \notin wrote
  BY AtWorkIsStarted DEF Advance, IInv, Gate
<1> QED
  BY <1>1, <1>2 DEF Gate, IInv

-----------------------------------------------------------------------------
(* A call of this turn reads or changes one of the files.                   *)
LEMMA CurrentCalls ==
  ASSUME TypeOK, NEW c \in Current
  PROVE  c \in Calls /\ FileOf(c) \in Files
<1>1. turn \in 1..MaxTurns /\ c \in OfTurn(turn)
  BY BatchAssumption DEF TypeOK, Current, OfTurn
<1> QED
  BY <1>1, TurnsHoldCalls DEF FileOf, Asked, Request

(* Looking takes a read to one of the stages of a read, and keeps the types. *)
LEMMA LookReads ==
  ASSUME TypeOK, NEW c \in Calls, Look(c), FileOf(c) \in Files
  PROVE  /\ \E s \in Reading : work' = [work EXCEPT ![c] = s]
         /\ local' \in [Calls -> Entry \cup {NoEntry}]
         /\ inFlight' \in [Files -> Calls \cup {NoCall}]
BY DEF Look, TypeOK, Reading

(* What the actions of one call have in common.                             *)
Moves(c) ==
  /\ \E s : Advance(c, s) /\ (s = "over" \/ c \notin barred)
  /\ TypeOK'

LEMMA ReadsMove ==
  ASSUME IInv, NEW c \in Calls, StartRead(c) \/ Retry(c)
  PROVE  Moves(c)
<1> USE DEF IInv
<1>1. FileOf(c) \in Files
  BY CurrentCalls, StartedCalls DEF StartRead, Retry, Started
<1>2. PICK s \in Reading : work' = [work EXCEPT ![c] = s]
  BY <1>1, LookReads DEF StartRead, Retry
<1>3. s \in AtWork \cup {"over"} /\ s \notin Changing /\ s # "over"
  BY DEF AtWork, Reading, Changing
<1>4. IsRead(c)
  BY DEF StartRead, Retry, CallInv, Role, Reading
<1>5. Advance(c, s)
  BY <1>2, <1>3, <1>4 DEF Advance, StartRead, Retry, AtWork, Reading
<1>6. c \notin barred
  BY DEF StartRead, Retry, Gate
<1>7. TypeOK'
  <2>1. /\ local' \in [Calls -> Entry \cup {NoEntry}]
        /\ inFlight' \in [Files -> Calls \cup {NoCall}]
    BY <1>1, LookReads DEF StartRead, Retry
  <2>2. work' \in [Calls -> {"idle", "over"} \cup Reading \cup Changing]
    BY <1>2 DEF TypeOK
  <2> QED
    BY <2>1, <2>2 DEF TypeOK, StartRead, Retry, disk, loop, ghosts
<1> QED
  BY <1>5, <1>6, <1>7 DEF Moves

LEMMA CheckMoves ==
  ASSUME IInv, NEW c \in Calls, Check(c)
  PROVE  Moves(c)
<1> USE DEF IInv
<1>1. FileOf(c) \in Files /\ IsRead(c) /\ c \notin barred
  BY StartedCalls DEF Check, Started, Reading, CallInv, Role, Gate
<1>2. \E s \in {"over", "measuring"} : Advance(c, s)
  BY <1>1 DEF Check, Finish, Advance, AtWork, Reading, Changing, Answers
<1>3. TypeOK'
  BY <1>1 DEF Check, Finish, Answer, Answers, Leave, TypeOK, Reading, disk, loop, ghosts
<1> QED
  BY <1>1, <1>2, <1>3 DEF Moves

LEMMA MeasureMoves ==
  ASSUME IInv, NEW c \in Calls, Measure(c)
  PROVE  Moves(c)
<1> USE DEF IInv
<1>1. FileOf(c) \in Files /\ IsRead(c) /\ c \notin barred
  BY StartedCalls DEF Measure, Started, Reading, CallInv, Role, Gate
<1>2. Advance(c, "loading")
  BY <1>1 DEF Measure, Advance, AtWork, Reading, Changing
<1>3. TypeOK'
  BY <1>1 DEF Measure, TypeOK, Reading, Entry, Content, disk, loop, cache, ghosts
<1> QED
  BY <1>1, <1>2, <1>3 DEF Moves

LEMMA LoadMoves ==
  ASSUME IInv, NEW c \in Calls, Load(c)
  PROVE  Moves(c)
<1> USE DEF IInv
<1>1. FileOf(c) \in Files /\ IsRead(c) /\ c \notin barred
  BY StartedCalls DEF Load, Started, Reading, CallInv, Role, Gate
<1>2. Advance(c, "over")
  BY <1>1 DEF Load, Finish, Advance, AtWork, Reading, Changing, Answers
<1>3. [measured |-> file[FileOf(c)], body |-> file[FileOf(c)], from |-> c] \in Entry
  BY <1>1 DEF TypeOK, Entry
<1>4. local[c] # NoEntry => [local[c] EXCEPT !.body = file[FileOf(c)]] \in Entry
  BY <1>1 DEF TypeOK, Entry
<1>5. /\ local' \in [Calls -> Entry \cup {NoEntry}]
      /\ entries' \in [Files -> Entry \cup {NoEntry}]
  BY <1>1, <1>3, <1>4 DEF Load, TypeOK
<1>6. TypeOK'
  BY <1>1, <1>5 DEF Load, Finish, Answer, Answers, Leave, TypeOK, disk, loop, ghosts
<1> QED
  BY <1>2, <1>6 DEF Moves

LEMMA StartChangeMoves ==
  ASSUME IInv, NEW c \in Calls, StartChange(c)
  PROVE  Moves(c)
<1> USE DEF IInv
<1>1. c \notin barred
  BY DEF StartChange, Gate
<1>2. Advance(c, "asking")
  <2>1. \A d \in Current : IsRead(d) \/ d[2] < c[2] => Answered(d)
    BY DEF StartChange, Before
  <2> QED BY <2>1 DEF StartChange, Advance, AtWork, Reading, Changing
<1>3. TypeOK'
  BY DEF StartChange, TypeOK, Changing, disk, loop, ghosts
<1> QED
  BY <1>1, <1>2, <1>3 DEF Moves

(* A call barred at its gate was cancelled there, and so is not let through. *)
LEMMA ApproveMoves ==
  ASSUME IInv, NEW c \in Calls, Approve(c)
  PROVE  Moves(c)
<1> USE DEF IInv
<1>1. c \in barred => c \in aborted
  BY DEF Approve, Gate
<1>2. ~IsRead(c)
  BY DEF Approve, CallInv, Role, Changing
<1>3. CASE c \in aborted
  <2>1. Advance(c, "over")
    BY <1>2, <1>3 DEF Approve, Finish, Advance, AtWork, Reading, Changing, Answers
  <2>2. TypeOK'
    BY <1>3 DEF Approve, Finish, Answer, Answers, TypeOK, disk, loop, cache, ghosts
  <2> QED BY <2>1, <2>2 DEF Moves
<1>4. CASE c \notin aborted
  <2>1. \E s \in {"editing", "writing"} : Advance(c, s)
    BY <1>2, <1>4 DEF Approve, Advance, AtWork, Reading, Changing
  <2>2. TypeOK'
    BY <1>4 DEF Approve, TypeOK, Changing, disk, loop, cache, ghosts
  <2> QED BY <1>1, <1>4, <2>1, <2>2 DEF Moves
<1> QED
  BY <1>3, <1>4

LEMMA EndsMove ==
  ASSUME IInv, NEW c \in Calls, Decline(c) \/ Write(c)
  PROVE  Moves(c)
<1> USE DEF IInv
<1>1. FileOf(c) \in Files /\ ~IsRead(c)
  BY StartedCalls DEF Decline, Write, Started, Changing, CallInv, Role
<1>2. Advance(c, "over")
  BY <1>1 DEF Decline, Write, Finish, Advance, AtWork, Reading, Changing, Answers
<1>3. TypeOK'
  BY <1>1 DEF Decline, Write, Finish, Answer, Answers, TypeOK, Content, disk, loop, cache
<1> QED
  BY <1>2, <1>3 DEF Moves

LEMMA ReadToEditMoves ==
  ASSUME IInv, NEW c \in Calls, ReadToEdit(c)
  PROVE  Moves(c)
<1> USE DEF IInv
<1>1. FileOf(c) \in Files /\ ~IsRead(c) /\ c \notin barred
  BY StartedCalls DEF ReadToEdit, Started, Changing, CallInv, Role, Gate
<1>2. \E s \in {"over", "writing"} : Advance(c, s)
  BY <1>1 DEF ReadToEdit, Finish, Advance, AtWork, Reading, Changing, Answers
<1>3. [measured |-> file[FileOf(c)], body |-> file[FileOf(c)], from |-> c] \in Entry
  BY <1>1 DEF TypeOK, Entry
<1>4. TypeOK'
  BY <1>1, <1>3 DEF ReadToEdit, Finish, Answer, Answers, TypeOK, Changing, disk, loop, cache, ghosts
<1> QED
  BY <1>1, <1>2, <1>4 DEF Moves

-----------------------------------------------------------------------------
(* The signals of calls that are waited for fire, and each is answered.     *)
LEMMA AbortKeeps ==
  ASSUME IInv, NEW S \in SUBSET {c \in Calls : Waiting(c)}, Abort(S),
         UNCHANGED <<disk, loop, work, local, cache, wrote>>
  PROVE  IInv'
<1> USE DEF IInv
<1>1. TypeOK'
  BY DEF Abort, Answers, TypeOK, disk, loop, cache
<1>2. /\ turn' = turn /\ batch' = batch /\ work' = work /\ wrote' = wrote
      /\ \A t : OfTurn(t)' = OfTurn(t)
      /\ Current' = Current
  BY DEF loop, OfTurn, Current
<1>3. \A c \in Calls : Shape(c)' /\ Role(c)'
  BY <1>2 DEF CallInv, Shape, Started, Role, IsRead, Asked
<1>4. \A c \in Calls : Heard(c)'
  BY <1>2 DEF CallInv, Heard, Abort, Answered, Started, Waiting
<1>5. \A c \in Calls : Live(c)'
  BY <1>2 DEF CallInv, Live, Abort
<1>6. \A c \in Calls : Answered(c) => Answered(c)'
  BY DEF Abort, Answered
<1>7. \A c \in Calls : Ordered(c)'
  <2> SUFFICES ASSUME NEW c \in Calls, Started(c)', ~IsRead(c)',
                      NEW d \in OfTurn(c[1])', IsRead(d)' \/ d[2] < c[2]
               PROVE  Answered(d)'
    BY DEF Ordered
  <2>1. Started(c) /\ ~IsRead(c) /\ d \in OfTurn(c[1]) /\ (IsRead(d) \/ d[2] < c[2])
    BY <1>2 DEF Started, IsRead, Asked
  <2>2. Answered(d)
    BY <2>1 DEF CallInv, Ordered
  <2>3. d \in Calls
    BY <2>1, TurnsHoldCalls DEF Calls
  <2> QED BY <2>2, <2>3, <1>6
<1>8. \A c \in Calls : Gate(c)'
  BY <1>2 DEF Gate, Abort
<1> QED
  BY <1>1, <1>3, <1>4, <1>5, <1>7, <1>8 DEF CallInv

(* What has started belongs to turns that are over or under way, so the     *)
(* calls of a new turn disturb none of it.                                  *)
LEMMA NextTurnKeeps ==
  ASSUME IInv, NextTurn
  PROVE  IInv'
<1> USE DEF IInv
<1>1. /\ turn \in Nat /\ turn' = turn + 1 /\ turn + 1 \in 1..MaxTurns
      /\ \A t \in 1..turn : batch'[t] = batch[t]
      /\ work' = work /\ answer' = answer /\ aborted' = aborted
      /\ barred' = barred /\ wrote' = wrote
  BY BatchAssumption DEF NextTurn, TypeOK, ghosts
<1>2. TypeOK'
  BY BatchAssumption DEF NextTurn, TypeOK, disk, cache, ghosts
<1>3. \A c \in Calls : Started(c) =>
        /\ c[1] \in 1..turn
        /\ Asked(c)' = Asked(c) /\ IsRead(c)' = IsRead(c)
        /\ OfTurn(c[1])' = OfTurn(c[1])
  <2> SUFFICES ASSUME NEW c \in Calls, Started(c)
               PROVE  /\ c[1] \in 1..turn
                      /\ Asked(c)' = Asked(c) /\ IsRead(c)' = IsRead(c)
                      /\ OfTurn(c[1])' = OfTurn(c[1])
    OBVIOUS
  <2>1. c[1] \in 1..turn
    BY <1>1, BatchAssumption DEF CallInv, Shape, Calls
  <2>2. batch'[c[1]] = batch[c[1]]
    BY <1>1, <2>1
  <2> QED
    BY <2>1, <2>2 DEF Asked, IsRead, OfTurn
<1>4. \A c \in Calls : Shape(c)'
  BY <1>1, <1>3 DEF CallInv, Shape, Started
<1>5. \A c \in Calls : Role(c)'
  BY <1>1, <1>3 DEF CallInv, Role, Started, Reading, Changing
<1>6. \A c \in Calls : Heard(c)' /\ Gate(c)'
  BY <1>1 DEF CallInv, Heard, Answered, Started, Gate
<1>7. \A c \in Calls : Live(c)'
  BY <1>1 DEF CallInv, Live, NextTurn, Answered
<1>8. \A c \in Calls : Ordered(c)'
  <2> SUFFICES ASSUME NEW c \in Calls, Started(c)', ~IsRead(c)',
                      NEW d \in OfTurn(c[1])', IsRead(d)' \/ d[2] < c[2]
               PROVE  Answered(d)'
    BY DEF Ordered
  <2>1. Started(c) /\ ~IsRead(c) /\ d \in OfTurn(c[1])
    BY <1>1, <1>3 DEF Started
  <2>2. IsRead(d)' = IsRead(d)
    <3>1. c[1] \in 1..turn /\ c[1] \in 1..MaxTurns
      BY <2>1, <1>3 DEF Calls
    <3>2. d[1] = c[1]
      BY <2>1, <3>1, TurnsHoldCalls
    <3> QED BY <3>1, <3>2, <1>1 DEF IsRead, Asked
  <2> QED BY <1>1, <2>1, <2>2 DEF CallInv, Ordered, Answered
<1> QED
  BY <1>2, <1>4, <1>5, <1>6, <1>7, <1>8 DEF CallInv

(* Steps that only touch the disk, or nothing.                              *)
LEMMA BystandersKeep ==
  ASSUME IInv, OutsideChange \/ UNCHANGED vars
  PROVE  IInv'
<1>1. TypeOK'
  BY DEF IInv, OutsideChange, TypeOK, Content, vars, disk, loop, cache, ghosts
<1>2. UNCHANGED <<turn, batch, work, answer, aborted, barred, wrote>>
  BY DEF OutsideChange, vars, loop, ghosts
<1> QED
  BY <1>1, <1>2 DEF IInv, CallInv, Shape, Started, Role, IsRead, Asked, Heard, Answered, Live,
                    Current, Ordered, OfTurn, Gate

-----------------------------------------------------------------------------
LEMMA Inductive == Spec => []IInv
<1>1. Init => IInv
  BY BatchAssumption DEF Init, IInv, TypeOK, Content, CallInv, Shape, Started, Role, Reading,
                         Changing, Heard, Answered, Live, AtWork, Ordered, Gate
<1>2. IInv /\ [Next]_vars => IInv'
  <2> SUFFICES ASSUME IInv, [Next]_vars
               PROVE  IInv'
    OBVIOUS
  <2>1. ASSUME NEW c \in Calls, Moves(c), UNCHANGED ghosts
        PROVE  IInv'
    BY <2>1, AdvanceKeepsCalls, AdvanceKeepsGates DEF Moves, IInv
  <2>2. ASSUME NEW c \in Calls, StartRead(c) \/ Retry(c)
        PROVE  IInv'
    BY <2>1, <2>2, ReadsMove DEF StartRead, Retry
  <2>3. ASSUME NEW c \in Calls, Check(c) \/ Measure(c) \/ Load(c)
        PROVE  IInv'
    BY <2>1, <2>3, CheckMoves, MeasureMoves, LoadMoves DEF Check, Measure, Load
  <2>4. ASSUME NEW c \in Calls, StartChange(c) \/ Approve(c) \/ ReadToEdit(c)
        PROVE  IInv'
    BY <2>1, <2>4, StartChangeMoves, ApproveMoves, ReadToEditMoves
       DEF StartChange, Approve, ReadToEdit
  <2>5. ASSUME NEW c \in Calls, Decline(c)
        PROVE  IInv'
    <3>1. Moves(c)
      BY <2>5, EndsMove
    <3>2. work'[c] = "over" /\ \A d \in Calls : d # c => work'[d] = work[d]
      BY <2>5 DEF Decline, Finish, IInv, TypeOK
    <3>3. c \notin wrote
      BY <2>5 DEF Decline, IInv, Gate
    <3>4. \A d \in Calls : Gate(d)'
      BY <2>5, <3>2, <3>3 DEF Decline, IInv, Gate
    <3> QED
      BY <3>1, <3>4, AdvanceKeepsCalls DEF Moves, IInv
  <2>6. ASSUME NEW c \in Calls, Write(c)
        PROVE  IInv'
    <3>1. Moves(c)
      BY <2>6, EndsMove
    <3>2. work'[c] = "over" /\ \A d \in Calls : d # c => work'[d] = work[d]
      BY <2>6 DEF Write, Finish, IInv, TypeOK
    <3>3. c \notin barred
      BY <2>6 DEF Write, IInv, Gate
    <3>4. \A d \in Calls : Gate(d)'
      BY <2>6, <3>2, <3>3 DEF Write, IInv, Gate
    <3> QED
      BY <3>1, <3>4, AdvanceKeepsCalls DEF Moves, IInv
  <2>7. ASSUME NEW c \in Calls, Timeout(c)
        PROVE  IInv'
    BY <2>7, AbortKeeps DEF Timeout
  <2>8. CASE Interrupt
    BY <2>8, AbortKeeps DEF Interrupt
  <2>9. CASE NextTurn
    BY <2>9, NextTurnKeeps
  <2>10. CASE OutsideChange \/ UNCHANGED vars
    BY <2>10, BystandersKeep
  <2> QED
    BY <2>2, <2>3, <2>4, <2>5, <2>6, <2>7, <2>8, <2>9, <2>10 DEF Next
<1> QED
  BY <1>1, <1>2, PTL DEF Spec

(* The batch, the cache and the disk keep their types for any pool, any     *)
(* number of turns and any batches.                                         *)
THEOREM TypeCorrect == Spec => []TypeOK
BY Inductive, PTL DEF IInv

(* A call whose gate was shut, by an answer or by a cancellation while the  *)
(* prompt was open, changes no file, however late its prompt is answered.   *)
THEOREM ShutGatesHold == Spec => []BarredNeverWrites
<1>1. IInv => BarredNeverWrites
  BY DEF IInv, TypeOK, Gate, BarredNeverWrites
<1> QED
  BY <1>1, Inductive, PTL

(* Two calls that are both at work, one of them a change, have not both     *)
(* kept their signal: of two calls of one turn that were not cancelled, the *)
(* change started only once the other had been answered.                    *)
LEMMA ChangesRunAlone ==
  ASSUME IInv, NEW c \in Calls, NEW d \in Calls, c # d,
         work[c] \in Changing, work[d] \in AtWork, c \notin aborted
  PROVE  d \in aborted
<1> SUFFICES ASSUME d \notin aborted
             PROVE  FALSE
  OBVIOUS
<1>1. /\ c \in Current /\ answer[c] = "none"
      /\ d \in Current /\ answer[d] = "none"
  BY DEF IInv, CallInv, Live, AtWork
<1>2. Started(c) /\ Started(d) /\ ~IsRead(c)
  BY AtWorkIsStarted DEF IInv, CallInv, Role, AtWork
<1>3. c[1] = turn /\ d[1] = turn /\ c \in OfTurn(c[1]) /\ d \in OfTurn(c[1])
  BY <1>1 DEF Current, OfTurn
<1>4. ~IsRead(d) /\ ~(d[2] < c[2])
  BY <1>1, <1>2, <1>3 DEF IInv, CallInv, Ordered, Answered
<1>5. ~(c[2] < d[2])
  BY <1>1, <1>2, <1>3, <1>4 DEF IInv, CallInv, Ordered, Answered
<1>6. c[2] = d[2]
  BY <1>4, <1>5, BatchAssumption DEF Calls
<1> QED
  BY <1>3, <1>6 DEF Calls

(* While a change is asked for or made, nothing else is at work but what a  *)
(* timeout or an interrupt left behind.                                     *)
THEOREM OverlapNeedsCancel == Spec => []OnlyCancelledOverlap
<1>1. IInv => OnlyCancelledOverlap
  BY ChangesRunAlone DEF OnlyCancelledOverlap, AtWork
<1> QED
  BY <1>1, Inductive, PTL

(* All that the gates and the schedule guarantee, for any batches.          *)
THEOREM GatesStayShut == Spec => []GatesHold
<1>1. TypeOK /\ BarredNeverWrites /\ OnlyCancelledOverlap => GatesHold
  BY DEF GatesHold
<1> QED
  BY <1>1, TypeCorrect, ShutGatesHold, OverlapNeedsCancel, PTL

-----------------------------------------------------------------------------
(* The read cache and the edits. Contents are never written twice, so a     *)
(* measurement that is out of date stays so.                                *)

Known == {NoCall} \cup wrote \cup (Outside \ outside)

\* An entry whose measurement still holds has the body that is on disk.
Fits(e, f) == e.measured \in Known /\ (e.measured = file[f] => e.body = file[f])

Holding == {"checking", "measuring", "loading"}

\* Who reads a file holds it; an entry in hand fits; an edit that was not
\* cancelled finds what it read, or what somebody was not to write.
InHand(c) ==
  /\ work[c] \in Holding => inFlight[FileOf(c)] = c
  /\ work[c] = "checking" => local[c] # NoEntry /\ Fits(local[c], FileOf(c))
  /\ work[c] = "loading" /\ local[c] # NoEntry => local[c].measured \in Known
  /\ work[c] = "writing" /\ Asked(c).kind = "edit" /\ c \notin aborted =>
       file[FileOf(c)] \in {local[c].body} \cup Outside \cup aborted

CacheInv ==
  /\ \A f \in Files : file[f] \in Known
  /\ \A f \in Files : entries[f] # NoEntry => Fits(entries[f], f)
  /\ \A c \in Calls : InHand(c)

HandInv == IInv /\ CacheInv

(* What a started call asked for stays what it is, also in the next turn.   *)
LEMMA RequestsStay ==
  ASSUME IInv, [Next]_vars, NEW c \in Calls, Started(c)
  PROVE  Asked(c)' = Asked(c) /\ FileOf(c)' = FileOf(c) /\ FileOf(c) \in Files
<1>1. CASE NextTurn
  <2>1. c[1] \in 1..MaxTurns /\ c[1] <= turn /\ turn \in Nat
    BY DEF IInv, CallInv, Shape, Calls, TypeOK
  <2>2. batch'[c[1]] = batch[c[1]]
    BY <1>1, <2>1 DEF NextTurn, IInv, TypeOK
  <2> QED
    BY <2>2, StartedCalls DEF Asked, FileOf
<1>2. CASE batch' = batch
  BY <1>2, StartedCalls DEF Asked, FileOf
<1> QED
  BY <1>1, <1>2 DEF Next, vars, loop, StartRead, Retry, Check, Measure, Load, StartChange, Approve,
     Decline, ReadToEdit, Write, Timeout, Interrupt, OutsideChange

(* A call nothing happens to keeps what it has in hand.                     *)
LEMMA HandStays ==
  ASSUME HandInv, [Next]_vars, NEW c \in Calls,
         work'[c] = work[c], local'[c] = local[c], file' = file,
         Known \subseteq Known', aborted \subseteq aborted',
         work[c] \in Holding => inFlight'[FileOf(c)] = inFlight[FileOf(c)]
  PROVE  InHand(c)'
<1>1. CASE ~Started(c)
  BY <1>1 DEF Started, InHand, Holding
<1>2. CASE Started(c)
  <2>1. Asked(c)' = Asked(c) /\ FileOf(c)' = FileOf(c)
    BY <1>2, RequestsStay DEF HandInv
  <2> QED
    BY <2>1 DEF HandInv, CacheInv, InHand, Fits
<1> QED
  BY <1>1, <1>2

(* Two calls never hold one file.                                           *)
LEMMA OneHolder ==
  ASSUME HandInv, NEW c \in Calls, NEW d \in Calls, c # d, work[d] \in Holding,
         work[c] \in Holding \/ inFlight[FileOf(c)] = NoCall
  PROVE  FileOf(c) # FileOf(d)
BY BatchAssumption DEF HandInv, CacheInv, InHand

(* Nothing is on disk, and nothing is remembered, that is new.              *)
Quiet == file' = file /\ Known' = Known /\ aborted' = aborted

LEMMA QuietDisk ==
  ASSUME HandInv, Quiet, \A f \in Files : entries'[f] \in {NoEntry, entries[f]}
  PROVE  /\ \A f \in Files : file'[f] \in Known'
         /\ \A f \in Files : entries'[f] # NoEntry => Fits(entries[f], f)' /\ entries'[f] = entries[f]
BY DEF HandInv, CacheInv, Quiet, Fits

(* Leaving one file is nothing to who holds another.                        *)
LEMMA LeaveSpares ==
  ASSUME HandInv, NEW c \in Calls, NEW d \in Calls, c # d,
         work[c] \in Holding, work[d] \in Holding, Leave(FileOf(c))
  PROVE  inFlight'[FileOf(d)] = inFlight[FileOf(d)]
<1>1. FileOf(d) # FileOf(c)
  BY OneHolder
<1>2. FileOf(d) \in Files
  BY StartedCalls DEF HandInv, Started, Holding
<1> QED
  BY <1>1, <1>2 DEF Leave, HandInv, IInv, TypeOK

LEMMA LooksKeepCache ==
  ASSUME HandInv, [Next]_vars, NEW c \in Calls, StartRead(c) \/ Retry(c)
  PROVE  CacheInv'
<1> DEFINE f == FileOf(c)
<1>0. TypeOK /\ Look(c) /\ f \in Files /\ entries' = entries /\ batch' = batch
  BY CurrentCalls, StartedCalls DEF HandInv, IInv, StartRead, Retry, Started, loop
<1>1. Quiet
  BY DEF StartRead, Retry, disk, ghosts, Quiet, Known
<1>2. f' = f /\ Asked(c)' = Asked(c)
  BY <1>0 DEF FileOf, Asked
<1>3. InHand(c)'
  <2>1. CASE inFlight[f] # NoCall
    BY <1>0, <2>1 DEF Look, InHand, Holding, TypeOK
  <2>2. CASE inFlight[f] = NoCall
    <3>1. /\ inFlight'[f] = c /\ local'[c] = entries[f]
          /\ work'[c] = IF entries[f] = NoEntry THEN "measuring" ELSE "checking"
      BY <1>0, <2>2 DEF Look, TypeOK
    <3>2. entries[f] # NoEntry => Fits(entries[f], f)
      BY <1>0 DEF HandInv, CacheInv
    <3> QED
      BY <1>1, <1>2, <3>1, <3>2 DEF InHand, Fits, Quiet
  <2> QED
    BY <2>1, <2>2
<1>4. ASSUME NEW d \in Calls, d # c PROVE InHand(d)'
  <2>1. work'[d] = work[d] /\ local'[d] = local[d]
    BY <1>0, <1>4 DEF Look, TypeOK
  <2>2. work[d] \in Holding => inFlight'[FileOf(d)] = inFlight[FileOf(d)]
    <3>1. CASE inFlight[f] # NoCall
      BY <1>0, <3>1 DEF Look
    <3>2. CASE inFlight[f] = NoCall /\ work[d] \in Holding
      <4>1. f # FileOf(d) /\ FileOf(d) \in Files
        BY <1>4, <3>2, OneHolder, StartedCalls DEF HandInv, Started, Holding
      <4>2. inFlight' = [inFlight EXCEPT ![f] = c]
        BY <1>0, <3>2 DEF Look
      <4> QED
        BY <1>0, <4>1, <4>2 DEF TypeOK
    <3> QED
      BY <3>1, <3>2
  <2> QED
    BY <1>1, <2>1, <2>2, HandStays DEF Quiet
<1> QED
  BY <1>0, <1>1, <1>3, <1>4 DEF HandInv, CacheInv, Quiet, Fits

LEMMA CheckKeepsCache ==
  ASSUME HandInv, [Next]_vars, NEW c \in Calls, Check(c)
  PROVE  CacheInv'
<1> DEFINE f == FileOf(c)
<1>0. TypeOK /\ f \in Files /\ work[c] \in Holding /\ inFlight[f] = c /\ batch' = batch
  BY StartedCalls DEF HandInv, CacheInv, InHand, IInv, Check, Started, Holding, loop
<1>1. Quiet /\ \A g \in Files : entries'[g] \in {NoEntry, entries[g]}
  BY <1>0 DEF Check, disk, ghosts, Quiet, Known, TypeOK
<1>2. InHand(c)'
  <2>1. f' = f
    BY <1>0 DEF FileOf, Asked
  <2>2. CASE work'[c] = "over"
    BY <2>2 DEF InHand, Holding
  <2>3. CASE work'[c] = "measuring" /\ inFlight' = inFlight
    BY <1>0, <2>1, <2>3 DEF InHand
  <2> QED
    BY <1>0, <2>2, <2>3 DEF Check, Finish, TypeOK
<1>3. ASSUME NEW d \in Calls, d # c PROVE InHand(d)'
  <2>1. work'[d] = work[d] /\ local'[d] = local[d]
    BY <1>0, <1>3 DEF Check, Finish, TypeOK
  <2>2. work[d] \in Holding => inFlight'[FileOf(d)] = inFlight[FileOf(d)]
    <3>1. inFlight' = inFlight \/ Leave(FileOf(c))
      BY DEF Check
    <3> QED
      BY <1>0, <1>3, <3>1, LeaveSpares
  <2> QED
    BY <1>1, <2>1, <2>2, HandStays DEF Quiet
<1> QED
  BY <1>1, <1>2, <1>3, QuietDisk DEF CacheInv, Fits

LEMMA MeasureKeepsCache ==
  ASSUME HandInv, [Next]_vars, NEW c \in Calls, Measure(c)
  PROVE  CacheInv'
<1> DEFINE f == FileOf(c)
<1>0. TypeOK /\ f \in Files /\ inFlight[f] = c /\ batch' = batch /\ entries' = entries /\ inFlight' = inFlight
  BY StartedCalls DEF HandInv, CacheInv, InHand, IInv, Measure, Started, Holding, loop, cache
<1>1. Quiet
  BY DEF Measure, disk, ghosts, Quiet, Known
<1>2. InHand(c)'
  <2>1. f' = f
    BY <1>0 DEF FileOf, Asked
  <2>2. work'[c] = "loading" /\ local'[c] \in {NoEntry, [measured |-> file[f], body |-> NoCall, from |-> c]}
    BY <1>0 DEF Measure, TypeOK
  <2>3. file[f] \in Known
    BY <1>0 DEF HandInv, CacheInv
  <2> QED
    BY <1>0, <1>1, <2>1, <2>2, <2>3 DEF InHand, Quiet
<1>3. ASSUME NEW d \in Calls, d # c PROVE InHand(d)'
  <2>1. work'[d] = work[d] /\ local'[d] = local[d]
    BY <1>0, <1>3 DEF Measure, TypeOK
  <2> QED
    BY <1>0, <1>1, <2>1, HandStays DEF Quiet
<1> QED
  BY <1>0, <1>1, <1>2, <1>3 DEF HandInv, CacheInv, Quiet, Fits

(* A load remembers what is on disk under what was measured before: if both *)
(* are one content the entry fits, and if not it never will be looked at.   *)
LEMMA LoadKeepsCache ==
  ASSUME HandInv, [Next]_vars, NEW c \in Calls, Load(c)
  PROVE  CacheInv'
<1> DEFINE f == FileOf(c)
<1>0. /\ TypeOK /\ f \in Files /\ work[c] \in Holding /\ work'[c] = "over"
      /\ \A d \in Calls : d # c => work'[d] = work[d] /\ local'[d] = local[d]
  BY StartedCalls DEF HandInv, IInv, Load, Finish, Started, Holding, TypeOK
<1>1. Quiet
  BY DEF Load, disk, ghosts, Quiet, Known
<1>2. InHand(c)'
  BY <1>0 DEF InHand, Holding
<1>3. ASSUME NEW d \in Calls, d # c PROVE InHand(d)'
  <2>1. work[d] \in Holding => inFlight'[FileOf(d)] = inFlight[FileOf(d)]
    BY <1>0, <1>3, LeaveSpares DEF Load
  <2> QED
    BY <1>0, <1>1, <1>3, <2>1, HandStays DEF Quiet
<1>4. ASSUME NEW g \in Files, entries'[g] # NoEntry PROVE Fits(entries[g], g)'
  <2>1. CASE entries'[g] = entries[g]
    BY <1>1, <1>4, <2>1 DEF HandInv, CacheInv, Fits, Quiet
  <2>2. CASE /\ g = f /\ local[c] # NoEntry
             /\ entries' = [entries EXCEPT ![f] = [local[c] EXCEPT !.body = file[f]]]
    <3>1. local[c] \in Entry /\ local[c].measured \in Known
      BY <1>0, <2>2 DEF TypeOK, HandInv, CacheInv, InHand, Load
    <3>2. entries'[g].measured = local[c].measured /\ entries'[g].body = file[f]
      BY <1>0, <2>2, <3>1 DEF TypeOK, Entry
    <3> QED
      BY <1>1, <2>2, <3>1, <3>2 DEF Fits, Quiet
  <2> QED
    BY <1>0, <2>1, <2>2 DEF Load, TypeOK
<1> QED
  BY <1>1, <1>2, <1>3, <1>4 DEF HandInv, CacheInv, Quiet

(* A change of a file writes a content that no measurement has seen.        *)
LEMMA NewContent ==
  ASSUME HandInv, NEW g \in Files, NEW new, new \notin Known,
         file' = [file EXCEPT ![g] = new], Known' = Known \cup {new}, entries' = entries
  PROVE  /\ \A f \in Files : file'[f] \in Known'
         /\ \A f \in Files : entries'[f] # NoEntry => Fits(entries[f], f)'
         /\ \A e : \A f \in Files : Fits(e, f) =>
              e.measured \in Known' /\ (e.measured = file'[f] => e.body = file'[f])
BY DEF HandInv, CacheInv, Fits, IInv, TypeOK

(* What a new content on disk means for the other calls.                    *)
LEMMA NewContentInHand ==
  ASSUME HandInv, [Next]_vars, NEW g \in Files, NEW new, new \notin Known, NEW c \in Calls,
         file' = [file EXCEPT ![g] = new], Known' = Known \cup {new}, entries' = entries,
         aborted' = aborted, work'[c] = work[c], local'[c] = local[c], inFlight' = inFlight,
         work[c] = "writing" /\ c \notin aborted => new \in Outside \cup aborted
  PROVE  InHand(c)'
<1>1. CASE ~Started(c)
  BY <1>1 DEF Started, InHand, Holding
<1>2. CASE Started(c)
  <2>1. Asked(c)' = Asked(c) /\ FileOf(c)' = FileOf(c) /\ FileOf(c) \in Files
    BY <1>2, RequestsStay DEF HandInv
  <2>2. \A e : \A f \in Files : Fits(e, f) =>
          e.measured \in Known' /\ (e.measured = file'[f] => e.body = file'[f])
    BY NewContent
  <2>3. work[c] = "checking" => Fits(local[c], FileOf(c))'
    BY <2>1, <2>2 DEF HandInv, CacheInv, InHand, Fits
  <2>4. file'[FileOf(c)] \in {file[FileOf(c)], new}
    BY <2>1 DEF HandInv, IInv, TypeOK
  <2> QED
    BY <2>1, <2>3, <2>4 DEF HandInv, CacheInv, InHand
<1> QED
  BY <1>1, <1>2

LEMMA WriteKeepsCache ==
  ASSUME HandInv, [Next]_vars, NEW c \in Calls, Write(c)
  PROVE  CacheInv'
<1> DEFINE f == FileOf(c)
<1>0. /\ TypeOK /\ f \in Files /\ work[c] = "writing" /\ work'[c] = "over"
      /\ \A d \in Calls : d # c => work'[d] = work[d]
      /\ local' = local /\ entries' = entries /\ inFlight' = inFlight /\ aborted' = aborted
      /\ outside' = outside
  BY StartedCalls DEF HandInv, IInv, Write, Finish, Started, TypeOK, cache
<1>1. InHand(c)'
  BY <1>0 DEF InHand, Holding
<1>2. CASE file' = file /\ wrote' = wrote
  <2>1. Quiet
    BY <1>0, <1>2 DEF Quiet, Known
  <2>2. ASSUME NEW d \in Calls, d # c PROVE InHand(d)'
    BY <1>0, <2>1, <2>2, HandStays DEF Quiet
  <2> QED
    BY <1>0, <1>1, <2>1, <2>2, QuietDisk DEF CacheInv, Fits
<1>3. CASE file' = [file EXCEPT ![f] = c] /\ wrote' = wrote \cup {c}
  <2>1. c \notin Known
    BY <1>0, BatchAssumption DEF Known, HandInv, IInv, Gate
  <2>2. Known' = Known \cup {c}
    BY <1>0, <1>3 DEF Known
  <2>3. ASSUME NEW d \in Calls, d # c PROVE InHand(d)'
    <3>1. work[d] = "writing" /\ d \notin aborted => c \in aborted
      BY <1>0, <2>3, ChangesRunAlone DEF HandInv, AtWork, Changing
    <3> QED
      BY <1>0, <1>3, <2>1, <2>2, <2>3, <3>1, NewContentInHand
  <2> QED
    BY <1>0, <1>1, <1>3, <2>1, <2>2, <2>3, NewContent DEF CacheInv
<1> QED
  BY <1>2, <1>3 DEF Write

LEMMA OutsideKeepsCache ==
  ASSUME HandInv, [Next]_vars, OutsideChange
  PROVE  CacheInv'
<1>1. PICK x \in outside, g \in Files : file' = [file EXCEPT ![g] = x] /\ outside' = outside \ {x}
  BY DEF OutsideChange
<1>2. /\ TypeOK /\ UNCHANGED <<work, local, aborted, entries, inFlight, wrote>>
  BY DEF OutsideChange, cache, ghosts, HandInv, IInv
<1>3. x \in Outside /\ x \notin Known
  BY <1>2, BatchAssumption DEF Known, TypeOK
<1>4. Known' = Known \cup {x}
  BY <1>1, <1>2, <1>3 DEF Known
<1>5. ASSUME NEW d \in Calls PROVE InHand(d)'
  BY <1>1, <1>2, <1>3, <1>4, NewContentInHand
<1> QED
  BY <1>1, <1>2, <1>3, <1>4, <1>5, NewContent DEF CacheInv

(* Steps that change no file and neither take nor leave one.                *)
LEMMA OthersKeepCache ==
  ASSUME HandInv, [Next]_vars,
         \/ \E c \in Calls : StartChange(c) \/ Approve(c) \/ Decline(c) \/ ReadToEdit(c) \/ Timeout(c)
         \/ Interrupt \/ NextTurn \/ UNCHANGED vars
  PROVE  CacheInv'
<1> USE DEF HandInv
<1>0. TypeOK
  BY DEF IInv
<1>1. file' = file /\ Known' = Known /\ inFlight' = inFlight /\ aborted \subseteq aborted'
  BY DEF StartChange, Approve, Decline, ReadToEdit, Timeout, Interrupt, NextTurn, Abort, vars, disk, cache,
         ghosts, Known
<1>2. \A f \in Files : entries'[f] \in {NoEntry, entries[f]}
  BY <1>0 DEF StartChange, Approve, Decline, ReadToEdit, Timeout, Interrupt, NextTurn, vars, cache
<1>3. ASSUME NEW c \in Calls, work'[c] = work[c], local'[c] = local[c] PROVE InHand(c)'
  BY <1>1, <1>3, HandStays
<1>4. ASSUME NEW c \in Calls, StartChange(c) \/ Approve(c) \/ Decline(c) PROVE CacheInv'
  <2>1. \A d \in Calls : d # c => work'[d] = work[d] /\ local'[d] = local[d]
    BY <1>0, <1>4 DEF StartChange, Approve, Decline, Finish, TypeOK
  <2>2. InHand(c)'
    <3>1. \/ work'[c] \in {"asking", "editing", "over"}
          \/ work'[c] = "writing" /\ Asked(c).kind # "edit" /\ Asked(c)' = Asked(c)
      BY <1>0, <1>4 DEF StartChange, Approve, Decline, Finish, TypeOK, Asked, loop
    <3> QED
      BY <3>1 DEF InHand, Holding
  <2> QED
    BY <1>1, <1>2, <1>3, <2>1, <2>2 DEF CacheInv, Fits
<1>5. ASSUME NEW c \in Calls, ReadToEdit(c) PROVE CacheInv'
  <2>1. \A d \in Calls : d # c => work'[d] = work[d] /\ local'[d] = local[d]
    BY <1>0, <1>5 DEF ReadToEdit, Finish, TypeOK
  <2>2. FileOf(c)' = FileOf(c)
    BY <1>5 DEF ReadToEdit, FileOf, Asked, loop
  <2>3. InHand(c)'
    <3>1. \/ work'[c] = "over"
          \/ work'[c] = "writing" /\ local'[c].body = file[FileOf(c)]
      BY <1>0, <1>5 DEF ReadToEdit, Finish, TypeOK
    <3> QED
      BY <1>1, <2>2, <3>1 DEF InHand, Holding
  <2> QED
    BY <1>1, <1>2, <1>3, <2>1, <2>3 DEF CacheInv, Fits
<1>6. CASE work' = work /\ local' = local
  BY <1>1, <1>2, <1>3, <1>6 DEF CacheInv, Fits
<1> QED
  BY <1>4, <1>5, <1>6 DEF Timeout, Interrupt, NextTurn, vars

LEMMA CacheInductive == Spec => []HandInv
<1>1. Init /\ IInv => HandInv
  BY BatchAssumption DEF Init, HandInv, CacheInv, InHand, Holding, Known
<1>2. HandInv /\ [Next]_vars /\ IInv' => HandInv'
  <2> SUFFICES ASSUME HandInv, [Next]_vars, IInv' PROVE CacheInv'
    BY DEF HandInv
  <2> QED
    BY LooksKeepCache, CheckKeepsCache, MeasureKeepsCache, LoadKeepsCache, WriteKeepsCache,
       OutsideKeepsCache, OthersKeepCache DEF Next
<1> QED
  BY <1>1, <1>2, Inductive, PTL DEF Spec

(* One file is read by one call at a time, and a read answered by naming an *)
(* earlier one names what is on disk, whoever wrote meanwhile: for any      *)
(* files, batches and pool size, and any changes from outside.              *)
THEOREM NoticesStayTrue == Spec => NoticesAreTrue
<1> DEFINE Fresh == \A c \in Calls :
             answer[c] = "none" /\ answer'[c] = "notice" => local[c].body = file[FileOf(c)]
<1>1. HandInv => OneReaderPerFile
  <2> SUFFICES ASSUME HandInv, NEW f \in Files
               PROVE  Cardinality({c \in Calls : work[c] \in Reading \ {"joining"} /\ FileOf(c) = f}) <= 1
    BY DEF OneReaderPerFile
  <2> DEFINE S == {c \in Calls : work[c] \in Reading \ {"joining"} /\ FileOf(c) = f}
  <2>1. \A c, d \in S : c = d
    BY OneHolder DEF Reading, Holding
  <2>2. CASE S = {}
    BY <2>2, FS_EmptySet
  <2>3. ASSUME NEW c \in S PROVE Cardinality(S) <= 1
    <3>1. S = {c}
      BY <2>1
    <3>2. Cardinality({c}) = 1
      BY FS_Singleton
    <3> QED
      BY <3>1, <3>2
  <2> QED
    BY <2>2, <2>3
<1>2. HandInv /\ [Next]_vars => [Fresh]_vars
  <2> SUFFICES ASSUME HandInv, Next, NEW c \in Calls, answer[c] = "none", answer'[c] = "notice"
               PROVE  local[c].body = file[FileOf(c)]
    OBVIOUS
  <2>1. TypeOK
    BY DEF HandInv, IInv
  <2>2. Check(c) /\ local[c].measured = file[FileOf(c)]
    BY <2>1 DEF Next, StartRead, Retry, Check, Measure, Load, StartChange, Approve, Decline, ReadToEdit,
       Write, Timeout, Interrupt, OutsideChange, NextTurn, Abort, Finish, Answer, TypeOK
  <2> QED
    BY <2>2 DEF Check, HandInv, CacheInv, InHand, Fits
<1> QED
  BY <1>1, <1>2, CacheInductive, PTL DEF Spec, NoticesAreTrue, NoticeIsFresh

(* An edit that was not cancelled replaces what it has read; another change *)
(* is lost only if it came from outside or from a call that was cancelled:  *)
(* at every write of any batches, turns and timeouts.                       *)
THEOREM EditsReplaceWhatTheyRead == Spec => EditsLoseOnlyToCancelled
<1> DEFINE Kept == \A c \in wrote' \ wrote :
             LET lost == file[FileOf(c)] IN
             Asked(c).kind = "edit" /\ lost # local[c].body =>
               lost \in Outside \/ c \in aborted \/ lost \in aborted
<1>1. HandInv /\ [Next]_vars => [Kept]_vars
  <2> SUFFICES ASSUME HandInv, Next, NEW c \in wrote' \ wrote, Asked(c).kind = "edit",
                      file[FileOf(c)] # local[c].body, c \notin aborted
               PROVE  file[FileOf(c)] \in Outside \/ file[FileOf(c)] \in aborted
    OBVIOUS
  <2>1. c \in Calls /\ work[c] = "writing"
    BY DEF Next, StartRead, Retry, Check, Measure, Load, StartChange, Approve, Decline, ReadToEdit,
       Write, Timeout, Interrupt, OutsideChange, NextTurn, ghosts
  <2> QED
    BY <2>1 DEF HandInv, CacheInv, InHand
<1> QED
  BY <1>1, CacheInductive, PTL DEF Spec, EditsLoseOnlyToCancelled
=============================================================================
