------------------------ MODULE HarnessTurns_proofs -------------------------
(* What a session of the harness can rely on. Of the approval gate of the    *)
(* plaintext session: what may run, for any number of processes, workspaces  *)
(* and calls, in any mode. Of the tool loop: what its history is made of     *)
(* after any number of turns, compactions and tasks. The two share no state. *)
EXTENDS PlaintextGate, ToolLoop, FiniteSetTheorems, SequenceTheorems, TLAPS

-----------------------------------------------------------------------------
(* The approval gate. *)

(* A key was answered with p in a workspace, and if it is a command's it was *)
(* asked about again or had been labelled. K: the consents there are.       *)
Answered(K, w, k) ==
  \E y \in K : y.ws = w /\ y.key = k /\ (k[1] \in Commands => y.again)

(* What a process that runs has loaded or learned was answered in its        *)
(* workspace, for it may put that on file later.                            *)
Placed(x) == x.up => x.ws \in Workspaces
LoadedAnswered(K, x) == x.up => \A k \in x.workspace : Answered(K, x.ws, k)
SessionAgreed(x) == x.session \subseteq x.agreed

(* Why a call of process x may run.                                         *)
Reason(K, x, o) ==
  \/ o.by = "human" \/ (o.by = "yes" /\ x.mode = "yes")
  \/ o.by = "safe" /\ x.risk /\ o.label = "safe"
  \/ /\ o.by = "rule" /\ x.mode = "tty" /\ o.label # "caution"
     /\ \/ RuleKey(o.call) \in x.agreed
        \/ \E y \in K : y.ws = x.ws /\ y.key = RuleKey(o.call)

(* Only a process that runs has open calls; past the gate those are on      *)
(* record of which a command or a diff was shown, and one that is performed *)
(* was not given up.                                                        *)
CallSound(K, x, o) ==
  /\ x.up
  /\ o.stage # "gate" /\ Recorded(o.preview) => o.call \in x.reviewed
  /\ o.stage = "runs" => o.live /\ Reason(K, x, o)

OpenSound(K, x) == \A i \in DOMAIN x.open : CallSound(K, x, x.open[i])

ProcessSound(K, x) ==
  Placed(x) /\ LoadedAnswered(K, x) /\ SessionAgreed(x) /\ OpenSound(K, x)

(* Calls are numbered in the order they are asked for; one is waited for.   *)
Numbered(x) ==
  \A i, j \in DOMAIN x.open : i <= x.calls /\ (x.open[i].live /\ x.open[j].live => i = j)

FileAnswered == \A w \in Workspaces : \A k \in rules[w] : Answered(consents, w, k)

IInv ==
  /\ TypeOK
  /\ FileAnswered
  /\ \A p \in Procs : ProcessSound(consents, procs[p])

-----------------------------------------------------------------------------
(* A function of call numbers to open calls is one of the values of open.   *)
LEMMA OpenIntro ==
  ASSUME NEW S \in SUBSET Numbers, NEW f \in [S -> Open] PROVE f \in OpenCalls
  BY DEF OpenCalls

LEMMA OpenElim ==
  ASSUME NEW f \in OpenCalls
  PROVE  /\ DOMAIN f \subseteq Numbers /\ f \in [DOMAIN f -> Open]
         /\ \A i \in DOMAIN f : f[i] \in Open
  BY DEF OpenCalls

LEMMA NoneIsOpen == NoneOpen \in OpenCalls /\ DOMAIN NoneOpen = {}
<1>1. NoneOpen \in [{} -> Open] /\ DOMAIN NoneOpen = {}
  BY DEF NoneOpen
<1> QED BY <1>1, OpenIntro

LEMMA NumbersAreInts == Numbers \subseteq Int
  BY GateAssumption DEF Numbers

(* A call that is over is off the list, and the others are as they were.    *)
LEMMA WithoutKeeps ==
  ASSUME NEW f \in OpenCalls, NEW n
  PROVE  /\ Without(f, n) \in OpenCalls /\ DOMAIN Without(f, n) = DOMAIN f \ {n}
         /\ \A i \in DOMAIN f \ {n} : Without(f, n)[i] = f[i]
<1>1. /\ DOMAIN Without(f, n) = DOMAIN f \ {n}
      /\ \A i \in DOMAIN f \ {n} : Without(f, n)[i] = f[i]
  BY DEF Without, Restrict
<1>2. Without(f, n) \in [DOMAIN f \ {n} -> Open]
  BY OpenElim DEF Without, Restrict
<1> QED BY <1>1, <1>2, OpenElim, OpenIntro

LEMMA WithAdds ==
  ASSUME NEW f \in OpenCalls, NEW n \in Numbers, NEW o \in Open
  PROVE  /\ With(f, n, o) \in OpenCalls /\ DOMAIN With(f, n, o) = DOMAIN f \cup {n}
         /\ \A i \in DOMAIN f \ {n} : With(f, n, o)[i] = f[i]
         /\ With(f, n, o)[n] = o
<1>1. With(f, n, o) \in [DOMAIN f \cup {n} -> Open]
  BY OpenElim DEF With
<1>2. DOMAIN f \cup {n} \in SUBSET Numbers
  BY OpenElim
<1> QED BY <1>1, <1>2, OpenIntro DEF With

(* What was answered stays answered.                                        *)
LEMMA AnsweredStays ==
  ASSUME NEW K, NEW L, K \subseteq L, NEW w, NEW k, Answered(K, w, k) PROVE Answered(L, w, k)
  BY DEF Answered

(* A call is as sound in a process of which no more is changed than that    *)
(* more is reviewed or agreed.                                              *)
Same(x, y) ==
  /\ x.up = y.up /\ x.ws = y.ws /\ x.mode = y.mode /\ x.risk = y.risk
  /\ x.agreed \subseteq y.agreed /\ x.reviewed \subseteq y.reviewed

(* What is performed in y was waited for in x.                              *)
RunsLive(x, y) ==
  \A i \in DOMAIN y.open : y.open[i].stage = "runs" =>
    i \in DOMAIN x.open /\ x.open[i].live /\ y.open[i].call = x.open[i].call

LEMMA CallStaysSound ==
  ASSUME NEW K, NEW L, K \subseteq L, NEW x, NEW y, NEW o, Same(x, y), CallSound(K, x, o)
  PROVE  CallSound(L, y, o)
  BY DEF CallSound, Same, Reason

LEMMA BystanderKeeps ==
  ASSUME NEW K, NEW L, K \subseteq L, NEW x, ProcessSound(K, x)
  PROVE  ProcessSound(L, x)
<1>1. LoadedAnswered(L, x)
  BY AnsweredStays DEF ProcessSound, LoadedAnswered
<1>2. OpenSound(L, x)
  BY CallStaysSound DEF ProcessSound, OpenSound, Same
<1> QED BY <1>1, <1>2 DEF ProcessSound

(* A step of one process that writes no file.                               *)
LEMMA OneMoves ==
  ASSUME IInv, NEW p \in Procs, NEW x \in Proc, procs' = [procs EXCEPT ![p] = x],
         Numbered(x), ProcessSound(consents, x),
         UNCHANGED <<rules, consents>>, launches' \in 0..MaxLaunches
  PROVE  IInv'
<1>1. procs' \in [Procs -> Proc] /\ procs'[p] = x /\ \A q \in Procs \ {p} : procs'[q] = procs[q]
  BY DEF IInv, TypeOK
<1>2. TypeOK'
  BY <1>1 DEF IInv, TypeOK, Numbered
<1>3. FileAnswered' /\ \A q \in Procs : ProcessSound(consents', procs'[q])
  BY <1>1 DEF IInv, FileAnswered
<1> QED BY <1>2, <1>3 DEF IInv

(* A step of one process that only moves its calls.                         *)
LEMMA CallsMove ==
  ASSUME IInv, NEW p \in Procs, NEW x \in Proc, procs' = [procs EXCEPT ![p] = x],
         Same(procs[p], x), x.workspace = procs[p].workspace, x.session = procs[p].session,
         Numbered(x), OpenSound(consents, x), UNCHANGED <<rules, consents, launches>>
  PROVE  IInv'
<1>1. ProcessSound(consents, procs[p])
  BY DEF IInv
<1>2. ProcessSound(consents, x)
  BY <1>1 DEF ProcessSound, Placed, SessionAgreed, LoadedAnswered, Same
<1> QED BY <1>2, OneMoves DEF IInv, TypeOK

LEMMA EndedIsSound ==
  /\ Ended \in Proc /\ Numbered(Ended) /\ \A K : ProcessSound(K, Ended)
  /\ ~Ended.up /\ Ended.session = {} /\ Ended.open = NoneOpen
<1>1. Ended \in Proc
  BY NoneIsOpen DEF Ended, Proc
<1>2. ~Ended.up /\ Ended.session = {} /\ Ended.open = NoneOpen /\ Ended.workspace = {}
  BY DEF Ended
<1>3. Numbered(Ended) /\ \A K : ProcessSound(K, Ended)
  BY <1>2, NoneIsOpen
     DEF Numbered, ProcessSound, Placed, LoadedAnswered, SessionAgreed, OpenSound
<1> QED BY <1>1, <1>2, <1>3

LEMMA InitInv == Init => IInv
<1> SUFFICES ASSUME Init PROVE IInv
  OBVIOUS
<1>1. TypeOK
  BY EndedIsSound, GateAssumption DEF Init, TypeOK, Numbered
<1>2. FileAnswered
  BY DEF Init, FileAnswered
<1>3. \A p \in Procs : ProcessSound(consents, procs[p])
  BY EndedIsSound DEF Init
<1> QED BY <1>1, <1>2, <1>3 DEF IInv

(* What is known of a process before a step of it.                          *)
LEMMA ProcessKnown ==
  ASSUME IInv, NEW p \in Procs
  PROVE  /\ procs[p] \in Proc /\ procs[p].open \in OpenCalls /\ procs[p].calls \in Nat
         /\ Numbered(procs[p]) /\ ProcessSound(consents, procs[p]) /\ OpenSound(consents, procs[p])
         /\ \A i \in DOMAIN procs[p].open : procs[p].open[i] \in Open /\ i \in Int
<1>1. procs[p] \in Proc /\ Numbered(procs[p]) /\ ProcessSound(consents, procs[p])
  BY DEF IInv, TypeOK, Numbered
<1>2. procs[p].open \in OpenCalls /\ procs[p].calls \in Nat
  BY <1>1 DEF Proc
<1>3. \A i \in DOMAIN procs[p].open : procs[p].open[i] \in Open /\ i \in Int
  BY <1>2, OpenElim, NumbersAreInts
<1> QED BY <1>1, <1>2, <1>3 DEF ProcessSound

-----------------------------------------------------------------------------
(* A run begins with the rules of its own workspace, or none.               *)
LEMMA LaunchInv == ASSUME IInv, NEW p \in Procs, Launch(p) PROVE IInv' /\ RunsLive(procs[p], procs'[p])
<1>0. PICK w \in Workspaces, mode \in Modes[p], risk \in Classified[p] :
        \E loaded \in {{}, rules[w]} :
          procs' = [procs EXCEPT ![p] = [Ended EXCEPT
                      !.up = TRUE, !.ws = w, !.mode = mode, !.risk = risk, !.workspace = loaded]]
  BY DEF Launch
<1>1. PICK loaded \in {{}, rules[w]} :
        procs' = [procs EXCEPT ![p] = [Ended EXCEPT
                    !.up = TRUE, !.ws = w, !.mode = mode, !.risk = risk, !.workspace = loaded]]
  BY <1>0
<1> DEFINE x == [Ended EXCEPT !.up = TRUE, !.ws = w, !.mode = mode, !.risk = risk,
                              !.workspace = loaded]
<1>2. mode \in {"yes", "pipe", "tty"} /\ risk \in BOOLEAN /\ loaded \subseteq Keys
  BY GateAssumption DEF IInv, TypeOK
<1>3. x \in Proc
  BY <1>2, EndedIsSound DEF Proc
<1>4. x.ws = w /\ x.workspace = loaded /\ x.session = {} /\ x.open = NoneOpen
  BY EndedIsSound DEF Ended
<1> HIDE DEF x
<1>5. Numbered(x)
  BY <1>4, NoneIsOpen DEF Numbered
<1>6. ProcessSound(consents, x)
  <2>1. \A k \in loaded : Answered(consents, w, k)
    BY DEF IInv, FileAnswered
  <2> QED BY <1>4, <2>1, NoneIsOpen
          DEF ProcessSound, Placed, SessionAgreed, OpenSound, LoadedAnswered
<1>7. launches' \in 0..MaxLaunches /\ UNCHANGED <<rules, consents>>
  BY GateAssumption DEF Launch, IInv, TypeOK
<1>8. IInv' /\ procs'[p] = x
  <2>1. procs' = [procs EXCEPT ![p] = x]
    BY <1>1 DEF x
  <2>2. procs'[p] = x
    BY <2>1 DEF IInv, TypeOK
  <2>3. IInv'
    BY <2>1, <1>3, <1>5, <1>6, <1>7, OneMoves
  <2> QED BY <2>2, <2>3
<1> QED BY <1>4, <1>8, NoneIsOpen DEF RunsLive

LEMMA AsksForInv ==
  ASSUME IInv, NEW p \in Procs, NEW c \in Calls, AsksFor(p, c)
  PROVE  IInv' /\ RunsLive(procs[p], procs'[p])
<1> DEFINE n == procs[p].calls + 1
           f == procs[p].open
           g == With(f, n, Asked(c))
           x == [procs[p] EXCEPT !.calls = n, !.open = g]
<1>1. /\ procs[p] \in Proc /\ f \in OpenCalls /\ Numbered(procs[p]) /\ OpenSound(consents, procs[p])
      /\ procs[p].calls \in Nat
  BY ProcessKnown
<1>2. n \in Numbers /\ n \in Nat
  BY <1>1, GateAssumption DEF AsksFor, Numbers
<1>3. Asked(c) \in Open
  BY DEF Asked, Open, Unlabelled
<1>4. /\ g \in OpenCalls /\ DOMAIN g = DOMAIN f \cup {n} /\ g[n] = Asked(c)
      /\ \A i \in DOMAIN f \ {n} : g[i] = f[i]
  BY <1>1, <1>2, <1>3, WithAdds
<1>5. procs' = [procs EXCEPT ![p] = x]
  BY DEF AsksFor
<1>6. \A i \in DOMAIN f : i \in Int /\ i <= procs[p].calls /\ i # n /\ ~f[i].live
  BY <1>1, OpenElim, NumbersAreInts DEF Numbered, AsksFor, Waiting
<1>7. n = procs[p].calls + 1 /\ f = procs[p].open
  OBVIOUS
<1> HIDE DEF n, f, g
<1>8. x \in Proc
  BY <1>1, <1>2, <1>4 DEF Proc
<1>9. /\ x.calls = n /\ x.open = g /\ Same(procs[p], x)
      /\ x.workspace = procs[p].workspace /\ x.session = procs[p].session
  BY <1>1 DEF Proc, Same
<1> HIDE DEF x
<1>10. Numbered(x)
  BY <1>1, <1>2, <1>4, <1>6, <1>7, <1>9 DEF Numbered
<1>11. OpenSound(consents, x)
  <2>1. CallSound(consents, x, Asked(c))
    BY <1>9 DEF CallSound, Asked, Same, AsksFor
  <2>2. \A i \in DOMAIN f : CallSound(consents, x, f[i])
    BY <1>1, <1>7, <1>9, CallStaysSound DEF OpenSound
  <2> QED BY <1>4, <1>6, <1>9, <2>1, <2>2 DEF OpenSound
<1>12. IInv' /\ procs'[p] = x
  BY <1>5, <1>8, <1>9, <1>10, <1>11, CallsMove DEF AsksFor, IInv, TypeOK
<1>13. \A i \in DOMAIN f : f[i].stage = "runs" => f[i].live
  BY <1>1, <1>7 DEF OpenSound, CallSound
<1> QED BY <1>4, <1>6, <1>7, <1>9, <1>12, <1>13 DEF RunsLive, Asked

(* Calls leave, and are given up, but none comes or is taken up again.      *)
LEMMA Narrowed ==
  ASSUME NEW x, NEW y, Numbered(x), x.calls = y.calls, DOMAIN y.open \subseteq DOMAIN x.open,
         \A i \in DOMAIN y.open : y.open[i].live => x.open[i].live
  PROVE  Numbered(y)
  BY DEF Numbered

(* A classifier has a level, no level, or is not there.                     *)
LEMMA LabelsKnown ==
  ASSUME IInv, NEW p \in Procs, NEW c \in Calls, NEW label \in VerdictsOn(p, c)
  PROVE  /\ label \in Levels \cup {Unclassified, Unlabelled}
         /\ label \in Levels => procs[p].risk
<1>1. procs[p] \in Proc /\ procs[p].cache[c] \in Levels \cup {Unclassified}
  BY ProcessKnown DEF Proc
<1> QED BY <1>1 DEF VerdictsOn, Levels, Unclassified, Unlabelled

(* A call that is approved has the reason of its verdict.                   *)
LEMMA VerdictIsReason ==
  ASSUME IInv, NEW p \in Procs, NEW c \in Calls, NEW label \in VerdictsOn(p, c), procs[p].up,
         NEW o, o.call = c, o.by = Verdict(p, c, label), o.label = label,
         Verdict(p, c, label) \notin {"ask", "declined"}
  PROVE  Reason(consents, procs[p], o) /\ o.by \in {"safe", "yes", "rule"}
<1>1. procs[p] \in Proc /\ ProcessSound(consents, procs[p])
  BY ProcessKnown
<1>2. CASE o.by = "safe"
  <2>1. label = "safe"
    BY <1>2 DEF Verdict
  <2> QED BY <1>2, <2>1, LabelsKnown DEF Reason, Levels
<1>3. CASE o.by = "yes"
  <2>1. procs[p].mode = "yes"
    BY <1>3 DEF Verdict
  <2> QED BY <1>3, <2>1 DEF Reason
<1>4. CASE o.by = "rule"
  <2>1. procs[p].mode \notin {"yes", "pipe"} /\ Remembered(p, c) /\ ~ruleBlockedByRisk(label)
    BY <1>4 DEF Verdict
  <2>2. procs[p].mode = "tty"
    BY <1>1, <2>1 DEF Proc
  <2>3. \/ RuleKey(c) \in procs[p].agreed
        \/ \E y \in consents : y.ws = procs[p].ws /\ y.key = RuleKey(c)
    BY <1>1, <2>1 DEF Remembered, ProcessSound, SessionAgreed, LoadedAnswered, Answered
  <2> QED BY <1>4, <2>1, <2>2, <2>3 DEF Reason, ruleBlockedByRisk
<1>5. o.by \in {"safe", "yes", "rule"}
  BY DEF Verdict
<1> QED BY <1>2, <1>3, <1>4, <1>5

LEMMA ProcIntro ==
  ASSUME NEW y \in Proc, NEW h \in [Calls -> Levels \cup {Unclassified}],
         NEW r \in SUBSET Calls, NEW g \in OpenCalls
  PROVE  [y EXCEPT !.cache = h, !.reviewed = r, !.open = g] \in Proc
  BY DEF Proc

LEMMA InterruptIntro ==
  ASSUME NEW y \in Proc, NEW g \in OpenCalls, NEW n \in 0..1
  PROVE  [y EXCEPT !.interrupts = n, !.open = g] \in Proc
  BY DEF Proc

(* The gate records the call and asks, declines or approves.                *)
LEMMA GateInv ==
  ASSUME IInv, NEW p \in Procs, NEW i \in DOMAIN procs[p].open, Gate(p, i)
  PROVE  IInv' /\ RunsLive(procs[p], procs'[p])
<1> DEFINE f == procs[p].open
           c == f[i].call
<1>1. /\ procs[p] \in Proc /\ f \in OpenCalls /\ Numbered(procs[p]) /\ OpenSound(consents, procs[p])
      /\ f[i] \in Open /\ \A j \in DOMAIN f : f[j] \in Open
  BY ProcessKnown
<1>2. c \in Calls /\ procs[p].up /\ f[i].stage = "gate"
  BY <1>1 DEF Gate, Open, OpenSound, CallSound
<1>3. PICK label \in VerdictsOn(p, c), preview \in Previews(c) :
        procs' = [procs EXCEPT
          ![p].cache[c] = IF label \in Levels THEN label ELSE @,
          ![p].reviewed = IF Recorded(preview) THEN @ \cup {c} ELSE @,
          ![p].open = Decided(@, i, preview, Verdict(p, c, label), label)]
  BY DEF Gate
<1> DEFINE v == Verdict(p, c, label)
           g == Decided(f, i, preview, v, label)
           r == IF Recorded(preview) THEN procs[p].reviewed \cup {c} ELSE procs[p].reviewed
           h == [procs[p].cache EXCEPT ![c] = IF label \in Levels THEN label ELSE @]
           x == [procs[p] EXCEPT !.cache = h, !.reviewed = r, !.open = g]
<1>4. procs' = [procs EXCEPT ![p] = x]
  BY <1>3
<1>5. /\ r \subseteq Calls /\ procs[p].reviewed \subseteq r /\ (Recorded(preview) => c \in r)
      /\ h \in [Calls -> Levels \cup {Unclassified}]
  BY <1>1, <1>2 DEF Proc
<1> DEFINE P(o) == /\ o.call = c /\ o.preview = preview /\ o.live = f[i].live
                  /\ \/ o.stage = "answer"
                     \/ /\ o.stage = "runs" /\ o.live /\ o.label = label
                        /\ o.by = v /\ v \notin {"ask", "declined"}
<1>6. g = Without(f, i) \/ \E o \in Open : g = With(f, i, o) /\ P(o)
  <2> DEFINE o1 == [[f[i] EXCEPT !.preview = preview] EXCEPT !.stage = "answer"]
             o2 == [[f[i] EXCEPT !.preview = preview] EXCEPT !.stage = "runs", !.by = v, !.label = label]
  <2>0. preview \in Shown
    BY <1>3 DEF Previews, Shown
  <2>1. CASE v = "ask"
    <3>1. o1 \in Open /\ P(o1)
      BY <1>1, <2>0 DEF Open
    <3>2. g = With(f, i, o1)
      BY <2>1 DEF Decided
    <3> HIDE DEF o1, P, g
    <3> QED BY <3>1, <3>2
  <2>2. CASE v \notin {"ask", "declined"} /\ f[i].live
    <3>1. label \in Levels \cup {Unclassified, Unlabelled} /\ v \in {"safe", "yes", "rule"}
      BY <1>2, <2>2, LabelsKnown DEF Verdict
    <3>2. o2 \in Open
      BY <1>1, <2>0, <3>1 DEF Open
    <3>3. o2.call = c /\ o2.preview = preview /\ o2.live = f[i].live /\ o2.stage = "runs" /\ o2.label = label /\ o2.by = v
      BY <1>1 DEF Open
    <3>4. [f[i] EXCEPT !.preview = preview].live = f[i].live
      BY <1>1 DEF Open
    <3>5. g = With(f, i, o2)
      BY <2>2, <3>4 DEF Decided
    <3> HIDE DEF o2, v, g
    <3> QED BY <2>2, <3>2, <3>3, <3>5
  <2>3. CASE v # "ask" /\ ~(v \notin {"ask", "declined"} /\ f[i].live)
    <3>1. [f[i] EXCEPT !.preview = preview].live = f[i].live
      BY <1>1 DEF Open
    <3> QED BY <2>3, <3>1 DEF Decided
  <2> QED BY <2>1, <2>2, <2>3
<1>6a. /\ g \in OpenCalls /\ DOMAIN g \subseteq DOMAIN f
       /\ \A j \in DOMAIN g \ {i} : g[j] = f[j]
       /\ i \in DOMAIN g => P(g[i])
  <2> HIDE DEF g, P
  <2>1. CASE g = Without(f, i)
    BY <1>1, <2>1, WithoutKeeps
  <2>2. ASSUME NEW o \in Open, g = With(f, i, o), P(o)
        PROVE  /\ g \in OpenCalls /\ DOMAIN g \subseteq DOMAIN f /\ g[i] = o
               /\ \A j \in DOMAIN g \ {i} : g[j] = f[j]
    <3>1. i \in Numbers
      BY <1>1, OpenElim
    <3>2. /\ With(f, i, o) \in OpenCalls /\ DOMAIN With(f, i, o) = DOMAIN f \cup {i} /\ With(f, i, o)[i] = o
          /\ \A j \in DOMAIN f \ {i} : With(f, i, o)[j] = f[j]
      <4> HIDE DEF f
      <4> QED BY <1>1, <3>1, WithAdds
    <3>3. i \in DOMAIN f
      OBVIOUS
    <3> HIDE DEF f
    <3> QED BY <2>2, <3>2, <3>3
  <2> QED BY <1>6, <2>1, <2>2
<1>7. f = procs[p].open /\ c = f[i].call /\ v = Verdict(p, c, label)
  OBVIOUS
<1> HIDE DEF f, c, v, g, r, h
<1>8. x \in Proc
  BY <1>1, <1>5, <1>6a, ProcIntro
<1>9. /\ x.open = g /\ x.reviewed = r /\ Same(procs[p], x) /\ x.calls = procs[p].calls
      /\ x.workspace = procs[p].workspace /\ x.session = procs[p].session
  BY <1>1, <1>5 DEF Proc, Same
<1> HIDE DEF x
<1>10. Numbered(x)
  BY <1>1, <1>6a, <1>7, <1>9, Narrowed
<1>11. OpenSound(consents, x)
  <2>1. \A j \in DOMAIN f : CallSound(consents, x, f[j])
    BY <1>1, <1>7, <1>9, CallStaysSound DEF OpenSound
  <2>2. ASSUME i \in DOMAIN g PROVE CallSound(consents, x, g[i])
    <3>1. g[i].stage = "runs" => Reason(consents, procs[p], g[i])
      BY <1>2, <1>6a, <1>7, <2>2, VerdictIsReason
    <3>2. g[i].stage = "runs" => g[i].live /\ Reason(consents, x, g[i])
      BY <1>6a, <1>9, <2>2, <3>1 DEF Reason, Same
    <3> QED BY <1>2, <1>5, <1>6a, <1>9, <2>2, <3>2 DEF CallSound, Same
  <2> QED BY <1>6a, <1>9, <2>1, <2>2 DEF OpenSound
<1>12. IInv' /\ procs'[p] = x
  BY <1>4, <1>8, <1>9, <1>10, <1>11, CallsMove DEF Gate, IInv, TypeOK
<1>13. \A j \in DOMAIN f : f[j].stage = "runs" => f[j].live
  BY <1>1, <1>7 DEF OpenSound, CallSound
<1>14. \A j \in DOMAIN g : g[j].stage = "runs" =>
         j \in DOMAIN f /\ f[j].live /\ g[j].call = f[j].call
  BY <1>6a, <1>7, <1>13 DEF P
<1> QED BY <1>7, <1>9, <1>12, <1>14 DEF RunsLive

-----------------------------------------------------------------------------
(* What becomes of a call that is given up, or whose question is closed: it *)
(* is not what it was and may not be performed.                             *)
LessOf(o, q) ==
  /\ q.call = o.call /\ q.preview = o.preview /\ (q.live => o.live) /\ (q.stage = "gate" => o.stage = "gate")
  /\ (o.stage = "gate" => q.stage = "gate") /\ (q.stage = "runs" => q = o)

LEMMA LessMoves ==
  ASSUME IInv, NEW p \in Procs, NEW x \in Proc, DOMAIN x.open \subseteq DOMAIN procs[p].open,
         \A j \in DOMAIN x.open : LessOf(procs[p].open[j], x.open[j]),
         procs' = [procs EXCEPT ![p] = x], Same(procs[p], x), x.calls = procs[p].calls,
         x.workspace = procs[p].workspace, x.session = procs[p].session,
         UNCHANGED <<rules, consents, launches>>
  PROVE  IInv' /\ RunsLive(procs[p], procs'[p])
<1>1. procs[p] \in Proc /\ Numbered(procs[p]) /\ OpenSound(consents, procs[p])
  BY ProcessKnown
<1>2. Numbered(x)
  BY <1>1, Narrowed DEF LessOf
<1>3. OpenSound(consents, x)
  <2>1. ASSUME NEW j \in DOMAIN x.open PROVE CallSound(consents, x, x.open[j])
    <3>1. CallSound(consents, x, procs[p].open[j]) /\ LessOf(procs[p].open[j], x.open[j])
      BY <1>1, <2>1, CallStaysSound DEF OpenSound
    <3> QED BY <3>1 DEF CallSound, LessOf
  <2> QED BY <2>1 DEF OpenSound
<1>4. IInv' /\ procs'[p] = x
  BY <1>2, <1>3, CallsMove DEF IInv, TypeOK
<1>5. \A j \in DOMAIN procs[p].open : procs[p].open[j].stage = "runs" => procs[p].open[j].live
  BY <1>1 DEF OpenSound, CallSound
<1> QED BY <1>4, <1>5 DEF RunsLive, LessOf

LEMMA FewerCalls ==
  ASSUME IInv, NEW p \in Procs, NEW g \in OpenCalls, DOMAIN g \subseteq DOMAIN procs[p].open,
         \A j \in DOMAIN g : LessOf(procs[p].open[j], g[j]),
         procs' = [procs EXCEPT ![p] = [procs[p] EXCEPT !.open = g]],
         UNCHANGED <<rules, consents, launches>>
  PROVE  IInv' /\ RunsLive(procs[p], procs'[p])
<1> DEFINE x == [procs[p] EXCEPT !.open = g]
<1>1. procs[p] \in Proc
  BY ProcessKnown
<1>2. x \in Proc
  BY <1>1 DEF Proc
<1>3. /\ x.open = g /\ Same(procs[p], x) /\ x.calls = procs[p].calls
      /\ x.workspace = procs[p].workspace /\ x.session = procs[p].session
  BY <1>1 DEF Proc, Same
<1>4. procs' = [procs EXCEPT ![p] = x]
  OBVIOUS
<1> HIDE DEF x
<1> QED BY <1>2, <1>3, <1>4, LessMoves

LEMMA PerformInv ==
  ASSUME IInv, NEW p \in Procs, NEW i \in DOMAIN procs[p].open, Perform(p, i)
  PROVE  IInv' /\ RunsLive(procs[p], procs'[p])
<1> DEFINE f == procs[p].open
           g == Without(f, i)
<1>1. f \in OpenCalls
  BY ProcessKnown
<1>2. g \in OpenCalls /\ DOMAIN g \subseteq DOMAIN f /\ \A j \in DOMAIN g : g[j] = f[j]
  BY <1>1, WithoutKeeps
<1>3. procs' = [procs EXCEPT ![p] = [procs[p] EXCEPT !.open = g]]
  BY DEF Perform
<1> HIDE DEF g
<1>4. \A j \in DOMAIN g : LessOf(f[j], g[j])
  BY <1>2 DEF LessOf
<1> QED BY <1>2, <1>3, <1>4, FewerCalls DEF Perform

LEMMA GivenUpIsLess ==
  ASSUME NEW f \in OpenCalls
  PROVE  /\ GivenUp(f) \in OpenCalls /\ DOMAIN GivenUp(f) \subseteq DOMAIN f
         /\ \A j \in DOMAIN GivenUp(f) : LessOf(f[j], GivenUp(f)[j])
<1> DEFINE S == {j \in DOMAIN f : ~(f[j].live /\ f[j].stage \in {"runs", "closed"})}
<1>1. DOMAIN GivenUp(f) = S /\ \A j \in S : GivenUp(f)[j] = [f[j] EXCEPT !.live = FALSE]
  BY DEF GivenUp
<1>2. ASSUME NEW j \in S
      PROVE  [f[j] EXCEPT !.live = FALSE] \in Open /\ LessOf(f[j], [f[j] EXCEPT !.live = FALSE])
  <2> DEFINE q == [f[j] EXCEPT !.live = FALSE]
  <2>1. f[j] \in Open
    BY OpenElim
  <2>2. q \in Open /\ q.call = f[j].call /\ q.preview = f[j].preview /\ q.live = FALSE /\ q.stage = f[j].stage
    BY <2>1 DEF Open
  <2>3. q.stage = "runs" => q = f[j]
    <3>1. q.stage = "runs" => f[j].live = FALSE
      BY <2>1, <2>2 DEF Open
    <3>2. f[j].live = FALSE => q = f[j]
      BY <2>1 DEF Open
    <3> QED BY <3>1, <3>2
  <2> HIDE DEF q
  <2>4. LessOf(f[j], q)
    BY <2>2, <2>3 DEF LessOf
  <2> QED BY <2>2, <2>4 DEF q
<1>3. GivenUp(f) \in [S -> Open]
  BY <1>1, <1>2 DEF GivenUp
<1> QED BY <1>1, <1>2, <1>3, OpenElim, OpenIntro

LEMMA TimeoutInv == ASSUME IInv, NEW p \in Procs, Timeout(p) PROVE IInv' /\ RunsLive(procs[p], procs'[p])
<1> DEFINE f == procs[p].open
           g == GivenUp(f)
<1>1. f \in OpenCalls
  BY ProcessKnown
<1>2. g \in OpenCalls /\ DOMAIN g \subseteq DOMAIN f /\ \A j \in DOMAIN g : LessOf(f[j], g[j])
  BY <1>1, GivenUpIsLess
<1>3. procs' = [procs EXCEPT ![p] = [procs[p] EXCEPT !.open = g]]
  BY DEF Timeout
<1> HIDE DEF g
<1> QED BY <1>2, <1>3, FewerCalls DEF Timeout

LEMMA EndInv ==
  ASSUME IInv, NEW p \in Procs, End(p), UNCHANGED <<rules, launches, consents>>
  PROVE  IInv' /\ RunsLive(procs[p], procs'[p])
<1>1. IInv' /\ procs'[p] = Ended
  BY EndedIsSound, OneMoves DEF End, IInv, TypeOK
<1> QED BY <1>1, EndedIsSound, NoneIsOpen DEF RunsLive

(* Closing the questions: those of calls that were given up are over, and   *)
(* the one that is waited for stays, closed, until its budget.              *)
LEMMA ClosedIsLess ==
  ASSUME NEW f \in OpenCalls
  PROVE  LET S == {j \in DOMAIN f : Asking(f[j]) => f[j].live}
             g == [i \in S |-> IF Asking(f[i]) THEN [f[i] EXCEPT !.stage = "closed"] ELSE f[i]]
         IN  g \in OpenCalls /\ DOMAIN g \subseteq DOMAIN f /\ \A j \in DOMAIN g : LessOf(f[j], g[j])
<1> DEFINE S == {j \in DOMAIN f : Asking(f[j]) => f[j].live}
           g == [i \in S |-> IF Asking(f[i]) THEN [f[i] EXCEPT !.stage = "closed"] ELSE f[i]]
<1>1. ASSUME NEW j \in S PROVE g[j] \in Open /\ LessOf(f[j], g[j])
  <2>1. f[j] \in Open
    BY OpenElim
  <2>2. CASE Asking(f[j])
    <3> DEFINE q == [f[j] EXCEPT !.stage = "closed"]
    <3>1. q \in Open /\ q.call = f[j].call /\ q.preview = f[j].preview /\ q.live = f[j].live /\ q.stage = "closed"
      BY <2>1, <2>2 DEF Open, Asking
    <3>2. f[j].stage # "gate" /\ g[j] = q
      BY <2>2 DEF Asking
    <3> HIDE DEF q, g
    <3> QED BY <3>1, <3>2 DEF LessOf
  <2>3. CASE ~Asking(f[j])
    BY <2>1, <2>3 DEF LessOf
  <2> QED BY <2>2, <2>3
<1>2. DOMAIN g = S
  OBVIOUS
<1>3. g \in [S -> Open]
  BY <1>1
<1> HIDE DEF g
<1>4. g \in OpenCalls /\ DOMAIN g \subseteq DOMAIN f /\ \A j \in DOMAIN g : LessOf(f[j], g[j])
  BY <1>1, <1>2, <1>3, OpenElim, OpenIntro
<1> QED BY <1>4 DEF g

LEMMA InterruptInv == ASSUME IInv, NEW p \in Procs, Interrupt(p) PROVE IInv' /\ RunsLive(procs[p], procs'[p])
<1> DEFINE f == procs[p].open
           g == [i \in {j \in DOMAIN f : Asking(f[j]) => f[j].live} |->
                   IF Asking(f[i]) THEN [f[i] EXCEPT !.stage = "closed"] ELSE f[i]]
<1>1. f \in OpenCalls /\ procs[p] \in Proc
  BY ProcessKnown
<1>2. UNCHANGED <<rules, launches, consents>>
  BY DEF Interrupt
<1>3. CASE procs' = [procs EXCEPT ![p].open = g]
  <2>1. g \in OpenCalls /\ DOMAIN g \subseteq DOMAIN f /\ \A j \in DOMAIN g : LessOf(f[j], g[j])
    BY <1>1, ClosedIsLess
  <2>2. procs' = [procs EXCEPT ![p] = [procs[p] EXCEPT !.open = g]]
    BY <1>3
  <2> HIDE DEF g
  <2> QED BY <1>2, <2>1, <2>2, FewerCalls
<1>4. CASE procs' = [procs EXCEPT ![p].interrupts = 1, ![p].open = GivenUp(@)]
  <2> DEFINE h == GivenUp(f)
             x == [procs[p] EXCEPT !.interrupts = 1, !.open = h]
  <2>1. h \in OpenCalls /\ DOMAIN h \subseteq DOMAIN f /\ \A j \in DOMAIN h : LessOf(f[j], h[j])
    BY <1>1, GivenUpIsLess
  <2>2. procs' = [procs EXCEPT ![p] = x]
    BY <1>4
  <2> HIDE DEF h
  <2>3. x \in Proc
    <3>1. 1 \in 0..1
      OBVIOUS
    <3> HIDE DEF f
    <3> QED BY <1>1, <2>1, <3>1, InterruptIntro
  <2>4. /\ x.open = h /\ Same(procs[p], x) /\ x.calls = procs[p].calls
        /\ x.workspace = procs[p].workspace /\ x.session = procs[p].session
    BY <1>1 DEF Proc, Same
  <2> HIDE DEF x
  <2> QED BY <1>2, <2>1, <2>2, <2>3, <2>4, LessMoves
<1>5. CASE End(p)
  BY <1>2, <1>5, EndInv
<1> QED BY <1>3, <1>4, <1>5 DEF Interrupt

LEMMA ExitInv == ASSUME IInv, NEW p \in Procs, Exit(p) PROVE IInv' /\ RunsLive(procs[p], procs'[p])
  BY EndInv DEF Exit

-----------------------------------------------------------------------------
(* A line of the human's: what it adds to the rules of the workspace is     *)
(* what it consents to, whatever else it answers.                           *)
LEMMA PersistsIsAnswered ==
  ASSUME NEW p \in Procs, NEW o, NEW line, Persists(p, o, line),
         NEW K, [ws |-> procs[p].ws, key |-> RuleKey(o.call),
                 again |-> o.stage = "widen" \/ procs[p].risk] \in K
  PROVE  Answered(K, procs[p].ws, RuleKey(o.call))
<1>1. RuleKey(o.call)[1] = o.call.tool
  BY DEF RuleKey
<1>2. o.call.tool \in Commands => o.stage = "widen" \/ procs[p].risk
  BY DEF Persists, needsWideningConfirmation
<1> QED BY <1>1, <1>2 DEF Answered

(* What a line makes of an open call: it stays, its question is asked       *)
(* again, or it is performed, and then it was not given up.                 *)
LEMMA AfterLineIs ==
  ASSUME NEW p \in Procs, NEW o \in Open, NEW line, ~Leaves(p, o, line)
  PROVE  LET q == AfterLine(p, o, line) IN
         /\ q \in Open /\ q.call = o.call /\ q.preview = o.preview /\ q.live = o.live
         /\ \/ q = o
            \/ o.stage # "gate" /\ q.stage = "widen"
            \/ o.stage # "gate" /\ q.stage = "runs" /\ q.by = "human" /\ o.live
<1>1. CASE ~Asking(o)
  BY <1>1 DEF AfterLine
<1>2. CASE Asking(o) /\ Widens(p, o, line)
  <2> DEFINE q == [o EXCEPT !.stage = "widen"]
  <2>1. q \in Open /\ q.call = o.call /\ q.preview = o.preview /\ q.live = o.live /\ q.stage = "widen"
    BY <1>2 DEF Open, Asking
  <2>2. AfterLine(p, o, line) = q /\ o.stage # "gate"
    BY <1>2 DEF AfterLine, Asking
  <2> HIDE DEF q
  <2> QED BY <2>1, <2>2
<1>3. CASE Asking(o) /\ ~Widens(p, o, line)
  <2> DEFINE q == [o EXCEPT !.stage = "runs", !.by = "human"]
  <2>1. /\ q \in Open /\ q.call = o.call /\ q.preview = o.preview /\ q.live = o.live
        /\ q.stage = "runs" /\ q.by = "human"
    BY <1>3 DEF Open, Asking
  <2>2. AfterLine(p, o, line) = q /\ o.stage # "gate" /\ o.live
    BY <1>3 DEF AfterLine, Asking, Leaves
  <2> HIDE DEF q
  <2> QED BY <2>1, <2>2
<1> QED BY <1>1, <1>2, <1>3

LEMMA LineIntro ==
  ASSUME NEW y \in Proc, NEW g \in OpenCalls, NEW a \in SUBSET Keys, NEW b \in SUBSET Keys
  PROVE  [y EXCEPT !.open = g, !.session = @ \cup a, !.agreed = @ \cup a, !.workspace = @ \cup b] \in Proc
  BY DEF Proc

LEMMA LineInv == ASSUME IInv, NEW p \in Procs, NEW line, Line(p, line) PROVE IInv' /\ RunsLive(procs[p], procs'[p])
<1> DEFINE f == procs[p].open
           answered == {f[i] : i \in {j \in DOMAIN f : Asking(f[j])}}
           new == {RuleKey(o.call) : o \in {z \in answered : Persists(p, z, line)}}
           here == {RuleKey(o.call) : o \in {z \in answered : LearnsHere(z, line)}}
           S == {j \in DOMAIN f : ~Leaves(p, f[j], line)}
           g == [i \in S |-> AfterLine(p, f[i], line)]
           C == {[ws |-> procs[p].ws, key |-> RuleKey(o.call),
                  again |-> o.stage = "widen" \/ procs[p].risk] : o \in {z \in answered : Persists(p, z, line)}}
           x == [procs[p] EXCEPT !.open = g, !.session = @ \cup here, !.agreed = @ \cup here,
                                 !.workspace = @ \cup new]
           ws == procs[p].ws
<1>1. /\ procs[p] \in Proc /\ f \in OpenCalls /\ Numbered(procs[p])
      /\ ProcessSound(consents, procs[p]) /\ OpenSound(consents, procs[p])
      /\ \A j \in DOMAIN f : f[j] \in Open
  BY ProcessKnown
<1>2. /\ answered # {} /\ procs' = [procs EXCEPT ![p] = x]
      /\ rules' = rules \/ rules' = (IF new = {} THEN rules ELSE Persist(p, procs[p].workspace, new))
      /\ consents' = consents \cup C /\ launches' = launches
  BY DEF Line
<1>3. procs[p].up /\ ws \in Workspaces
  BY <1>1, <1>2 DEF OpenSound, CallSound, ProcessSound, Placed
<1>4. \A o \in answered : o.call \in Calls
  BY <1>1 DEF Open
<1>5. new \in SUBSET Keys /\ here \in SUBSET Keys
  BY <1>4 DEF Keys, Persists, LearnsHere
<1>6. C \subseteq Consent
  <2>1. ASSUME NEW o \in answered, Persists(p, o, line)
        PROVE  [ws |-> ws, key |-> RuleKey(o.call), again |-> o.stage = "widen" \/ procs[p].risk] \in Consent
    <3>1. RuleKey(o.call) \in Keys
      BY <1>4, <2>1 DEF Keys, Persists
    <3>2. (o.stage = "widen" \/ procs[p].risk) \in BOOLEAN
      BY <1>1 DEF Proc
    <3> QED BY <1>3, <3>1, <3>2 DEF Consent
  <2> QED BY <2>1
<1>7. \A k \in new : Answered(consents', ws, k)
  BY <1>2, PersistsIsAnswered
<1>8. \A j \in S : /\ g[j] \in Open /\ g[j].call = f[j].call /\ g[j].preview = f[j].preview /\ g[j].live = f[j].live
                   /\ \/ g[j] = f[j]
                      \/ f[j].stage # "gate" /\ g[j].stage = "widen"
                      \/ f[j].stage # "gate" /\ g[j].stage = "runs" /\ g[j].by = "human" /\ f[j].live
  BY <1>1, AfterLineIs
<1>9. g \in OpenCalls /\ DOMAIN g = S /\ S \subseteq DOMAIN f
  <2>1. g \in [S -> Open] /\ S \in SUBSET Numbers
    BY <1>1, <1>8, OpenElim
  <2> QED BY <2>1, OpenIntro
<1>10. f = procs[p].open /\ ws = procs[p].ws
  OBVIOUS
<1> HIDE DEF f, answered, new, here, S, g, C, ws
<1>11. x \in Proc
  BY <1>1, <1>5, <1>9, LineIntro
<1>12. /\ x.open = g /\ Same(procs[p], x) /\ x.calls = procs[p].calls /\ x.ws = ws
       /\ x.workspace = procs[p].workspace \cup new /\ x.session = procs[p].session \cup here
       /\ x.agreed = procs[p].agreed \cup here /\ x.up
  BY <1>1, <1>3, <1>10 DEF Proc, Same
<1> HIDE DEF x
<1>13. procs' \in [Procs -> Proc] /\ procs'[p] = x /\ \A q \in Procs \ {p} : procs'[q] = procs[q]
  BY <1>2, <1>11 DEF IInv, TypeOK
<1>14. Numbered(x)
  BY <1>1, <1>8, <1>9, <1>10, <1>12, Narrowed
<1>15. rules' \in [Workspaces -> SUBSET Keys]
  <2>1. procs[p].workspace \subseteq Keys
    BY <1>1 DEF Proc
  <2>2. rules \in [Workspaces -> SUBSET Keys]
    BY DEF IInv, TypeOK
  <2> QED BY <1>2, <1>5, <2>1, <2>2 DEF Persist
<1>16. TypeOK'
  <2>1. launches' \in 0..MaxLaunches /\ consents' \subseteq Consent
    BY <1>2, <1>6 DEF IInv, TypeOK
  <2>2. \A q \in Procs : Numbered(procs'[q])
    BY <1>13, <1>14, ProcessKnown
  <2> QED BY <1>13, <1>15, <2>1, <2>2 DEF TypeOK, Numbered
<1>17. consents \subseteq consents'
  BY <1>2
<1>18. LoadedAnswered(consents', x)
  <2>1. \A k \in procs[p].workspace : Answered(consents', ws, k)
    BY <1>1, <1>3, <1>10, <1>17, AnsweredStays DEF ProcessSound, LoadedAnswered
  <2> QED BY <1>7, <1>12, <2>1 DEF LoadedAnswered
<1>19. FileAnswered'
  <2>1. \A w \in Workspaces : \A k \in rules[w] : Answered(consents', w, k)
    BY <1>17, AnsweredStays DEF IInv, FileAnswered
  <2>2. \A k \in procs[p].workspace \cup new : Answered(consents', ws, k)
    BY <1>12, <1>18 DEF LoadedAnswered
  <2>3. CASE rules' = Persist(p, procs[p].workspace, new)
    <3>1. ASSUME NEW w \in Workspaces, NEW k \in rules'[w] PROVE Answered(consents', w, k)
      <4>1. w = ws /\ k \in procs[p].workspace \cup new
        BY <1>10, <2>3, <3>1 DEF Persist
      <4> QED BY <2>2, <4>1
    <3> QED BY <3>1 DEF FileAnswered
  <2>4. CASE rules' = rules
    BY <2>1, <2>4 DEF FileAnswered
  <2> QED BY <1>2, <2>3, <2>4
<1>20. OpenSound(consents', x)
  <2>1. ASSUME NEW j \in DOMAIN g PROVE CallSound(consents', x, g[j])
    <3>1. CallSound(consents', x, f[j])
      BY <1>1, <1>9, <1>10, <1>12, <1>17, <2>1, CallStaysSound DEF OpenSound
    <3> QED BY <1>8, <1>9, <2>1, <3>1 DEF CallSound, Reason
  <2> QED BY <1>12, <2>1 DEF OpenSound
<1>21. ProcessSound(consents', x)
  BY <1>1, <1>3, <1>10, <1>12, <1>18, <1>20 DEF ProcessSound, Placed, SessionAgreed
<1>22. \A q \in Procs : ProcessSound(consents', procs'[q])
  BY <1>13, <1>17, <1>21, BystanderKeeps DEF IInv
<1>23. \A j \in DOMAIN f : f[j].stage = "runs" => f[j].live
  BY <1>1, <1>10 DEF OpenSound, CallSound
<1>24. RunsLive(procs[p], procs'[p])
  BY <1>8, <1>9, <1>10, <1>12, <1>13, <1>23 DEF RunsLive
<1> QED BY <1>16, <1>19, <1>22, <1>24 DEF IInv

(* Only a line writes the file, and what the process knew is written again. *)
LEMMA LineKeeps ==
  ASSUME IInv, NEW p \in Procs, NEW line, Line(p, line)
  PROVE  procs[p].workspace \cap rules[procs[p].ws] \subseteq rules'[procs[p].ws]
<1>1. PICK known, new : known = procs[p].workspace /\ (rules' = rules \/ rules' = Persist(p, known, new))
  BY DEF Line
<1>2. procs[p].ws \in Workspaces
  <2>1. procs[p].up
    BY ProcessKnown DEF Line, OpenSound, CallSound
  <2> QED BY <2>1, ProcessKnown DEF ProcessSound, Placed
<1> QED BY <1>1, <1>2 DEF Persist

-----------------------------------------------------------------------------
(* A step is one of one process.                                            *)
Step(p) ==
  \/ Launch(p)
  \/ \E c \in Calls : AsksFor(p, c)
  \/ \E i \in DOMAIN procs[p].open : Gate(p, i) \/ Perform(p, i)
  \/ \E line \in {"y", "a", "p", "n"} : Line(p, line)
  \/ Timeout(p) \/ Interrupt(p) \/ Exit(p)

LEMMA StepInv ==
  ASSUME IInv, NEW p \in Procs, Step(p)
  PROVE  /\ IInv' /\ RunsLive(procs[p], procs'[p])
         /\ \A q \in Procs \ {p} : procs'[q] = procs[q]
<1>1. IInv' /\ RunsLive(procs[p], procs'[p])
  BY LaunchInv, AsksForInv, GateInv, PerformInv, LineInv, TimeoutInv, InterruptInv, ExitInv DEF Step
<1>2. \A q \in Procs \ {p} : procs'[q] = procs[q]
  <2>1. procs \in [Procs -> Proc]
    BY DEF IInv, TypeOK
  <2> QED BY <2>1 DEF Step, Launch, AsksFor, Gate, Perform, Line, Timeout, Interrupt, Exit, End
<1> QED BY <1>1, <1>2

LEMMA NextIsStep == Next => \E p \in Procs : Step(p)
  BY DEF Next, Step

LEMMA NextInv == IInv /\ [Next]_vars => IInv'
<1> SUFFICES ASSUME IInv, [Next]_vars PROVE IInv'
  OBVIOUS
<1>1. CASE UNCHANGED vars
  BY <1>1 DEF vars, IInv, TypeOK, FileAnswered
<1>2. CASE Next
  BY <1>2, NextIsStep, StepInv
<1> QED BY <1>1, <1>2

LEMMA Invariance == Spec => []IInv
  BY InitInv, NextInv, PTL DEF Spec

(* The state keeps its shape: a process waits for one call at a time, and   *)
(* the calls it has open are among those it was asked for.                  *)
THEOREM TypeCorrect == Spec => []TypeOK
<1>1. IInv => TypeOK
  BY DEF IInv
<1> QED BY <1>1, Invariance, PTL

(* A rule on file, or in a process, was answered in its own workspace for   *)
(* that very target, and a command's was asked about twice.                 *)
THEOREM RulesStaySound == Spec => []RulesAreSound
<1>1. IInv => RulesAreSound
  <2> SUFFICES ASSUME IInv PROVE RulesAreSound
    OBVIOUS
  <2>1. RulesComeFromAnswers
    <3>1. \A w, k : Answered(consents, w, k) => k \in {y.key : y \in {z \in consents : z.ws = w}}
      BY DEF Answered
    <3>2. \A w \in Workspaces : rules[w] \subseteq {y.key : y \in {z \in consents : z.ws = w}}
      BY <3>1 DEF IInv, FileAnswered
    <3>3. \A p \in Procs : procs[p].up =>
            /\ procs[p].workspace \subseteq {y.key : y \in {z \in consents : z.ws = procs[p].ws}}
            /\ procs[p].session \subseteq procs[p].agreed
      BY <3>1 DEF IInv, ProcessSound, LoadedAnswered, SessionAgreed
    <3> QED BY <3>2, <3>3 DEF RulesComeFromAnswers
  <2>2. CommandRulesAskedTwice
    BY DEF IInv, FileAnswered, Answered, CommandRulesAskedTwice
  <2> QED BY <2>1, <2>2 DEF IInv, RulesAreSound
<1> QED BY <1>1, Invariance, PTL

(* What runs unasked has a reason to, and the reviewer sees what ran.       *)
THEOREM DecisionsStaySound == Spec => []DecisionsAreSound
<1>1. IInv => DecisionsAreSound
  <2> SUFFICES ASSUME IInv PROVE DecisionsAreSound
    OBVIOUS
  <2>1. \A p \in Procs : \A o \in Running(p) : CallSound(consents, procs[p], o) /\ o.stage = "runs"
    BY ProcessKnown DEF OpenSound, Running
  <2>2. UnaskedCallsAreSound
    BY <2>1 DEF UnaskedCallsAreSound, CallSound, Reason
  <2>3. ReviewSeesChanges
    <3>1. \A p \in Procs : \A o \in Running(p) : o.call.tool \in Commands => o.preview = "command"
      BY <2>1, ProcessKnown DEF Running, Open, Previews
    <3> QED BY <2>1, <3>1 DEF ReviewSeesChanges, CallSound, Recorded
  <2> QED BY <2>2, <2>3 DEF DecisionsAreSound
<1> QED BY <1>1, Invariance, PTL

(* What a process knows of its workspace's rules it never takes off the     *)
(* file, and what was given up is never performed.                          *)
THEOREM AnswersStay == Spec => AnswersLast
<1> DEFINE Kept == \A p \in Procs :
             procs[p].up /\ procs'[p] # procs[p] =>
               procs[p].workspace \cap rules[procs[p].ws] \subseteq rules'[procs[p].ws]
           Waited == \A p \in Procs : \A i \in DOMAIN procs[p].open' :
             procs[p].open[i].stage' = "runs" =>
               i \in DOMAIN procs[p].open /\ procs[p].open[i].live
               /\ procs[p].open[i].call' = procs[p].open[i].call
<1>1. IInv /\ [Next]_vars => [Kept]_vars
  <2> SUFFICES ASSUME IInv, NEW p \in Procs, Step(p), NEW q \in Procs,
                      procs[q].up, procs'[q] # procs[q]
               PROVE  procs[q].workspace \cap rules[procs[q].ws] \subseteq rules'[procs[q].ws]
    BY NextIsStep
  <2>1. q = p
    BY StepInv
  <2>2. CASE \E line \in {"y", "a", "p", "n"} : Line(p, line)
    BY <2>1, <2>2, LineKeeps
  <2>3. CASE rules' = rules
    BY <2>3
  <2> QED BY <2>2, <2>3 DEF Step, Launch, AsksFor, Gate, Perform, Timeout, Interrupt, Exit
<1>2. IInv /\ [Next]_vars => [Waited]_vars
  <2> SUFFICES ASSUME IInv, NEW p \in Procs, Step(p), NEW q \in Procs
               PROVE  RunsLive(procs[q], procs'[q])
    BY NextIsStep DEF RunsLive
  <2>1. CASE q = p
    BY <2>1, StepInv
  <2>2. CASE q # p
    <3>1. procs'[q] = procs[q] /\ OpenSound(consents, procs[q])
      BY <2>2, StepInv, ProcessKnown
    <3> QED BY <3>1 DEF RunsLive, OpenSound, CallSound
  <2> QED BY <2>1, <2>2
<1>3. Spec => [][Kept]_vars /\ [][Waited]_vars
  BY <1>1, <1>2, Invariance, PTL DEF Spec
<1> QED BY <1>3 DEF AnswersLast, KnownRulesAreKept, GivenUpNeverRuns

-----------------------------------------------------------------------------
(***************************************************************************)
(* The tool loop. Its history stands for everything that was said: each    *)
(* position of the full transcript is in a message, a message that is no   *)
(* digest is later than all before it, and calls sit with their results.   *)
(* The two steps that could break this are a batch that ends, which puts   *)
(* one result per call behind the answer that asked, and a compaction,     *)
(* which leaves out whole units in front and puts a digest where each      *)
(* began. What a compaction leaves is numbered by the places of the        *)
(* numbers that stay, so first come facts about those.                     *)
(***************************************************************************)

-----------------------------------------------------------------------------
(* Numbers: least, largest, and the places of some numbers among them.       *)

(* Numbers have a least one.                                                 *)
LEMMA LeastOf ==
  ASSUME NEW T, T \subseteq Nat, T # {}
  PROVE  \E x \in T : \A y \in T : x <= y
<1>1. PICK x \in T : \A y \in T : ~(<<y, x>> \in OpToRel(<, Nat))
  BY WFMin, NatLessThanWellFounded, Zenon
<1>2. \A y \in T : <<y, x>> \in Nat \X Nat /\ <<y, x>>[1] = y /\ <<y, x>>[2] = x
  OBVIOUS
<1>3. \A y \in T : ~(<<y, x>>[1] < <<y, x>>[2])
  BY <1>1, <1>2, Zenon DEF OpToRel
<1>4. \A y \in T : ~(y < x)
  BY <1>2, <1>3
<1> QED BY <1>4

LEMMA MinIs ==
  ASSUME NEW T, T \subseteq Nat, T # {}
  PROVE  Min(T) \in T /\ \A y \in T : Min(T) <= y
<1>1. \E x \in T : \A y \in T : x <= y
  BY LeastOf
<1> QED BY <1>1 DEF Min

(* Bounded numbers have a largest one.                                       *)
LEMMA MaxIs ==
  ASSUME NEW T, T \subseteq Nat, T # {}, NEW n \in Nat, \A x \in T : x <= n
  PROVE  Max(T) \in T /\ \A y \in T : y <= Max(T)
<1> DEFINE B == {m \in Nat : \A x \in T : x <= m}
<1>1. PICK b \in B : \A m \in B : b <= m
  <2>1. n \in B
    OBVIOUS
  <2>2. B \subseteq Nat
    OBVIOUS
  <2> QED BY <2>1, <2>2, LeastOf
<1>2. b \in Nat /\ \A x \in T : x <= b
  BY <1>1
<1>3. b \in T
  <2> SUFFICES ASSUME b \notin T PROVE FALSE
    OBVIOUS
  <2>1. \A x \in T : x \in Nat /\ x < b
    BY <1>2
  <2> HIDE DEF B
  <2>0. PICK t \in T : TRUE
    OBVIOUS
  <2>2. b # 0 /\ b - 1 \in Nat
    BY <2>0, <2>1, <1>2
  <2>3. \A x \in T : x <= b - 1
    BY <2>1, <1>2
  <2>4. b - 1 \in B
    BY <2>2, <2>3 DEF B
  <2> QED BY <1>1, <2>4, <1>2
<1>4. \E x \in T : \A y \in T : x >= y
  BY <1>2, <1>3
<1>5. Max(T) \in T /\ \A y \in T : Max(T) >= y
  BY <1>4 DEF Max
<1> QED BY <1>5

UpToIn(L, i) == {j \in L : j <= i}

(* Counting up to a number never goes down.                                  *)
LEMMA CountsUp ==
  ASSUME NEW N \in Nat, NEW L \in SUBSET (1..N)
  PROVE  /\ IsFiniteSet(L) /\ Cardinality(L) \in Nat
         /\ \A i : IsFiniteSet(UpToIn(L, i)) /\ Cardinality(UpToIn(L, i)) \in 0..Cardinality(L)
         /\ \A i \in L : Cardinality(UpToIn(L, i)) \in 1..Cardinality(L)
<1>1. IsFiniteSet(1..N)
  BY FS_Interval
<1>2. IsFiniteSet(L) /\ Cardinality(L) \in Nat
  BY <1>1, FS_Subset, FS_CardinalityType
<1>3. ASSUME NEW i PROVE IsFiniteSet(UpToIn(L, i)) /\ Cardinality(UpToIn(L, i)) \in 0..Cardinality(L)
  <2>1. UpToIn(L, i) \in SUBSET L
    BY DEF UpToIn
  <2>2. IsFiniteSet(UpToIn(L, i)) /\ Cardinality(UpToIn(L, i)) <= Cardinality(L)
    BY <1>2, <2>1, FS_Subset
  <2>3. Cardinality(UpToIn(L, i)) \in Nat
    BY <2>2, FS_CardinalityType
  <2> QED BY <1>2, <2>2, <2>3
<1>4. ASSUME NEW i \in L PROVE Cardinality(UpToIn(L, i)) # 0
  <2>1. i \in UpToIn(L, i)
    BY DEF UpToIn
  <2> QED BY <2>1, <1>3, FS_EmptySet
<1>5. ASSUME NEW i \in L PROVE Cardinality(UpToIn(L, i)) \in 1..Cardinality(L)
  BY <1>2, <1>3, <1>4
<1> QED BY <1>2, <1>3, <1>5

LEMMA CountIs ==
  ASSUME NEW N \in Nat, NEW L \in SUBSET (1..N), NEW i
  PROVE  /\ IsFiniteSet(UpToIn(L, i)) /\ Cardinality(UpToIn(L, i)) \in Nat
         /\ Cardinality(UpToIn(L, i)) <= Cardinality(L)
<1>1. IsFiniteSet(L) /\ Cardinality(L) \in Nat /\ IsFiniteSet(UpToIn(L, i)) /\ Cardinality(UpToIn(L, i)) \in 0..Cardinality(L)
  BY CountsUp, Zenon
<1> QED BY <1>1

(* A stretch of the numbers counts on by its length.                        *)
LEMMA CountsOn ==
  ASSUME NEW N \in Nat, NEW L \in SUBSET (1..N), NEW i \in Nat, NEW m \in Nat, i+1..i+m \subseteq L
  PROVE  Cardinality(UpToIn(L, i + m)) = Cardinality(UpToIn(L, i)) + m
<1>1. UpToIn(L, i + m) = UpToIn(L, i) \cup (i+1..i+m)
  <2>1. \A x \in L : x \in Nat
    OBVIOUS
  <2>2. \A x \in L : x <= i + m <=> x <= i \/ x \in i+1..i+m
    BY <2>1
  <2>3. UpToIn(L, i + m) = {x \in L : x <= i \/ x \in i+1..i+m}
    BY <2>2 DEF UpToIn
  <2>4. UpToIn(L, i) = {x \in L : x <= i}
    BY DEF UpToIn
  <2> QED BY <2>3, <2>4
<1>2. UpToIn(L, i) \cap (i+1..i+m) = {}
  BY DEF UpToIn
<1>3. IsFiniteSet(UpToIn(L, i)) /\ Cardinality(UpToIn(L, i)) \in Nat
  BY CountIs
<1>4. IsFiniteSet(i+1..i+m) /\ Cardinality(i+1..i+m) = m
  <2>1. i + 1 \in Int /\ i + m \in Int
    OBVIOUS
  <2>2. IsFiniteSet(i+1..i+m) /\ Cardinality(i+1..i+m) = IF i + 1 > i + m THEN 0 ELSE (i + m) - (i + 1) + 1
    BY <2>1, FS_Interval
  <2> QED BY <2>2
<1>5. Cardinality(UpToIn(L, i) \cup (i+1..i+m)) =
        Cardinality(UpToIn(L, i)) + Cardinality(i+1..i+m) - Cardinality(UpToIn(L, i) \cap (i+1..i+m))
  BY <1>3, <1>4, FS_Union
<1>6. Cardinality(UpToIn(L, i) \cap (i+1..i+m)) = 0
  BY <1>2, FS_EmptySet
<1>7. Cardinality(UpToIn(L, i) \cup (i+1..i+m)) = Cardinality(UpToIn(L, i)) + m
  BY <1>3, <1>4, <1>5, <1>6
<1> QED BY <1>1, <1>7, Zenon

LEMMA CountsGrow ==
  ASSUME NEW N \in Nat, NEW L \in SUBSET (1..N), NEW i \in L, NEW j \in L, i < j
  PROVE  Cardinality(UpToIn(L, i)) < Cardinality(UpToIn(L, j))
<1>1. IsFiniteSet(UpToIn(L, i)) /\ IsFiniteSet(UpToIn(L, j)) /\ Cardinality(UpToIn(L, i)) \in Nat /\ Cardinality(UpToIn(L, j)) \in Nat
  BY CountIs
<1>0. \A x \in L : x \in Nat
  OBVIOUS
<1>2. UpToIn(L, i) \in SUBSET UpToIn(L, j) /\ j \in UpToIn(L, j) /\ j \notin UpToIn(L, i)
  <2>1. i \in Nat /\ j \in Nat /\ ~(j <= i) /\ j <= j
    BY <1>0
  <2>2. \A x \in L : x <= i => x <= j
    BY <1>0, <2>1
  <2> QED BY <2>1, <2>2 DEF UpToIn
<1>3. Cardinality(UpToIn(L, i)) <= Cardinality(UpToIn(L, j)) /\ (Cardinality(UpToIn(L, j)) = Cardinality(UpToIn(L, i)) => UpToIn(L, j) = UpToIn(L, i))
  BY <1>1, <1>2, FS_Subset
<1> QED BY <1>1, <1>2, <1>3

PlaceIn(L, k) == CHOOSE i \in L : Cardinality(UpToIn(L, i)) = k

(* Every place up to the count is taken by one of the numbers.               *)
LEMMA EveryPlace ==
  ASSUME NEW N \in Nat, NEW L \in SUBSET (1..N), NEW k \in 1..Cardinality(L)
  PROVE  PlaceIn(L, k) \in L /\ Cardinality(UpToIn(L, PlaceIn(L, k))) = k
<1> DEFINE f == [i \in L |-> Cardinality(UpToIn(L, i))]
           n == Cardinality(L)
<1>1. IsFiniteSet(L) /\ n \in Nat
  BY CountsUp
<1>2. \A i \in L : Cardinality(UpToIn(L, i)) \in 1..n
  BY CountsUp
<1>3. \A i, j \in L : f[i] = f[j] => i = j
  <2> SUFFICES ASSUME NEW i \in L, NEW j \in L, i # j PROVE f[i] # f[j]
    OBVIOUS
  <2>1. Cardinality(UpToIn(L, i)) \in Nat /\ Cardinality(UpToIn(L, j)) \in Nat
    BY <1>1, <1>2
  <2>2. CASE i < j
    <3>1. Cardinality(UpToIn(L, i)) < Cardinality(UpToIn(L, j))
      BY <2>2, CountsGrow
    <3> QED BY <3>1, <2>1
  <2>3. CASE j < i
    <3>1. Cardinality(UpToIn(L, j)) < Cardinality(UpToIn(L, i))
      BY <2>3, CountsGrow
    <3> QED BY <3>1, <2>1
  <2> QED BY <2>2, <2>3
<1>4. f \in [L -> 1..n]
  BY <1>2
<1>5. f \in Injection(L, 1..n)
  <2> HIDE DEF f
  <2> QED BY <1>3, <1>4 DEF Injection, IsInjective
<1>6. IsFiniteSet(1..n) /\ Cardinality(1..n) = n
  <2>1. IsFiniteSet(1..n) /\ Cardinality(1..n) = IF 1 > n THEN 0 ELSE n - 1 + 1
    BY <1>1, FS_Interval
  <2> QED BY <1>1, <2>1
<1>7. f \in Surjection(L, 1..n)
  <2> HIDE DEF f
  <2> QED BY <1>5, <1>6, FS_Injection
<1>8. PICK p \in L : f[p] = k
  <2> HIDE DEF f
  <2> QED BY <1>7 DEF Surjection
<1>9. \E i \in L : Cardinality(UpToIn(L, i)) = k
  BY <1>8
<1> QED BY <1>9 DEF PlaceIn

(* Later places have larger numbers.                                         *)
LEMMA PlacesInOrder ==
  ASSUME NEW N \in Nat, NEW L \in SUBSET (1..N), NEW k \in 1..Cardinality(L), NEW l \in 1..Cardinality(L)
  PROVE  k < l <=> PlaceIn(L, k) < PlaceIn(L, l)
<1>1. /\ PlaceIn(L, k) \in L /\ Cardinality(UpToIn(L, PlaceIn(L, k))) = k
      /\ PlaceIn(L, l) \in L /\ Cardinality(UpToIn(L, PlaceIn(L, l))) = l
  BY EveryPlace
<1> DEFINE a == PlaceIn(L, k)
           b == PlaceIn(L, l)
<1>2. a \in L /\ b \in L /\ a \in Nat /\ b \in Nat /\ Cardinality(UpToIn(L, a)) = k /\ Cardinality(UpToIn(L, b)) = l
  <2>1. a \in L /\ b \in L /\ Cardinality(UpToIn(L, a)) = k /\ Cardinality(UpToIn(L, b)) = l
    BY <1>1
  <2> HIDE DEF a, b
  <2> QED BY <2>1
<1>3. Cardinality(L) \in Nat
  BY CountsUp
<1> HIDE DEF a, b
<1>4. k < l <=> a < b
  <2>1. CASE a < b
    <3>1. Cardinality(UpToIn(L, a)) < Cardinality(UpToIn(L, b))
      BY <1>2, <2>1, CountsGrow
    <3> QED BY <3>1, <2>1, <1>2
  <2>2. CASE b < a
    <3>1. Cardinality(UpToIn(L, b)) < Cardinality(UpToIn(L, a))
      BY <1>2, <2>2, CountsGrow
    <3> QED BY <3>1, <2>2, <1>2, <1>3
  <2>3. CASE a = b
    <3>1. k = l
      BY <1>2, <2>3
    <3> QED BY <3>1, <2>3, <1>3, <1>2
  <2> QED BY <1>2, <2>1, <2>2, <2>3
<1> QED BY <1>4 DEF a, b

(* Where a number is, and where those that follow it without a gap are.     *)
LEMMA PlaceOf ==
  ASSUME NEW N \in Nat, NEW L \in SUBSET (1..N), NEW i \in L, NEW m \in Nat, i..i+m \subseteq L
  PROVE  \E k \in 1..Cardinality(L) :
           /\ k = Cardinality(UpToIn(L, i)) /\ k + m <= Cardinality(L)
           /\ \A l \in 0..m : PlaceIn(L, k + l) = i + l
<1> DEFINE k == Cardinality(UpToIn(L, i))
           n == Cardinality(L)
<1>1. k \in 1..n /\ n \in Nat
  BY CountsUp
<1>2. ASSUME NEW l \in 0..m
      PROVE  /\ i + l \in L /\ Cardinality(UpToIn(L, i + l)) = k + l /\ k + l \in 1..n
             /\ PlaceIn(L, k + l) = i + l
  <2>1. i + l \in L /\ i \in Nat /\ l \in Nat /\ i+1..i+l \subseteq L
    OBVIOUS
  <2>2. Cardinality(UpToIn(L, i + l)) = k + l
    BY <2>1, CountsOn
  <2>3. Cardinality(UpToIn(L, i + l)) \in 1..n
    BY <2>1, CountsUp
  <2>4. PlaceIn(L, k + l) \in L /\ Cardinality(UpToIn(L, PlaceIn(L, k + l))) = k + l
    BY <2>2, <2>3, EveryPlace
  <2>5. PlaceIn(L, k + l) = i + l
    <3> DEFINE a == PlaceIn(L, k + l)
               b == i + l
    <3>1. a \in L /\ b \in L /\ a \in Nat /\ b \in Nat /\ Cardinality(UpToIn(L, a)) = k + l /\ Cardinality(UpToIn(L, b)) = k + l /\ k + l \in Nat
      <4>1. a \in L /\ b \in L /\ Cardinality(UpToIn(L, a)) = k + l /\ Cardinality(UpToIn(L, b)) = k + l
        BY <2>1, <2>2, <2>4
      <4> HIDE DEF a, b, k, n
      <4> QED BY <4>1, <1>1
    <3> HIDE DEF a, b, k, n
    <3>2. CASE a < b
      <4>1. Cardinality(UpToIn(L, a)) < Cardinality(UpToIn(L, b))
        BY <3>1, <3>2, CountsGrow
      <4> QED BY <4>1, <3>1
    <3>3. CASE b < a
      <4>1. Cardinality(UpToIn(L, b)) < Cardinality(UpToIn(L, a))
        BY <3>1, <3>3, CountsGrow
      <4> QED BY <4>1, <3>1
    <3>4. CASE a = b
      BY <3>4 DEF a, b
    <3> QED BY <3>1, <3>2, <3>3, <3>4
  <2> QED BY <2>1, <2>2, <2>3, <2>5
<1>3. k + m <= n
  BY <1>1, <1>2
<1> HIDE DEF k, n
<1>4. \A l \in 0..m : PlaceIn(L, k + l) = i + l
  BY <1>2
<1>5. k = Cardinality(UpToIn(L, i)) /\ n = Cardinality(L)
  BY DEF k, n
<1> QED BY <1>1, <1>3, <1>4, <1>5

-----------------------------------------------------------------------------
(* Histories.                                                                *)

MessageOf(n) == [role : {"system", "user", "assistant", "tool"}, calls : Shapes, answers : SUBSET LoopCalls, size : Nat, of : SUBSET (1..n)]

(* A message that is no digest of several is later than all before it.       *)
InOrder(h) == \A i, j \in DOMAIN h : i < j /\ Cardinality(h[j].of) = 1 => \A x \in h[i].of, y \in h[j].of : x < y

(* A history that stands for n messages: the instructions and the first task *)
(* in front, every message somewhere, calls with their results.              *)
HistoryOf(h, n) ==
  /\ h \in Seq(MessageOf(n)) /\ Len(h) >= 2
  /\ \A i \in DOMAIN h : h[i].of # {}
  /\ h[1].role = "system" /\ h[1].of = {1} /\ h[2].role = "user" /\ h[2].of = {2}
  /\ \A i \in 3..Len(h) : h[i].role # "system"
  /\ UNION {h[i].of : i \in DOMAIN h} = 1..n
  /\ InOrder(h)
  /\ Paired(h)

(* The turn that began with message number from ends the history verbatim.   *)
TurnAtEnd(h, from, n) ==
  \E p \in 3..Len(h) :
    /\ MakesCalls(h[p]) /\ p + Len(h[p].calls) = Len(h) /\ n = from + Len(h[p].calls)
    /\ \A k \in 0..Len(h[p].calls) : h[p + k].of = {from + k}

(* What a history is for the provers, and what its first two messages are not. *)
LEMMA HistoryFacts ==
  ASSUME NEW n \in Nat, NEW h, HistoryOf(h, n)
  PROVE  /\ Len(h) \in Nat /\ Len(h) >= 2 /\ DOMAIN h = 1..Len(h)
         /\ \A i \in 1..Len(h) : h[i] \in MessageOf(n)
         /\ ~MakesCalls(h[1]) /\ ~MakesCalls(h[2])
BY DEF HistoryOf, MakesCalls

(* The calls of a message are distinct.                                      *)
LEMMA CallsFacts ==
  ASSUME NEW n, NEW m \in MessageOf(n)
  PROVE  /\ m.calls \in Seq(LoopCalls) /\ Len(m.calls) \in Nat /\ DOMAIN m.calls = 1..Len(m.calls)
         /\ \A k, l \in 1..Len(m.calls) : m.calls[k] = m.calls[l] => k = l
         /\ MakesCalls(m) => Len(m.calls) >= 1 /\ m.role = "assistant"
<1>1. m.calls \in Shapes
  BY DEF MessageOf
<1>2. m.calls \in Seq(LoopCalls) /\ IsInjective(m.calls)
  BY <1>1, ToolLoopAssumption
<1> QED BY <1>2, EmptySeq DEF IsInjective, MakesCalls

TakenBy(ms, i, k) ==
  /\ ms[k].role = "tool" /\ ms[k].answers \subseteq ToSet(ms[i].calls)
  /\ \A l \in i+1..k-1 : ms[l].answers # ms[k].answers
RunsOf(ms, i) == {j \in i+1..Len(ms) : \A k \in i+1..j : TakenBy(ms, i, k)}

(* A unit ends at the last result that answers one of its calls.            *)
LEMMA UnitEndIs ==
  ASSUME NEW ms, NEW i
  PROVE  UnitEnd(ms, i) = IF MakesCalls(ms[i]) /\ RunsOf(ms, i) # {} THEN Max(RunsOf(ms, i)) ELSE i
BY DEF UnitEnd, RunsOf, TakenBy

(* A unit is its first message and results behind it: at least those of the  *)
(* calls its first message makes.                                            *)
LEMMA UnitShape ==
  ASSUME NEW n \in Nat, NEW h, HistoryOf(h, n), NEW i \in 1..Len(h)
  PROVE  /\ UnitEnd(h, i) \in i..Len(h)
         /\ \A k \in i+1..UnitEnd(h, i) : h[k].role = "tool"
         /\ ~MakesCalls(h[i]) => UnitEnd(h, i) = i
         /\ MakesCalls(h[i]) => i + Len(h[i].calls) <= UnitEnd(h, i)
<1> DEFINE R == RunsOf(h, i)
<1>1. Len(h) \in Nat /\ DOMAIN h = 1..Len(h) /\ h[i] \in MessageOf(n)
  BY HistoryFacts
<1>2. R \subseteq Nat /\ \A j \in R : j <= Len(h) /\ j >= i + 1 /\ \A k \in i+1..j : h[k].role = "tool"
  BY <1>1 DEF RunsOf, TakenBy
<1>3. R # {} => Max(R) \in R /\ \A j \in R : j <= Max(R)
  <2> HIDE DEF R
  <2> QED BY <1>1, <1>2, MaxIs
<1>4. UnitEnd(h, i) = IF MakesCalls(h[i]) /\ R # {} THEN Max(R) ELSE i
  BY UnitEndIs
<1>5. ASSUME MakesCalls(h[i]) PROVE i + Len(h[i].calls) \in R
  <2> DEFINE c == h[i].calls
  <2>1. c \in Seq(LoopCalls) /\ Len(c) \in Nat /\ DOMAIN c = 1..Len(c) /\ Len(c) >= 1 /\ \A k, l \in 1..Len(c) : c[k] = c[l] => k = l
    BY <1>1, <1>5, CallsFacts
  <2>2. \A k \in 1..Len(c) : i + k \in 1..Len(h) /\ h[i + k].role = "tool" /\ h[i + k].answers = {c[k]}
    <3>1. Paired(h) /\ i \in DOMAIN h
      BY <1>1 DEF HistoryOf
    <3>2. \A k \in DOMAIN c : i + k \in DOMAIN h /\ h[i + k].role = "tool" /\ h[i + k].answers = {c[k]}
      BY <3>1, <1>5 DEF Paired
    <3> HIDE DEF c
    <3> QED BY <3>2, <2>1, <1>1
  <2> HIDE DEF c
  <2>3. i + Len(c) \in i+1..Len(h)
    <3>1. Len(c) \in 1..Len(c)
      BY <2>1
    <3> QED BY <3>1, <2>1, <2>2, <1>1
  <2>4. ASSUME NEW k \in i+1..i+Len(c) PROVE TakenBy(h, i, k)
    <3>1. PICK m \in 1..Len(c) : k = i + m
      <4>1. k - i \in 1..Len(c) /\ k = i + (k - i)
        BY <2>1
      <4> QED BY <4>1
    <3>2. h[k].role = "tool" /\ h[k].answers = {c[m]}
      BY <3>1, <2>2
    <3>3. c[m] \in ToSet(c)
      BY <2>1, <3>1 DEF ToSet
    <3>4. ASSUME NEW l \in i+1..k-1 PROVE h[l].answers # h[k].answers
      <4>1. PICK o \in 1..Len(c) : l = i + o /\ o # m
        <5>1. l - i \in 1..Len(c) /\ l = i + (l - i) /\ l - i # m
          BY <2>1, <3>1
        <5> QED BY <5>1
      <4>2. h[l].answers = {c[o]}
        BY <4>1, <2>2
      <4>3. c[o] # c[m]
        BY <2>1, <4>1, <3>1
      <4> QED BY <4>2, <4>3, <3>2
    <3> QED BY <3>2, <3>3, <3>4 DEF TakenBy, c
  <2>5. i + Len(c) \in R
    BY <2>3, <2>4 DEF RunsOf
  <2> QED BY <2>5 DEF c
<1>6. CASE MakesCalls(h[i])
  <2>1. UnitEnd(h, i) = Max(R) /\ Max(R) \in R /\ i + Len(h[i].calls) <= Max(R)
    BY <1>3, <1>4, <1>5, <1>6
  <2>2. Max(R) \in Nat /\ Max(R) <= Len(h) /\ Max(R) >= i + 1 /\ \A k \in i+1..Max(R) : h[k].role = "tool"
    <3> HIDE DEF R
    <3> QED BY <1>2, <2>1
  <2> HIDE DEF R
  <2>3. UnitEnd(h, i) \in i..Len(h)
    BY <2>1, <2>2, <1>1
  <2> QED BY <1>6, <2>1, <2>2, <2>3
<1>7. CASE ~MakesCalls(h[i])
  <2>1. UnitEnd(h, i) = i
    BY <1>4, <1>7
  <2> QED BY <1>1, <1>7, <2>1
<1> QED BY <1>6, <1>7

(* Every message belongs to a unit.                                          *)
LEMMA UnitOf ==
  ASSUME NEW n \in Nat, NEW h, HistoryOf(h, n), NEW j \in 1..Len(h)
  PROVE  \E u \in Units(h) : u <= j /\ j <= UnitEnd(h, u)
<1> DEFINE U == {u \in Units(h) : u <= j}
<1>1. Len(h) \in Nat /\ DOMAIN h = 1..Len(h) /\ Len(h) >= 2
  BY HistoryFacts
<1>2. \A u : u \in Units(h) <=> u \in 1..Len(h) /\ \A a \in 1..u-1 : UnitEnd(h, a) < u
  BY <1>1 DEF Units
<1>3. 1 \in U
  BY <1>1, <1>2
<1>4. U \subseteq Nat /\ (\A u \in U : u <= j) /\ j \in Nat
  BY <1>1, <1>2
<1>5. PICK u \in U : \A v \in U : v <= u
  <2> HIDE DEF U
  <2> QED BY <1>3, <1>4, MaxIs
<1>6. u \in Units(h) /\ u <= j /\ u \in 1..Len(h)
  BY <1>2
<1>7. /\ UnitEnd(h, u) \in u..Len(h)
      /\ \A k \in u+1..UnitEnd(h, u) : h[k].role = "tool"
  BY <1>6, UnitShape
<1>8. ASSUME UnitEnd(h, u) < j PROVE FALSE
  <2> DEFINE e == UnitEnd(h, u) + 1
  <2>1. e \in 1..Len(h) /\ e <= j /\ e > u
    BY <1>6, <1>7, <1>8
  <2>2. ASSUME NEW a \in 1..e-1 PROVE UnitEnd(h, a) < e
    <3>1. CASE a < u
      <4>1. a \in 1..u-1 /\ a \in 1..Len(h)
        BY <3>1, <1>6, <1>7
      <4>2. UnitEnd(h, a) < u /\ UnitEnd(h, a) \in a..Len(h)
        BY <4>1, <1>2, <1>6, UnitShape
      <4> HIDE DEF e
      <4> QED BY <4>1, <4>2, <2>1, <1>6, <1>1
    <3>2. CASE a = u
      BY <3>2, <1>7
    <3>3. CASE a > u
      <4>1. a \in u+1..UnitEnd(h, u) /\ a \in 1..Len(h)
        BY <3>3, <1>6, <1>7
      <4>2. h[a].role = "tool"
        BY <4>1, <1>7
      <4>3. ~MakesCalls(h[a])
        BY <4>2 DEF MakesCalls
      <4>4. UnitEnd(h, a) = a
        BY <4>1, <4>3, UnitShape
      <4> QED BY <4>1, <4>4, <1>7
    <3>4. a \in Int /\ u \in Int
      BY <1>6, <1>7
    <3> QED BY <3>1, <3>2, <3>3, <3>4
  <2>3. e \in U
    BY <2>1, <2>2, <1>2
  <2>4. e <= u
    <3> HIDE DEF U, e
    <3> QED BY <2>3, <1>5
  <2> HIDE DEF e
  <2> QED BY <2>1, <2>4, <1>6
<1> QED BY <1>6, <1>7, <1>8

(* A message that makes calls begins a unit.                                 *)
LEMMA CallsBeginUnit ==
  ASSUME NEW n \in Nat, NEW h, HistoryOf(h, n), NEW a \in 1..Len(h), MakesCalls(h[a]),
         NEW d \in 1..Len(h), d <= a, a <= UnitEnd(h, d)
  PROVE  d = a
<1>1. \A k \in d+1..UnitEnd(h, d) : h[k].role = "tool"
  BY UnitShape
<1>2. h[a].role # "tool"
  BY DEF MakesCalls
<1>3. UnitEnd(h, d) \in d..Len(h) /\ Len(h) \in Nat
  BY UnitShape, HistoryFacts
<1> QED BY <1>1, <1>2, <1>3

-----------------------------------------------------------------------------
(* What a plan drops.                                                        *)

(* The first task is the second message.                                     *)
LEMMA FirstUserIs == ASSUME NEW n \in Nat, NEW h, HistoryOf(h, n) PROVE FirstUser(h) = 2
<1> DEFINE I == {i \in 1..Len(h) : h[i].role = "user"}
<1>1. Len(h) \in Nat /\ Len(h) >= 2 /\ h[1].role = "system" /\ h[2].role = "user"
  BY HistoryFacts DEF HistoryOf
<1>2. 2 \in I /\ 1 \notin I /\ I \subseteq Nat /\ \A x \in I : x # 1 /\ x # 0
  BY <1>1
<1>3. FirstUser(h) = IF I # {} THEN Min(I) ELSE 0
  BY DEF FirstUser, SelectInSeq
<1>4. Min(I) \in I /\ \A y \in I : Min(I) <= y
  <2> HIDE DEF I
  <2> QED BY <1>2, MinIs
<1>5. Min(I) = 2
  <2> HIDE DEF I
  <2>1. Min(I) \in Nat /\ Min(I) <= 2 /\ Min(I) # 0 /\ Min(I) # 1
    BY <1>2, <1>4
  <2> QED BY <2>1
<1> QED BY <1>2, <1>3, <1>5

Later(S, i) == {j \in S : j > i}

(* The units in front go, but for the instructions and the task; the last    *)
(* one stays when any is to be kept.                                         *)
LEMMA PlanIs ==
  ASSUME NEW n \in Nat, NEW h, HistoryOf(h, n), planCompaction(h) # {}
  PROVE  /\ planCompaction(h) \subseteq Units(h) /\ planCompaction(h) \subseteq 3..Len(h)
         /\ \A u \in Units(h), d \in planCompaction(h) : u >= 3 /\ u \notin planCompaction(h) => d < u
         /\ KeepRecent > 0 => \A u \in Units(h) : (\A v \in Units(h) : v <= u) => u \notin planCompaction(h)
<1> DEFINE D == Droppable(h)
           kept == Min({KeepRecent, Cardinality(D) - 1})
           drop == planCompaction(h)
<1>1. Len(h) \in Nat /\ DOMAIN h = 1..Len(h) /\ h[1].role = "system" /\ FirstUser(h) = 2
  BY HistoryFacts, FirstUserIs DEF HistoryOf
<1>2. Units(h) \subseteq 1..Len(h)
  BY <1>1 DEF Units
<1>3. D = {i \in Units(h) : h[i].role # "system" /\ i # 2}
  BY <1>1 DEF Droppable
<1>4. D \subseteq Units(h) /\ D \subseteq 3..Len(h)
  <2>1. ASSUME NEW i \in D PROVE i \in 3..Len(h)
    <3>1. i \in 1..Len(h) /\ i # 1 /\ i # 2
      BY <1>1, <1>2, <1>3
    <3> QED BY <3>1, <1>1
  <2> QED BY <1>3, <2>1
<1>5. \A i \in Units(h) : i >= 3 => i \in D
  <2>1. \A i \in 3..Len(h) : h[i].role # "system"
    BY DEF HistoryOf
  <2> QED BY <1>1, <1>2, <1>3, <2>1
<1>6. IsFiniteSet(D) /\ Cardinality(D) \in Nat
  <2>1. IsFiniteSet(1..Len(h)) /\ D \in SUBSET (1..Len(h))
    BY <1>1, <1>2, <1>3, FS_Interval
  <2> QED BY <2>1, FS_Subset, FS_CardinalityType
<1>7. drop = {i \in D : Cardinality(Later(D, i)) >= kept} /\ Cardinality(D) > 1
  <2>1. ~(historySize(h) <= Threshold \/ Threshold = 0 \/ Cardinality(D) <= 1)
    BY DEF planCompaction
  <2>2. drop = {i \in D : Cardinality({j \in D : j > i}) >= kept}
    BY <2>1 DEF planCompaction
  <2> QED BY <2>1, <2>2, <1>6 DEF Later
<1>8. kept \in Nat /\ (KeepRecent > 0 => kept > 0)
  <2> DEFINE K == {KeepRecent, Cardinality(D) - 1}
  <2>1. KeepRecent \in Nat /\ Cardinality(D) - 1 \in Nat /\ Cardinality(D) - 1 > 0
    BY <1>6, <1>7, ToolLoopAssumption
  <2>2. K \subseteq Nat /\ K # {}
    BY <2>1
  <2>3. Min(K) \in K
    <3> HIDE DEF K
    <3> QED BY <2>2, MinIs
  <2> QED BY <2>1, <2>3
<1>9. \A i : IsFiniteSet(Later(D, i)) /\ Cardinality(Later(D, i)) \in Nat
  BY <1>6, FS_Subset, FS_CardinalityType DEF Later
<1> HIDE DEF kept, drop, D
<1>10. drop \subseteq D
  BY <1>7
<1>11. ASSUME NEW u \in Units(h), NEW d \in drop, u >= 3, u \notin drop PROVE d < u
  <2>1. u \in D /\ d \in D /\ Cardinality(Later(D, d)) >= kept /\ ~(Cardinality(Later(D, u)) >= kept)
    BY <1>5, <1>7, <1>11
  <2>2. u \in Nat /\ d \in Nat
    BY <2>1, <1>4
  <2>3. ASSUME u <= d PROVE FALSE
    <3>1. Later(D, d) \in SUBSET Later(D, u)
      <4>1. \A x \in D : x \in Nat
        BY <1>4
      <4>2. \A x \in D : x > d => x > u
        BY <4>1, <2>2, <2>3
      <4> QED BY <4>2 DEF Later
    <3>2. Cardinality(Later(D, d)) <= Cardinality(Later(D, u))
      BY <3>1, <1>9, FS_Subset
    <3>3. Cardinality(Later(D, d)) \in Nat /\ Cardinality(Later(D, u)) \in Nat
      BY <1>9
    <3> QED BY <2>1, <3>2, <3>3, <1>8
  <2> QED BY <2>2, <2>3
<1>12. ASSUME KeepRecent > 0, NEW u \in Units(h), \A v \in Units(h) : v <= u PROVE u \notin drop
  <2>1. ASSUME NEW x \in D PROVE ~(x > u)
    <3>1. x \in Nat /\ u \in Nat /\ x <= u
      BY <2>1, <1>2, <1>4, <1>12
    <3> QED BY <3>1
  <2>2. Later(D, u) = {}
    BY <2>1 DEF Later
  <2>3. Cardinality(Later(D, u)) = 0
    BY <2>2, FS_EmptySet
  <2> QED BY <2>3, <1>7, <1>8, <1>12
<1>13. drop \subseteq Units(h) /\ drop \subseteq 3..Len(h)
  BY <1>4, <1>10
<1> QED BY <1>11, <1>12, <1>13 DEF drop

(* What a plan covers stands together: after the task, and before whatever   *)
(* stays behind it.                                                          *)
LEMMA CoverIs ==
  ASSUME NEW n \in Nat, NEW h, HistoryOf(h, n), planCompaction(h) # {},
         NEW cov, cov = Covered(h, planCompaction(h))
  PROVE  /\ cov \subseteq 3..Len(h) /\ planCompaction(h) \subseteq cov
         /\ \A c \in cov : \E d \in planCompaction(h) : d \in 3..Len(h) /\ d <= c /\ c <= UnitEnd(h, d)
         /\ \A j \in 3..Len(h), c \in cov : j \notin cov => c < j
<1> DEFINE drop == planCompaction(h)
<1>1. Len(h) \in Nat /\ Len(h) >= 2 /\ DOMAIN h = 1..Len(h)
  BY HistoryFacts
<1>2. /\ drop \subseteq Units(h) /\ drop \subseteq 3..Len(h)
      /\ \A u \in Units(h), d \in drop : u >= 3 /\ u \notin drop => d < u
  BY PlanIs
<1>3. \A u \in Units(h) : u \in 1..Len(h) /\ \A a \in 1..u-1 : UnitEnd(h, a) < u
  BY <1>1 DEF Units
<1>4. \A i \in 1..Len(h) : UnitEnd(h, i) \in i..Len(h)
  BY UnitShape
<1>5. \A c : c \in cov <=> \E d \in drop : c \in d..UnitEnd(h, d)
  BY DEF Covered
<1> HIDE DEF drop
<1>6. ASSUME NEW c \in cov
      PROVE  c \in 3..Len(h) /\ \E d \in drop : d \in 3..Len(h) /\ d <= c /\ c <= UnitEnd(h, d)
  <2>1. PICK d \in drop : c \in d..UnitEnd(h, d)
    BY <1>5
  <2>2. d \in 3..Len(h) /\ d \in 1..Len(h)
    BY <1>2
  <2>3. UnitEnd(h, d) \in d..Len(h)
    BY <2>2, <1>4
  <2> QED BY <1>1, <2>1, <2>2, <2>3
<1>7. drop \subseteq cov
  <2>1. ASSUME NEW d \in drop PROVE d \in cov
    <3>1. d \in 1..Len(h)
      BY <1>2
    <3>2. UnitEnd(h, d) \in d..Len(h)
      BY <3>1, <1>4
    <3>3. d \in d..UnitEnd(h, d)
      BY <3>1, <3>2
    <3> QED BY <3>3, <1>5
  <2> QED BY <2>1
<1>8. ASSUME NEW j \in 3..Len(h), NEW c \in cov, j \notin cov PROVE c < j
  <2>1. j \in 1..Len(h)
    OBVIOUS
  <2>2. PICK u \in Units(h) : u <= j /\ j <= UnitEnd(h, u)
    BY <2>1, UnitOf
  <2>3. u \in 1..Len(h)
    BY <1>3
  <2>4. u >= 3
    <3>1. UnitEnd(h, 1) = 1 /\ UnitEnd(h, 2) = 2
      <4>1. 1 \in 1..Len(h) /\ 2 \in 1..Len(h) /\ ~MakesCalls(h[1]) /\ ~MakesCalls(h[2])
        BY <1>1, HistoryFacts
      <4> QED BY <4>1, UnitShape
    <3>2. u # 1 /\ u # 2
      BY <2>1, <2>2, <3>1
    <3> QED BY <2>3, <3>2
  <2>5. u \notin drop
    <3> SUFFICES ASSUME u \in drop PROVE FALSE
      OBVIOUS
    <3>1. j \in u..UnitEnd(h, u)
      <4>1. UnitEnd(h, u) \in u..Len(h)
        BY <2>3, <1>4
      <4> QED BY <4>1, <2>2, <2>3, <1>1
    <3> QED BY <3>1, <1>5, <1>8
  <2>6. PICK d \in drop : d \in 3..Len(h) /\ d <= c /\ c <= UnitEnd(h, d)
    BY <1>6
  <2>7. d < u
    BY <1>2, <2>4, <2>5
  <2>8. d \in 1..u-1 /\ d \in 1..Len(h)
    BY <2>6, <2>7, <2>3
  <2>9. UnitEnd(h, d) < u /\ UnitEnd(h, d) \in d..Len(h)
    BY <2>8, <1>3, <1>4
  <2>10. c \in Int
    BY <1>6
  <2> QED BY <2>2, <2>3, <2>6, <2>9, <2>10
<1> QED BY <1>6, <1>7, <1>8 DEF drop

-----------------------------------------------------------------------------
(* A compacted history.                                                      *)

DigestOf(h, size) == Msg("user", <<>>, {}, size, UNION {h[i].of : i \in Covered(h, planCompaction(h))})
LeftOf(h) == planCompaction(h) \cup (DOMAIN h \ Covered(h, planCompaction(h)))

LEMMA CompactedIs ==
  ASSUME NEW h, NEW size
  PROVE  Compacted(h, planCompaction(h), size) =
           [k \in 1..Cardinality(LeftOf(h)) |->
              IF PlaceIn(LeftOf(h), k) \in planCompaction(h) THEN DigestOf(h, size) ELSE h[PlaceIn(LeftOf(h), k)]]
BY DEF Compacted, PlaceIn, UpToIn, LeftOf, DigestOf

(* Place: where each message of the compacted history comes from.            *)
Places(h, next, cov, drop, digest, Left, m, Place) ==
  /\ m \in Nat /\ m >= 2 /\ Left \subseteq 1..Len(h)
  /\ \A i \in Left : i \in drop \/ i \notin cov
  /\ \A i \in 1..Len(h) : i \in drop \/ i \notin cov => i \in Left
  /\ DOMAIN next = 1..m /\ Len(next) = m
  /\ \A k \in 1..m : Place[k] \in Left /\ next[k] = IF Place[k] \in drop THEN digest ELSE h[Place[k]]
  /\ \A k, l \in 1..m : k < l <=> Place[k] < Place[l]
  /\ \A i \in Left : \E k \in 1..m : Place[k] = i
  /\ \A i \in Left, o \in Nat : i..i+o \subseteq Left =>
       \E k \in 1..m : k + o <= m /\ \A l \in 0..o : Place[k + l] = i + l
  /\ Place[1] = 1 /\ Place[2] = 2

LEMMA PlacesAre ==
  ASSUME NEW n \in Nat, NEW h, HistoryOf(h, n), planCompaction(h) # {}, NEW size
  PROVE  \E m, Place :
           Places(h, Compacted(h, planCompaction(h), size), Covered(h, planCompaction(h)), planCompaction(h),
                  DigestOf(h, size), LeftOf(h), m, Place)
<1> DEFINE N == Len(h)
           L == LeftOf(h)
           m == Cardinality(L)
           Place == [k \in 1..m |-> PlaceIn(L, k)]
           drop == planCompaction(h)
           cov == Covered(h, drop)
           next == Compacted(h, drop, size)
<1>1. N \in Nat /\ N >= 2 /\ DOMAIN h = 1..N
  BY HistoryFacts
<1>2. cov \subseteq 3..N /\ drop \subseteq cov
  BY CoverIs
<1>3. L = drop \cup ((1..N) \ cov)
  BY <1>1 DEF LeftOf
<1>4. next = [k \in 1..m |-> IF PlaceIn(L, k) \in drop THEN DigestOf(h, size) ELSE h[PlaceIn(L, k)]]
  BY CompactedIs
<1> HIDE DEF L, drop, cov, next, N
<1>5. /\ L \in SUBSET (1..N) /\ 1 \in L /\ 2 \in L
      /\ \A i \in L : i \in drop \/ i \notin cov
      /\ \A i \in 1..N : i \in drop \/ i \notin cov => i \in L
  <2>1. 3..N \subseteq 1..N /\ 1 \notin 3..N /\ 2 \notin 3..N /\ 1 \in 1..N /\ 2 \in 1..N
    BY <1>1
  <2> QED BY <1>2, <1>3, <2>1
<1>6. m \in Nat
  BY <1>1, <1>5, CountsUp
<1>7. \A k \in 1..m : Place[k] \in L /\ next[k] = IF Place[k] \in drop THEN DigestOf(h, size) ELSE h[Place[k]]
  <2>1. \A k \in 1..m : PlaceIn(L, k) \in L
    BY <1>1, <1>5, EveryPlace
  <2> QED BY <1>4, <2>1
<1>8. \A k, l \in 1..m : k < l <=> Place[k] < Place[l]
  <2>1. \A k, l \in 1..m : k < l <=> PlaceIn(L, k) < PlaceIn(L, l)
    BY <1>1, <1>5, PlacesInOrder
  <2> QED BY <2>1
<1>9. ASSUME NEW i \in L, NEW o \in Nat, i..i+o \subseteq L
      PROVE  \E k \in 1..m : k = Cardinality(UpToIn(L, i)) /\ k + o <= m /\ \A l \in 0..o : Place[k + l] = i + l
  <2>1. PICK k \in 1..Cardinality(L) :
           /\ k = Cardinality(UpToIn(L, i)) /\ k + o <= Cardinality(L)
           /\ \A l \in 0..o : PlaceIn(L, k + l) = i + l
    <3>1. N \in Nat /\ L \in SUBSET (1..N) /\ i \in L /\ o \in Nat /\ i..i+o \subseteq L
      BY <1>1, <1>5, <1>9
    <3> HIDE DEF Place
    <3> QED BY <3>1, PlaceOf, Zenon
  <2>2. \A l \in 0..o : k + l \in 1..m
    BY <1>6, <2>1
  <2> QED BY <2>1, <2>2
<1>10. \A i \in L : \E k \in 1..m : Place[k] = i
  <2> SUFFICES ASSUME NEW i \in L PROVE \E k \in 1..m : Place[k] = i
    OBVIOUS
  <2>1. i \in Nat /\ i..i+0 \subseteq L
    BY <1>1, <1>5
  <2>2. PICK k \in 1..m : \A l \in 0..0 : Place[k + l] = i + l
    BY <1>9, <2>1
  <2>3. Place[k + 0] = i + 0 /\ k + 0 = k /\ i + 0 = i
    BY <2>1, <2>2, <1>6
  <2> HIDE DEF Place
  <2> QED BY <2>3
<1>11. m >= 2 /\ Place[1] = 1 /\ Place[2] = 2
  <2>1. 1 \in L /\ 1..1+1 \subseteq L
    BY <1>5
  <2>2. PICK k \in 1..m : k = Cardinality(UpToIn(L, 1)) /\ k + 1 <= m /\ \A l \in 0..1 : Place[k + l] = 1 + l
    BY <1>9, <2>1
  <2>3. UpToIn(L, 1) = {1}
    <3>1. \A x \in L : x \in Nat /\ x >= 1
      BY <1>1, <1>5
    <3>2. \A x \in L : x <= 1 <=> x = 1
      BY <3>1
    <3> QED BY <3>2, <1>5 DEF UpToIn
  <2>4. k = 1
    BY <2>2, <2>3, FS_Singleton
  <2>5. Place[1 + 0] = 1 + 0 /\ Place[1 + 1] = 1 + 1
    BY <2>2, <2>4
  <2>6. m >= 2
    BY <2>2, <2>4, <1>6
  <2> HIDE DEF Place
  <2> QED BY <2>5, <2>6
<1>12. DOMAIN next = 1..m /\ Len(next) = m
  BY <1>4, <1>6
<1> HIDE DEF m, Place
<1>13. \A i \in L, o \in Nat : i..i+o \subseteq L => \E k \in 1..m : k + o <= m /\ \A l \in 0..o : Place[k + l] = i + l
  BY <1>9
<1>14. Places(h, next, cov, drop, DigestOf(h, size), L, m, Place)
  BY <1>5, <1>6, <1>7, <1>8, <1>10, <1>11, <1>12, <1>13 DEF Places, N
<1> QED BY <1>14 DEF next, cov, drop, L

(* Everything of a digest comes from the histories' messages.                *)
LEMMA DigestIs ==
  ASSUME NEW n \in Nat, NEW h, HistoryOf(h, n), planCompaction(h) # {}, NEW size \in Nat
  PROVE  /\ DigestOf(h, size) \in MessageOf(n) /\ DigestOf(h, size).of # {}
         /\ DigestOf(h, size).role = "user" /\ ~MakesCalls(DigestOf(h, size))
         /\ \A x : x \in DigestOf(h, size).of <=> \E c \in Covered(h, planCompaction(h)) : x \in h[c].of
<1> DEFINE drop == planCompaction(h)
           cov == Covered(h, drop)
           digest == DigestOf(h, size)
<1>1. cov \subseteq 3..Len(h) /\ drop \subseteq cov
  BY CoverIs
<1>2. \A i \in 1..Len(h) : h[i] \in MessageOf(n) /\ h[i].of # {} /\ h[i].of \subseteq 1..n
  <2>1. \A i \in 1..Len(h) : h[i] \in MessageOf(n)
    BY HistoryFacts
  <2>2. DOMAIN h = 1..Len(h) /\ \A i \in DOMAIN h : h[i].of # {}
    BY HistoryFacts DEF HistoryOf
  <2> QED BY <2>1, <2>2 DEF MessageOf
<1>3. /\ digest.role = "user" /\ digest.calls = <<>> /\ digest.answers = {} /\ digest.size = size
      /\ digest.of = UNION {h[i].of : i \in cov}
      /\ digest = [role |-> "user", calls |-> <<>>, answers |-> {}, size |-> size, of |-> UNION {h[i].of : i \in cov}]
  BY DEF DigestOf, Msg
<1> HIDE DEF digest, cov, drop
<1>4. \A x : x \in digest.of <=> \E c \in cov : x \in h[c].of
  BY <1>3
<1>5. cov # {} /\ \A c \in cov : c \in 1..Len(h)
  BY <1>1, HistoryFacts DEF drop
<1>6. digest.of # {} /\ digest.of \in SUBSET (1..n)
  BY <1>2, <1>4, <1>5
<1>7. digest \in MessageOf(n)
  BY <1>3, <1>6, ToolLoopAssumption DEF MessageOf
<1> QED BY <1>3, <1>4, <1>6, <1>7 DEF MakesCalls, digest, cov, drop

(* A compacted history stands for all that the one before it stood for.      *)
LEMMA CompactionKeeps ==
  ASSUME NEW n \in Nat, NEW h, HistoryOf(h, n), planCompaction(h) # {}, NEW size \in Nat
  PROVE  HistoryOf(Compacted(h, planCompaction(h), size), n)
<1> DEFINE drop == planCompaction(h)
           cov == Covered(h, drop)
           next == Compacted(h, drop, size)
           digest == DigestOf(h, size)
           L == LeftOf(h)
           N == Len(h)
<1>1. PICK m, Place : Places(h, next, cov, drop, digest, L, m, Place)
  BY PlacesAre
<1>2. N \in Nat /\ N >= 2 /\ DOMAIN h = 1..N
  BY HistoryFacts
<1>3. \A i \in 1..N : h[i] \in MessageOf(n) /\ h[i].of # {}
  BY <1>2, HistoryFacts DEF HistoryOf
<1>4. /\ h[1].role = "system" /\ h[1].of = {1} /\ h[2].role = "user" /\ h[2].of = {2}
      /\ \A i \in 3..N : h[i].role # "system"
      /\ UNION {h[i].of : i \in DOMAIN h} = 1..n
      /\ InOrder(h) /\ Paired(h)
  BY DEF HistoryOf
<1>5. /\ cov \subseteq 3..N /\ drop \subseteq cov
      /\ \A c \in cov : \E d \in drop : d \in 3..N /\ d <= c /\ c <= UnitEnd(h, d)
      /\ \A j \in 3..N, c \in cov : j \notin cov => c < j
  BY CoverIs
<1>6. /\ digest \in MessageOf(n) /\ digest.of # {} /\ digest.role = "user" /\ ~MakesCalls(digest)
      /\ \A x : x \in digest.of <=> \E c \in cov : x \in h[c].of
  BY DigestIs
<1>7. \A i \in 1..N : UnitEnd(h, i) \in i..N /\ (MakesCalls(h[i]) => i + Len(h[i].calls) <= UnitEnd(h, i))
  BY UnitShape
<1>8. \A a, d \in 1..N : MakesCalls(h[a]) /\ d <= a /\ a <= UnitEnd(h, d) => d = a
  BY CallsBeginUnit
<1>9. drop # {}
  OBVIOUS
<1>c. \A d \in drop, c \in Int : d <= c /\ c <= UnitEnd(h, d) => c \in cov
  <2>1. \A d \in drop : d \in Int /\ UnitEnd(h, d) \in Int
    BY <1>2, <1>5, <1>7
  <2> QED BY <2>1 DEF Covered
<1> HIDE DEF drop, cov, next, digest, L, N
<1>10. /\ m \in Nat /\ m >= 2 /\ L \subseteq 1..N
       /\ \A i \in L : i \in drop \/ i \notin cov
       /\ \A i \in 1..N : i \in drop \/ i \notin cov => i \in L
       /\ DOMAIN next = 1..m /\ Len(next) = m
  BY <1>1 DEF Places, N
<1>11. \A k \in 1..m : Place[k] \in L /\ next[k] = IF Place[k] \in drop THEN digest ELSE h[Place[k]]
  BY <1>1 DEF Places
<1>12. \A k, l \in 1..m : k < l <=> Place[k] < Place[l]
  BY <1>1 DEF Places
<1>13. \A i \in L : \E k \in 1..m : Place[k] = i
  BY <1>1 DEF Places
<1>14. \A i \in L, o \in Nat : i..i+o \subseteq L => \E k \in 1..m : k + o <= m /\ \A l \in 0..o : Place[k + l] = i + l
  BY <1>1 DEF Places
<1>15. Place[1] = 1 /\ Place[2] = 2
  BY <1>1 DEF Places
<1>16. \A k \in 1..m : Place[k] \in 1..N /\ (k >= 3 => Place[k] \in 3..N)
  <2> SUFFICES ASSUME NEW k \in 1..m PROVE Place[k] \in 1..N /\ (k >= 3 => Place[k] \in 3..N)
    OBVIOUS
  <2>1. Place[k] \in 1..N
    BY <1>10, <1>11
  <2>2. 2 \in 1..m /\ k >= 3 => 2 < k
    BY <1>10
  <2>3. k >= 3 => Place[k] > 2
    BY <2>2, <1>10, <1>12, <1>15
  <2> QED BY <2>1, <2>3, <1>2
<1>17. \A k \in 1..m : next[k] \in MessageOf(n) /\ next[k].of # {}
  BY <1>3, <1>6, <1>11, <1>16
<1>19. next \in Seq(MessageOf(n))
  <2>1. next = [k \in 1..m |-> next[k]]
    <3>2. next = [k \in 1..Cardinality(L) |-> IF PlaceIn(L, k) \in drop THEN digest ELSE h[PlaceIn(L, k)]]
      BY CompactedIs DEF next, L, drop, digest
    <3> QED BY <3>2, <1>10
  <2>2. \A k \in 1..m : next[k] \in MessageOf(n)
    BY <1>17
  <2>3. next \in [1..m -> MessageOf(n)]
    BY <2>1, <2>2
  <2> QED BY <2>3, <1>10
<1>20. 1 \notin drop /\ 2 \notin drop /\ 1 \in 1..m /\ 2 \in 1..m /\ next[1] = h[1] /\ next[2] = h[2]
  <2>1. 1 \notin drop /\ 2 \notin drop /\ 1 \in 1..m /\ 2 \in 1..m
    BY <1>2, <1>5, <1>10
  <2> QED BY <2>1, <1>11, <1>15
<1>21. \A k \in 3..m : next[k].role # "system"
  <2> SUFFICES ASSUME NEW k \in 3..m PROVE next[k].role # "system"
    OBVIOUS
  <2>1. k \in 1..m /\ k >= 3
    BY <1>10
  <2>2. Place[k] \in 3..N
    BY <2>1, <1>16
  <2> QED BY <2>1, <2>2, <1>4, <1>6, <1>11
<1>22. UNION {next[k].of : k \in DOMAIN next} = 1..n
  <2>1. ASSUME NEW x \in 1..n PROVE \E k \in 1..m : x \in next[k].of
    <3>0. x \in UNION {h[i].of : i \in DOMAIN h} /\ DOMAIN h = 1..N
      BY <1>2, <1>4
    <3>1. PICK i \in 1..N : x \in h[i].of
      BY <3>0
    <3>2. CASE i \in cov
      <4>1. x \in digest.of
        BY <1>6, <3>1, <3>2
      <4>2. PICK d \in drop : d \in 1..N
        <5>1. \A d \in drop : d \in 1..N
          BY <1>2, <1>5
        <5> QED BY <5>1, <1>9
      <4>3. PICK k \in 1..m : Place[k] = d
        BY <4>2, <1>10, <1>13
      <4> QED BY <4>1, <4>2, <4>3, <1>11
    <3>3. CASE i \notin cov
      <4>1. i \in L /\ i \notin drop
        BY <3>3, <1>5, <1>10
      <4>2. PICK k \in 1..m : Place[k] = i
        BY <4>1, <1>13
      <4> QED BY <4>1, <4>2, <3>1, <1>11
    <3> QED BY <3>2, <3>3
  <2>2. ASSUME NEW k \in 1..m PROVE next[k].of \subseteq 1..n
    <3>1. next[k] \in MessageOf(n)
      BY <1>17
    <3> QED BY <3>1 DEF MessageOf
  <2> QED BY <2>1, <2>2, <1>10
<1>23. Paired(next)
  <2>1. ASSUME NEW k \in 1..m, MakesCalls(next[k]), NEW o \in DOMAIN next[k].calls
        PROVE  k + o \in 1..m /\ next[k + o].role = "tool" /\ next[k + o].answers = {next[k].calls[o]}
    <3> DEFINE a == Place[k]
               C == Len(h[a].calls)
    <3>1. a \in 1..N /\ a \notin drop /\ next[k] = h[a] /\ MakesCalls(h[a]) /\ a \in L
      BY <2>1, <1>6, <1>11, <1>16
    <3>2. C \in Nat /\ C >= 1 /\ DOMAIN h[a].calls = 1..C
      BY <3>1, <1>3, CallsFacts
    <3>3. \A q \in DOMAIN h[a].calls : a + q \in DOMAIN h /\ h[a + q].role = "tool" /\ h[a + q].answers = {h[a].calls[q]}
      BY <3>1, <1>2, <1>4 DEF Paired
    <3>4. a >= 3 /\ a \in Nat /\ a \notin cov
      <4>1. h[1].role # "assistant" /\ h[2].role # "assistant" /\ h[a].role = "assistant"
        BY <1>4, <3>1 DEF MakesCalls
      <4>2. a # 1 /\ a # 2
        BY <4>1
      <4>3. a \notin cov
        BY <3>1, <1>10
      <4> HIDE DEF a
      <4> QED BY <3>1, <4>2, <4>3, <1>2
    <3> HIDE DEF a, C
    <3>5. a..a+C \subseteq L
      <4> SUFFICES ASSUME NEW i \in a..a+C PROVE i \in L
        OBVIOUS
      <4>1. i \in 3..N
        <5>1. C \in DOMAIN h[a].calls
          BY <3>2
        <5>2. a + C \in 1..N
          BY <5>1, <3>3, <1>2
        <5> QED BY <5>2, <3>4, <3>2, <1>2
      <4>2. i \notin cov
        <5> SUFFICES ASSUME i \in cov PROVE FALSE
          OBVIOUS
        <5>1. a \in 3..N
          BY <3>1, <3>4
        <5>2. i < a
          BY <5>1, <3>4, <1>5
        <5> QED BY <5>2, <3>4, <3>2
      <4> QED BY <4>1, <4>2, <1>10
    <3>6. PICK p \in 1..m : p + C <= m /\ \A l \in 0..C : Place[p + l] = a + l
      BY <3>1, <3>2, <3>5, <1>14
    <3>7. p = k
      <4>1. Place[p + 0] = a + 0 /\ p + 0 = p /\ a + 0 = a /\ 0 \in 0..C
        BY <3>6, <3>4, <3>2
      <4>2. Place[p] = Place[k]
        BY <4>1 DEF a
      <4>3. ~(p < k) /\ ~(k < p)
        BY <4>2, <1>12, <1>16, <3>4 DEF a
      <4> QED BY <4>3, <1>10
    <3>8. o \in 1..C
      BY <2>1, <3>1, <3>2
    <3>9. k + o \in 1..m /\ Place[k + o] = a + o
      BY <3>6, <3>7, <3>8, <3>2, <1>10
    <3>10. h[a + o].role = "tool" /\ h[a + o].answers = {next[k].calls[o]} /\ a + o \in 1..N
      BY <3>1, <3>2, <3>3, <3>8, <1>2
    <3>11. a + o \notin drop
      <4>1. a + o \in 3..N /\ a \in 3..N /\ o \in Nat /\ o >= 1
        BY <3>10, <3>4, <3>8, <3>2, <3>1
      <4> SUFFICES ASSUME a + o \in cov PROVE FALSE
        BY <1>5
      <4>2. a + o < a
        BY <4>1, <3>4, <1>5
      <4> QED BY <4>1, <4>2
    <3> QED BY <3>9, <3>10, <3>11, <1>11
  <2>2. ASSUME NEW k \in 1..m, next[k].role = "tool"
        PROVE  \E q \in 1..k-1 : MakesCalls(next[q]) /\ k <= q + Len(next[q].calls)
    <3> DEFINE i == Place[k]
    <3>1. i \in 1..N /\ i \notin drop /\ next[k] = h[i] /\ h[i].role = "tool" /\ i \in L
      BY <2>2, <1>6, <1>11, <1>16
    <3>2. i \notin cov /\ i \in Nat
      BY <3>1, <1>10
    <3> HIDE DEF i
    <3>3. PICK a \in 1..i-1 : MakesCalls(h[a]) /\ i <= a + Len(h[a].calls)
      BY <3>1, <1>2, <1>4 DEF Paired
    <3> DEFINE C == Len(h[a].calls)
    <3>4. a \in 1..N /\ a \in Nat /\ a < i
      BY <3>1, <3>2, <3>3, <1>2
    <3>5. C \in Nat /\ C >= 1 /\ DOMAIN h[a].calls = 1..C
      BY <3>3, <3>4, <1>3, CallsFacts
    <3>6. a + C <= UnitEnd(h, a) /\ UnitEnd(h, a) \in a..N
      BY <3>3, <3>4, <1>7
    <3>7. a \notin cov
      <4> SUFFICES ASSUME a \in cov PROVE FALSE
        OBVIOUS
      <4>1. PICK d \in drop : d \in 3..N /\ d <= a /\ a <= UnitEnd(h, d)
        BY <1>5
      <4>2. d = a
        <5>1. d \in 1..N
          BY <4>1, <1>2
        <5> QED BY <5>1, <4>1, <3>3, <3>4, <1>8
      <4>3. i <= UnitEnd(h, a) /\ a <= i
        BY <3>2, <3>3, <3>4, <3>5, <3>6, <1>2
      <4>4. i \in cov
        BY <4>1, <4>2, <4>3, <3>2, <1>c
      <4> QED BY <4>4, <3>2
    <3>8. a \in L /\ a \notin drop
      BY <3>4, <3>7, <1>5, <1>10
    <3>9. PICK q \in 1..m : Place[q] = a
      BY <3>8, <1>13
    <3>10. next[q] = h[a]
      BY <3>8, <3>9, <1>11
    <3>11. q < k
      BY <3>4, <3>9, <1>12 DEF i
    <3>12. k <= q + C
      <4>1. ASSUME NEW x \in a..i PROVE x \in L
        <5>1. x \in 1..N
          BY <3>1, <3>2, <3>4, <1>2
        <5>2. x \notin cov
          <6> SUFFICES ASSUME x \in cov PROVE FALSE
            OBVIOUS
          <6>1. a \in 3..N
            <7>1. a # 1 /\ a # 2
              BY <3>3, <1>4 DEF MakesCalls
            <7> QED BY <7>1, <3>4
          <6>2. x < a
            BY <6>1, <3>7, <1>5
          <6> QED BY <6>2, <3>4
        <5> QED BY <5>1, <5>2, <1>10
      <4>2. i - a \in Nat /\ a..a+(i - a) \subseteq L
        BY <4>1, <3>2, <3>4
      <4>3. PICK p \in 1..m : p + (i - a) <= m /\ \A l \in 0..(i - a) : Place[p + l] = a + l
        BY <4>2, <3>8, <1>14
      <4>4. Place[p] = a /\ Place[p + (i - a)] = i
        <5>1. 0 \in 0..(i - a) /\ i - a \in 0..(i - a) /\ p + 0 = p /\ a + 0 = a /\ a + (i - a) = i
          BY <4>2, <3>2, <3>4
        <5> QED BY <5>1, <4>3
      <4>5. p = q
        <5>1. ~(p < q) /\ ~(q < p)
          BY <4>4, <3>9, <1>12, <3>4
        <5> QED BY <5>1
      <4>6. p + (i - a) = k
        <5>1. p + (i - a) \in 1..m
          BY <4>2, <4>3, <1>10
        <5>2. ~(p + (i - a) < k) /\ ~(k < p + (i - a))
          BY <5>1, <4>4, <1>12, <3>2 DEF i
        <5> QED BY <5>1, <5>2
      <4> QED BY <4>5, <4>6, <3>3, <3>2, <3>4, <3>5
    <3>13. q \in 1..k-1
      BY <3>11, <1>10
    <3> QED BY <3>10, <3>12, <3>13, <3>3
  <2> QED BY <2>1, <2>2, <1>10 DEF Paired
<1>24. InOrder(next)
  <2> SUFFICES ASSUME NEW k \in 1..m, NEW l \in 1..m, k < l, Cardinality(next[l].of) = 1,
                      NEW x \in next[k].of, NEW y \in next[l].of
               PROVE  x < y
    BY <1>10 DEF InOrder
  <2> DEFINE i == Place[k]
             j == Place[l]
  <2>1. i \in L /\ j \in L /\ i \in 1..N /\ j \in 1..N /\ i < j
    BY <1>11, <1>12, <1>16
  <2>2. next[k] = (IF i \in drop THEN digest ELSE h[i]) /\ next[l] = IF j \in drop THEN digest ELSE h[j]
    BY <1>11
  <2>3. \A a, b \in 1..N : a < b /\ Cardinality(h[b].of) = 1 => \A v \in h[a].of, w \in h[b].of : v < w
    BY <1>2, <1>4 DEF InOrder
  <2> HIDE DEF i, j
  <2>4. CASE j \notin drop
    <3>1. Cardinality(h[j].of) = 1 /\ y \in h[j].of
      BY <2>2, <2>4
    <3>2. CASE i \notin drop
      BY <2>1, <2>2, <2>3, <3>1, <3>2
    <3>3. CASE i \in drop
      <4>1. PICK c \in cov : x \in h[c].of
        BY <2>2, <3>3, <1>6
      <4>2. j \in 3..N /\ j \notin cov
        <5>1. i \in 3..N
          BY <3>3, <1>5
        <5> QED BY <5>1, <2>1, <2>4, <1>10, <1>2
      <4>3. c < j /\ c \in 1..N
        BY <4>1, <4>2, <1>5, <1>2
      <4> QED BY <4>1, <4>3, <2>1, <2>3, <3>1
    <3> QED BY <3>2, <3>3
  <2>5. CASE j \in drop
    <3>1. Cardinality(digest.of) = 1 /\ y \in digest.of
      BY <2>2, <2>5
    <3>2. IsFiniteSet(digest.of)
      <4>1. digest.of \in SUBSET (1..n) /\ IsFiniteSet(1..n)
        BY <1>6, FS_Interval DEF MessageOf
      <4> QED BY <4>1, FS_Subset
    <3>3. digest.of = {y}
      BY <3>1, <3>2, FS_Singleton
    <3>4. \A c \in cov : h[c].of = {y} /\ c \in 1..N
      <4> SUFFICES ASSUME NEW c \in cov PROVE h[c].of = {y} /\ c \in 1..N
        OBVIOUS
      <4>1. c \in 1..N
        BY <1>2, <1>5
      <4>2. h[c].of \subseteq {y} /\ h[c].of # {}
        BY <4>1, <3>3, <1>3, <1>6
      <4> QED BY <4>1, <4>2
    <3>5. j \in cov /\ Cardinality(h[j].of) = 1
      BY <2>5, <3>4, <1>5, FS_Singleton
    <3>6. ASSUME NEW c \in cov, c < j PROVE FALSE
      <4>1. y \in h[c].of /\ y \in h[j].of /\ y \in 1..n
        BY <3>4, <3>5, <3>6, <3>1, <1>6 DEF MessageOf
      <4>2. y < y
        BY <4>1, <2>1, <2>3, <3>4, <3>5, <3>6
      <4> QED BY <4>1, <4>2
    <3>7. i \notin drop
      BY <2>1, <3>6, <1>5
    <3>8. x \in h[i].of /\ y \in h[j].of
      BY <2>2, <3>4, <3>5, <3>7
    <3> QED BY <2>1, <2>3, <3>5, <3>8
  <2> QED BY <2>4, <2>5
<1>25. HistoryOf(next, n)
  BY <1>4, <1>10, <1>17, <1>19, <1>20, <1>21, <1>22, <1>23, <1>24 DEF HistoryOf
<1> QED BY <1>25 DEF next, drop

(* The last turn survives a compaction that is to keep anything.             *)
LEMMA CompactionKeepsTurn ==
  ASSUME NEW n \in Nat, NEW h, HistoryOf(h, n), planCompaction(h) # {}, NEW size \in Nat,
         KeepRecent > 0, NEW from, TurnAtEnd(h, from, n)
  PROVE  TurnAtEnd(Compacted(h, planCompaction(h), size), from, n)
<1> DEFINE drop == planCompaction(h)
           cov == Covered(h, drop)
           next == Compacted(h, drop, size)
           digest == DigestOf(h, size)
           L == LeftOf(h)
           N == Len(h)
<1>1. PICK m, Place : Places(h, next, cov, drop, digest, L, m, Place)
  BY PlacesAre
<1>2. N \in Nat /\ N >= 2 /\ DOMAIN h = 1..N
  BY HistoryFacts
<1>3. PICK p \in 3..N :
        /\ MakesCalls(h[p]) /\ p + Len(h[p].calls) = N /\ n = from + Len(h[p].calls)
        /\ \A k \in 0..Len(h[p].calls) : h[p + k].of = {from + k}
  BY DEF TurnAtEnd
<1>4. p \in 1..N /\ p \in Nat /\ p >= 3
  BY <1>2
<1>5. /\ drop \subseteq Units(h)
      /\ \A u \in Units(h) : (\A v \in Units(h) : v <= u) => u \notin drop
  BY PlanIs
<1>6. /\ cov \subseteq 3..N
      /\ \A c \in cov : \E d \in drop : d \in 3..N /\ d <= c /\ c <= UnitEnd(h, d)
      /\ \A j \in 3..N, c \in cov : j \notin cov => c < j
  BY CoverIs
<1>7. Len(h[p].calls) \in Nat
  <2>1. h[p] \in MessageOf(n)
    BY <1>4, HistoryFacts
  <2> QED BY <2>1, CallsFacts
<1>8. UnitEnd(h, p) \in p..N /\ N <= UnitEnd(h, p)
  BY <1>3, <1>4, UnitShape
<1>9. \A u : u \in Units(h) <=> u \in 1..N /\ \A a \in 1..u-1 : UnitEnd(h, a) < u
  BY <1>2 DEF Units
<1>10. p \in Units(h)
  <2>1. PICK u \in Units(h) : u <= p /\ p <= UnitEnd(h, u)
    BY <1>4, UnitOf
  <2>2. u \in 1..N
    BY <1>9
  <2>3. u = p
    BY <1>3, <1>4, <2>1, <2>2, CallsBeginUnit
  <2> QED BY <2>3
<1>11. p \notin drop
  <2>1. ASSUME NEW v \in Units(h) PROVE v <= p
    <3> SUFFICES ASSUME v > p PROVE FALSE
      BY <1>4, <1>9
    <3>1. v \in 1..N /\ p \in 1..v-1
      BY <1>4, <1>9
    <3>2. UnitEnd(h, p) < v
      BY <3>1, <1>9
    <3> QED BY <3>1, <3>2, <1>8, <1>2
  <2> QED BY <2>1, <1>5, <1>10
<1>12. p \notin cov
  <2> SUFFICES ASSUME p \in cov PROVE FALSE
    OBVIOUS
  <2>1. PICK d \in drop : d \in 3..N /\ d <= p /\ p <= UnitEnd(h, d)
    BY <1>6
  <2>2. d \in 1..N
    BY <2>1, <1>2
  <2>3. d = p
    BY <2>1, <2>2, <1>3, <1>4, CallsBeginUnit
  <2> QED BY <2>1, <2>3, <1>11
<1> DEFINE C == Len(h[p].calls)
<1> HIDE DEF drop, cov, next, digest, L, N
<1>13. /\ m \in Nat /\ m >= 2 /\ L \subseteq 1..N
       /\ \A i \in L : i \in drop \/ i \notin cov
       /\ \A i \in 1..N : i \in drop \/ i \notin cov => i \in L
       /\ DOMAIN next = 1..m /\ Len(next) = m
  BY <1>1 DEF Places, N
<1>14. \A k \in 1..m : Place[k] \in L /\ next[k] = IF Place[k] \in drop THEN digest ELSE h[Place[k]]
  BY <1>1 DEF Places
<1>15. \A k, l \in 1..m : k < l <=> Place[k] < Place[l]
  BY <1>1 DEF Places
<1>16. \A i \in L, o \in Nat : i..i+o \subseteq L => \E k \in 1..m : k + o <= m /\ \A l \in 0..o : Place[k + l] = i + l
  BY <1>1 DEF Places
<1>17. Place[1] = 1 /\ Place[2] = 2
  BY <1>1 DEF Places
<1>18. \A i \in p..p+C : i \in L /\ i \notin drop
  <2> SUFFICES ASSUME NEW i \in p..p+C PROVE i \in L /\ i \notin drop
    OBVIOUS
  <2>1. i \in 3..N /\ i \in 1..N /\ p \in 3..N
    BY <1>2, <1>3, <1>4, <1>7
  <2>2. i \notin cov
    <3> SUFFICES ASSUME i \in cov PROVE FALSE
      OBVIOUS
    <3>1. i < p
      BY <2>1, <1>6, <1>12
    <3> QED BY <3>1, <1>4, <1>7
  <2>3. drop \subseteq cov
    BY CoverIs DEF drop, cov
  <2> QED BY <2>1, <2>2, <2>3, <1>13
<1>19. PICK k \in 1..m : k + C <= m /\ \A l \in 0..C : Place[k + l] = p + l
  <2>1. p \in L /\ p..p+C \subseteq L
    BY <1>4, <1>7, <1>18
  <2> QED BY <2>1, <1>7, <1>16
<1>20. \A l \in 0..C : k + l \in 1..m /\ next[k + l] = h[p + l]
  <2> SUFFICES ASSUME NEW l \in 0..C PROVE k + l \in 1..m /\ next[k + l] = h[p + l]
    OBVIOUS
  <2>1. k + l \in 1..m /\ p + l \in p..p+C
    BY <1>4, <1>7, <1>13, <1>19
  <2> QED BY <2>1, <1>14, <1>18, <1>19
<1>21. next[k] = h[p] /\ Place[k] = p
  <2>1. 0 \in 0..C /\ k + 0 = k /\ p + 0 = p
    BY <1>4, <1>7
  <2> QED BY <2>1, <1>19, <1>20
<1>22. k + C = m
  <2>1. C \in 0..C /\ k + C \in 1..m /\ m \in 1..m
    BY <1>7, <1>13, <1>19
  <2>2. Place[k + C] = N
    BY <2>1, <1>3, <1>19
  <2>3. Place[m] \in 1..N
    BY <2>1, <1>13, <1>14
  <2>4. ~(k + C < m)
    BY <2>1, <2>2, <2>3, <1>2, <1>15
  <2> QED BY <2>1, <2>4, <1>13
<1>23. k \in 3..m
  <2>1. k # 1 /\ k # 2
    BY <1>4, <1>17, <1>21
  <2> QED BY <2>1, <1>13
<1>24. Len(next[k].calls) = C /\ MakesCalls(next[k])
  BY <1>3, <1>21
<1>25. \A l \in 0..C : next[k + l].of = {from + l}
  BY <1>3, <1>20
<1> HIDE DEF C
<1>26. TurnAtEnd(next, from, n)
  BY <1>3, <1>13, <1>22, <1>23, <1>24, <1>25 DEF TurnAtEnd, C
<1> QED BY <1>26 DEF next, drop

-----------------------------------------------------------------------------
(* Histories that grow.                                                      *)

(* A message stands for positions of the transcript.                         *)
LEMMA OrderNumbers ==
  ASSUME NEW n \in Nat, NEW h, HistoryOf(h, n), NEW i \in 1..Len(h), NEW x \in h[i].of
  PROVE  x \in 1..n
<1>1. h[i] \in MessageOf(n)
  BY HistoryFacts
<1> QED BY <1>1 DEF MessageOf

(* A message of a transcript is one of a longer transcript.                  *)
LEMMA MessageLonger ==
  ASSUME NEW n \in Nat, NEW k \in Nat, n <= k
  PROVE  MessageOf(n) \subseteq MessageOf(k)
<1>1. 1..n \subseteq 1..k
  OBVIOUS
<1> QED BY <1>1 DEF MessageOf

(* A message without calls that is no result.                                *)
LEMMA MessageJoins ==
  ASSUME NEW n \in Nat, NEW h, HistoryOf(h, n), NEW m \in MessageOf(n + 1),
         m.of = {n + 1}, m.role \in {"user", "assistant"}, ~MakesCalls(m)
  PROVE  HistoryOf(Append(h, m), n + 1)
<1> DEFINE N == Len(h)
           g == Append(h, m)
<1>1. N \in Nat /\ N >= 2 /\ DOMAIN h = 1..N /\ h \in Seq(MessageOf(n))
  BY HistoryFacts DEF HistoryOf
<1>2. /\ g \in Seq(MessageOf(n + 1)) /\ Len(g) = N + 1 /\ DOMAIN g = 1..N+1
      /\ \A i \in 1..N : g[i] = h[i] /\ i \in 1..N+1
      /\ g[N + 1] = m
      /\ \A i \in 1..N+1 : i \in 1..N \/ i = N + 1
  <2>1. MessageOf(n) \subseteq MessageOf(n + 1)
    BY MessageLonger
  <2>2. h \in Seq(MessageOf(n + 1))
    BY <1>1, <2>1
  <2> QED BY <1>1, <2>2
<1>3. /\ \A i \in 1..N : h[i].of # {} /\ \A x \in h[i].of : x \in 1..n
      /\ h[1].role = "system" /\ h[1].of = {1} /\ h[2].role = "user" /\ h[2].of = {2}
      /\ \A i \in 3..N : h[i].role # "system"
      /\ UNION {h[i].of : i \in DOMAIN h} = 1..n
      /\ InOrder(h) /\ Paired(h)
  BY <1>1, OrderNumbers DEF HistoryOf
<1> HIDE DEF N, g
<1>4. \A i \in 1..N+1 : g[i].of # {}
  BY <1>2, <1>3
<1>5. g[1] = h[1] /\ g[2] = h[2] /\ Len(g) >= 2
  BY <1>1, <1>2
<1>6. \A i \in 3..Len(g) : g[i].role # "system"
  <2> SUFFICES ASSUME NEW i \in 3..Len(g) PROVE g[i].role # "system"
    OBVIOUS
  <2>1. i \in 3..N \/ i = N + 1
    BY <1>1, <1>2
  <2>2. i \in 3..N => g[i] = h[i]
    BY <1>1, <1>2
  <2> QED BY <2>1, <2>2, <1>2, <1>3
<1>7. UNION {g[i].of : i \in DOMAIN g} = 1..n+1
  <2>1. ASSUME NEW x \in 1..n+1 PROVE \E i \in 1..N+1 : x \in g[i].of
    <3>1. CASE x = n + 1
      <4>1. N + 1 \in 1..N+1
        BY <1>1
      <4> QED BY <3>1, <4>1, <1>2
    <3>2. CASE x \in 1..n
      <4>1. PICK i \in 1..N : x \in h[i].of
        BY <3>2, <1>1, <1>3
      <4> QED BY <4>1, <1>2
    <3> QED BY <3>1, <3>2
  <2>2. ASSUME NEW i \in 1..N+1, NEW x \in g[i].of PROVE x \in 1..n+1
    <3>1. CASE i \in 1..N
      <4>1. x \in 1..n
        BY <3>1, <1>2, <1>3
      <4> QED BY <4>1
    <3>2. CASE i = N + 1
      BY <3>2, <1>2
    <3> QED BY <3>1, <3>2, <1>2
  <2> QED BY <2>1, <2>2, <1>2
<1>8. InOrder(g)
  <2> SUFFICES ASSUME NEW i \in 1..N+1, NEW j \in 1..N+1, i < j, Cardinality(g[j].of) = 1, NEW x \in g[i].of, NEW y \in g[j].of
               PROVE  x < y
    BY <1>2 DEF InOrder
  <2>1. i \in 1..N /\ g[i] = h[i]
    BY <1>1, <1>2
  <2>2. CASE j = N + 1
    <3>1. y = n + 1 /\ x \in 1..n
      BY <2>1, <2>2, <1>2, <1>3
    <3> QED BY <3>1
  <2>3. CASE j \in 1..N
    BY <2>1, <2>3, <1>1, <1>2, <1>3 DEF InOrder
  <2> QED BY <2>2, <2>3, <1>2
<1>9. Paired(g)
  <2>1. ASSUME NEW i \in 1..N+1, MakesCalls(g[i]), NEW k \in DOMAIN g[i].calls
        PROVE  i + k \in 1..N+1 /\ g[i + k].role = "tool" /\ g[i + k].answers = {g[i].calls[k]}
    <3>1. i \in 1..N /\ g[i] = h[i]
      BY <2>1, <1>2
    <3>2. i + k \in 1..N /\ h[i + k].role = "tool" /\ h[i + k].answers = {h[i].calls[k]}
      BY <2>1, <3>1, <1>1, <1>3 DEF Paired
    <3> QED BY <3>1, <3>2, <1>2
  <2>2. ASSUME NEW i \in 1..N+1, g[i].role = "tool"
        PROVE  \E a \in 1..i-1 : MakesCalls(g[a]) /\ i <= a + Len(g[a].calls)
    <3>1. i \in 1..N /\ g[i] = h[i]
      BY <2>2, <1>2
    <3>2. PICK a \in 1..i-1 : MakesCalls(h[a]) /\ i <= a + Len(h[a].calls)
      BY <2>2, <3>1, <1>1, <1>3 DEF Paired
    <3>3. a \in 1..N
      BY <3>1, <1>1
    <3> QED BY <3>2, <3>3, <1>2
  <2> QED BY <2>1, <2>2, <1>2 DEF Paired
<1>10. HistoryOf(g, n + 1)
  BY <1>2, <1>3, <1>4, <1>5, <1>6, <1>7, <1>8, <1>9 DEF HistoryOf
<1> QED BY <1>10 DEF g

Joined(w, h, a, r) ==
  /\ Len(w) = Len(h) + 1 + Len(r)
  /\ \A i \in 1..Len(h) : w[i] = h[i]
  /\ w[Len(h) + 1] = a
  /\ \A k \in 1..Len(r) : w[Len(h) + 1 + k] = r[k]

LEMMA JoinLength ==
  ASSUME NEW S, NEW f \in Seq(S), NEW r \in Seq(S)
  PROVE  f \o r \in Seq(S) /\ Len(f \o r) = Len(f) + Len(r)
OBVIOUS

(* One message and several behind a history.                                 *)
LEMMA JoinIs ==
  ASSUME NEW S, NEW h \in Seq(S), NEW a \in S, NEW r \in Seq(S)
  PROVE  Append(h, a) \o r \in Seq(S) /\ Joined(Append(h, a) \o r, h, a, r)
<1>1. PICK f : f = Append(h, a)
  OBVIOUS
<1>2. f \in Seq(S) /\ Len(f) = Len(h) + 1 /\ Len(h) \in Nat /\ Len(r) \in Nat
  BY <1>1
<1>3. f[Len(h) + 1] = a /\ \A i \in 1..Len(h) : f[i] = h[i]
  BY <1>1
<1>4. f \o r \in Seq(S) /\ Len(f \o r) = Len(f) + Len(r)
  BY <1>2, JoinLength
<1>5. \A i \in 1..Len(f) : (f \o r)[i] = f[i]
  BY <1>2
<1>6. \A k \in 1..Len(r) : (f \o r)[Len(f) + k] = r[k]
  <2> SUFFICES ASSUME NEW k \in 1..Len(r) PROVE (f \o r)[Len(f) + k] = r[k]
    OBVIOUS
  <2>1. Len(f) + k \in 1..Len(f)+Len(r) /\ ~(Len(f) + k <= Len(f)) /\ (Len(f) + k) - Len(f) = k
    BY <1>2
  <2> QED BY <1>2, <2>1
<1>7. Len(h) + 1 \in 1..Len(f) /\ \A i \in 1..Len(h) : i \in 1..Len(f)
  BY <1>2
<1>8. Joined(f \o r, h, a, r)
  BY <1>2, <1>3, <1>4, <1>5, <1>6, <1>7 DEF Joined
<1> QED BY <1>1, <1>4, <1>8

(* An answer that makes calls, at b, and the results of all of them behind.  *)
Batched(h, n, made, g) ==
  LET t == n + 1
      b == Len(h) + 1
  IN  /\ g \in Seq(MessageOf(t + Len(made))) /\ Len(g) = b + Len(made)
      /\ \A i \in 1..Len(h) : g[i] = h[i]
      /\ g[b].role = "assistant" /\ g[b].calls = made /\ g[b].of = {t}
      /\ \A k \in 1..Len(made) : g[b + k].role = "tool" /\ g[b + k].answers = {made[k]} /\ g[b + k].of = {t + k}

LEMMA BatchShape ==
  ASSUME NEW n \in Nat, NEW h, HistoryOf(h, n), NEW made \in Shapes, made # <<>>,
         NEW g, Batched(h, n, made, g)
  PROVE  HistoryOf(g, n + 1 + Len(made)) /\ TurnAtEnd(g, n + 1, n + 1 + Len(made))
<1>0. PICK t, b : t = n + 1 /\ b = Len(h) + 1
  OBVIOUS
<1>a. /\ g \in Seq(MessageOf(t + Len(made))) /\ Len(g) = b + Len(made)
      /\ \A i \in 1..Len(h) : g[i] = h[i]
      /\ g[b].role = "assistant" /\ g[b].calls = made /\ g[b].of = {t}
      /\ \A k \in 1..Len(made) : g[b + k].role = "tool" /\ g[b + k].answers = {made[k]} /\ g[b + k].of = {t + k}
  BY <1>0 DEF Batched
<1> DEFINE N == Len(h)
           C == Len(made)
<1>1. N \in Nat /\ N >= 2 /\ DOMAIN h = 1..N /\ t \in Nat /\ t = n + 1 /\ b \in Nat /\ b = N + 1
  BY <1>0, HistoryFacts
<1>2. C \in Nat /\ C >= 1 /\ DOMAIN made = 1..C
  <2>1. made \in Seq(LoopCalls)
    BY ToolLoopAssumption
  <2> QED BY <2>1, EmptySeq
<1>3. MakesCalls(g[b]) /\ g[b].calls = made /\ g[b].of = {t} /\ g[b].role = "assistant"
  BY <1>a DEF MakesCalls
<1>4. \A k \in 1..C : /\ ~MakesCalls(g[b + k]) /\ g[b + k].role = "tool"
                      /\ g[b + k].answers = {made[k]} /\ g[b + k].of = {t + k}
  BY <1>a DEF MakesCalls
<1>8. /\ \A i \in 1..N : h[i].of # {} /\ \A x \in h[i].of : x \in 1..n
      /\ h[1].role = "system" /\ h[1].of = {1} /\ h[2].role = "user" /\ h[2].of = {2}
      /\ \A i \in 3..N : h[i].role # "system"
      /\ UNION {h[i].of : i \in DOMAIN h} = 1..n
      /\ InOrder(h) /\ Paired(h)
  BY <1>1, OrderNumbers DEF HistoryOf
<1>9. /\ g \in Seq(MessageOf(t + C)) /\ Len(g) = b + C /\ DOMAIN g = 1..b+C
      /\ \A i \in 1..N : g[i] = h[i]
  BY <1>1, <1>2, <1>a
<1> HIDE DEF N, C
<1>10. \A i \in 1..b+C : i \in 1..N \/ i = b \/ \E k \in 1..C : i = b + k
  <2> SUFFICES ASSUME NEW i \in 1..b+C, i \notin 1..N, i # b PROVE \E k \in 1..C : i = b + k
    OBVIOUS
  <2>1. i - b \in 1..C /\ i = b + (i - b)
    BY <1>1, <1>2
  <2> QED BY <2>1
<1>11. /\ 1..N \subseteq 1..b+C /\ b \in 1..b+C /\ \A k \in 1..C : b + k \in 1..b+C
  BY <1>1, <1>2
<1>12. \A i \in 1..b+C : g[i].of # {}
  <2> SUFFICES ASSUME NEW i \in 1..b+C PROVE g[i].of # {}
    OBVIOUS
  <2>1. CASE i \in 1..N
    BY <2>1, <1>8, <1>9
  <2>2. CASE i = b
    BY <2>2, <1>3
  <2>3. CASE \E k \in 1..C : i = b + k
    <3>1. PICK k \in 1..C : i = b + k
      BY <2>3
    <3> QED BY <3>1, <1>4
  <2> QED BY <2>1, <2>2, <2>3, <1>10
<1>13. g[1] = h[1] /\ g[2] = h[2] /\ Len(g) >= 2
  BY <1>1, <1>2, <1>9
<1>14. \A i \in 3..Len(g) : g[i].role # "system"
  <2> SUFFICES ASSUME NEW i \in 3..Len(g) PROVE g[i].role # "system"
    OBVIOUS
  <2>1. i \in 1..b+C /\ (i \in 1..N => i \in 3..N)
    BY <1>1, <1>2, <1>9
  <2>2. CASE i \in 1..N
    <3>1. i \in 3..N
      BY <2>1, <2>2
    <3>2. h[i].role # "system" /\ g[i] = h[i]
      BY <2>2, <3>1, <1>8, <1>9
    <3> QED BY <3>2
  <2>3. CASE i = b
    BY <2>3, <1>3
  <2>4. CASE \E k \in 1..C : i = b + k
    <3>1. PICK k \in 1..C : i = b + k
      BY <2>4
    <3> QED BY <3>1, <1>4
  <2> QED BY <2>1, <2>2, <2>3, <2>4, <1>10
<1>15. UNION {g[i].of : i \in DOMAIN g} = 1..t+C
  <2>1. ASSUME NEW x \in 1..t+C PROVE \E i \in 1..b+C : x \in g[i].of
    <3>1. CASE x \in 1..n
      <4>1. x \in UNION {h[i].of : i \in DOMAIN h}
        BY <3>1, <1>8
      <4>2. PICK i \in 1..N : x \in h[i].of
        BY <4>1, <1>1
      <4> QED BY <4>2, <1>9, <1>11
    <3>2. CASE x = t
      BY <3>2, <1>3, <1>9, <1>11
    <3>3. CASE \E k \in 1..C : x = t + k
      <4>1. PICK k \in 1..C : x = t + k
        BY <3>3
      <4>2. x \in g[b + k].of /\ b + k \in 1..b+C
        BY <4>1, <1>4, <1>11
      <4> QED BY <4>2
    <3>4. x \in 1..n \/ x = t \/ \E k \in 1..C : x = t + k
      <4> SUFFICES ASSUME x \notin 1..n, x # t PROVE \E k \in 1..C : x = t + k
        OBVIOUS
      <4>1. x - t \in 1..C /\ x = t + (x - t)
        BY <1>1, <1>2
      <4> QED BY <4>1
    <3> QED BY <3>1, <3>2, <3>3, <3>4
  <2>2. ASSUME NEW i \in 1..b+C, NEW x \in g[i].of PROVE x \in 1..t+C
    <3>1. CASE i \in 1..N
      <4>1. x \in 1..n
        BY <3>1, <2>2, <1>8, <1>9
      <4> QED BY <4>1, <1>1, <1>2
    <3>2. CASE i = b
      <4>1. x = t
        BY <3>2, <2>2, <1>3, <1>9
      <4> QED BY <4>1, <1>1, <1>2
    <3>3. CASE \E k \in 1..C : i = b + k
      <4>1. PICK k \in 1..C : i = b + k
        BY <3>3
      <4>2. x = t + k
        BY <4>1, <2>2, <1>4, <1>9
      <4> QED BY <4>2, <1>1, <1>2
    <3> QED BY <3>1, <3>2, <3>3, <1>10
  <2> DEFINE D == 1..b+C
             T == 1..t+C
  <2>3. \A x : x \in T <=> \E i \in D : x \in g[i].of
    BY <2>1, <2>2
  <2>4. DOMAIN g = D
    BY <1>9
  <2> HIDE DEF D, T
  <2>5. UNION {g[i].of : i \in DOMAIN g} = T
    BY <2>3, <2>4
  <2> QED BY <2>5 DEF T
<1>16. InOrder(g)
  <2> SUFFICES ASSUME NEW i \in 1..b+C, NEW j \in 1..b+C, i < j, Cardinality(g[j].of) = 1, NEW x \in g[i].of, NEW y \in g[j].of
               PROVE  x < y
    BY <1>9 DEF InOrder
  <2>1. CASE j \in 1..N
    <3>1. i \in 1..N
      BY <2>1, <1>1
    <3> QED BY <2>1, <3>1, <1>1, <1>8, <1>9 DEF InOrder
  <2>2. CASE j = b
    <3>1. i \in 1..N
      BY <2>2, <1>1
    <3>2. x \in 1..n /\ y = t
      BY <2>2, <3>1, <1>3, <1>8, <1>9
    <3> QED BY <3>2, <1>1
  <2>3. CASE \E k \in 1..C : j = b + k
    <3>1. PICK k \in 1..C : j = b + k
      BY <2>3
    <3>2. y = t + k
      BY <3>1, <1>4, <1>9
    <3>3. CASE i \in 1..N
      <4>1. x \in 1..n
        BY <3>3, <1>8, <1>9
      <4> QED BY <4>1, <3>2, <1>1, <1>2
    <3>4. CASE i = b
      <4>1. x = t
        BY <3>4, <1>3, <1>9
      <4> QED BY <4>1, <3>2, <1>1, <1>2
    <3>5. CASE \E l \in 1..C : i = b + l
      <4>1. PICK l \in 1..C : i = b + l
        BY <3>5
      <4>2. x = t + l
        BY <4>1, <1>4, <1>9
      <4>3. l < k
        BY <3>1, <4>1, <1>1, <1>2
      <4> QED BY <3>2, <4>2, <4>3, <1>1, <1>2
    <3> QED BY <3>3, <3>4, <3>5, <1>10
  <2> QED BY <2>1, <2>2, <2>3, <1>10
<1>17. Paired(g)
  <2>1. ASSUME NEW i \in 1..b+C, MakesCalls(g[i]), NEW k \in DOMAIN g[i].calls
        PROVE  i + k \in 1..b+C /\ g[i + k].role = "tool" /\ g[i + k].answers = {g[i].calls[k]}
    <3>1. CASE i \in 1..N
      <4>1. g[i] = h[i]
        BY <3>1, <1>9
      <4>2. i + k \in 1..N /\ h[i + k].role = "tool" /\ h[i + k].answers = {h[i].calls[k]}
        <5>1. Paired(h) /\ i \in DOMAIN h /\ MakesCalls(h[i]) /\ k \in DOMAIN h[i].calls
          BY <2>1, <3>1, <4>1, <1>1, <1>8
        <5>2. i + k \in DOMAIN h /\ h[i + k].role = "tool" /\ h[i + k].answers = {h[i].calls[k]}
          BY <5>1 DEF Paired
        <5> QED BY <5>2, <1>1
      <4> QED BY <4>1, <4>2, <1>9, <1>11
    <3>2. CASE i = b
      <4>1. k \in 1..C /\ g[i].calls = made
        BY <2>1, <3>2, <1>2, <1>3, <1>9
      <4>2. b + k \in 1..b+C
        BY <4>1, <1>11
      <4>3. g[b + k].role = "tool" /\ g[b + k].answers = {made[k]}
        BY <4>1, <4>2, <1>4
      <4> QED BY <3>2, <4>1, <4>2, <4>3
    <3>3. CASE \E l \in 1..C : i = b + l
      BY <2>1, <3>3, <1>4, <1>9
    <3> QED BY <3>1, <3>2, <3>3, <1>10
  <2>2. ASSUME NEW i \in 1..b+C, g[i].role = "tool"
        PROVE  \E a \in 1..i-1 : MakesCalls(g[a]) /\ i <= a + Len(g[a].calls)
    <3>1. CASE i \in 1..N
      <4>1. g[i] = h[i]
        BY <3>1, <1>9
      <4>2. PICK a \in 1..i-1 : MakesCalls(h[a]) /\ i <= a + Len(h[a].calls)
        BY <2>2, <3>1, <4>1, <1>1, <1>8 DEF Paired
      <4>3. a \in 1..N
        BY <3>1, <1>1
      <4> QED BY <4>2, <4>3, <1>9
    <3>2. CASE i = b
      BY <2>2, <3>2, <1>3, <1>9
    <3>3. CASE \E l \in 1..C : i = b + l
      <4>1. b \in 1..i-1 /\ i <= b + C
        BY <3>3, <1>1, <1>2
      <4>2. MakesCalls(g[b]) /\ Len(g[b].calls) = C
        BY <1>3, <1>9 DEF C
      <4> QED BY <4>1, <4>2
    <3> QED BY <3>1, <3>2, <3>3, <1>10
  <2> QED BY <2>1, <2>2, <1>9 DEF Paired
<1>18. HistoryOf(g, t + C)
  BY <1>8, <1>9, <1>12, <1>13, <1>14, <1>15, <1>16, <1>17 DEF HistoryOf
<1>19. TurnAtEnd(g, t, t + C)
  <2>1. b \in 3..Len(g) /\ MakesCalls(g[b]) /\ Len(g[b].calls) = C
    BY <1>1, <1>2, <1>3, <1>9 DEF C
  <2>2. ASSUME NEW k \in 0..C PROVE g[b + k].of = {t + k}
    <3>1. CASE k = 0
      <4>1. b + 0 = b /\ t + 0 = t
        BY <1>1
      <4> QED BY <3>1, <4>1, <1>3, <1>9
    <3>2. CASE k \in 1..C
      BY <3>2, <1>4, <1>9
    <3> QED BY <3>1, <3>2, <1>2
  <2>3. b + C = Len(g)
    BY <1>9
  <2> QED BY <2>1, <2>2, <2>3 DEF TurnAtEnd
<1> QED BY <1>0, <1>18, <1>19 DEF C

LEMMA MsgIs ==
  ASSUME NEW R, NEW A, NEW B, NEW S, NEW O
  PROVE  /\ Msg(R, A, B, S, O).role = R /\ Msg(R, A, B, S, O).calls = A
         /\ Msg(R, A, B, S, O).answers = B /\ Msg(R, A, B, S, O).of = O
BY DEF Msg

LEMMA MsgIsMessage ==
  ASSUME NEW n, NEW R \in {"system", "user", "assistant", "tool"}, NEW A \in Shapes, NEW B \in SUBSET LoopCalls,
         NEW S \in Nat, NEW O \in SUBSET (1..n)
  PROVE  Msg(R, A, B, S, O) \in MessageOf(n)
BY DEF Msg, MessageOf

LEMMA ResultIs ==
  ASSUME NEW m \in Nat, NEW id \in LoopCalls, NEW served \in Nat, NEW at \in 1..m
  PROVE  Msg("tool", <<>>, {id}, served, {at}) \in MessageOf(m)
<1>1. <<>> \in Shapes
  BY ToolLoopAssumption
<1>2. {id} \in SUBSET LoopCalls /\ {at} \in SUBSET (1..m)
  OBVIOUS
<1> QED BY <1>1, <1>2, MsgIsMessage

LEMMA ResultReads ==
  ASSUME NEW r, NEW id, NEW size, NEW at, r = Msg("tool", <<>>, {id}, size, {at})
  PROVE  r.role = "tool" /\ r.answers = {id} /\ r.of = {at}
BY DEF Msg

LEMMA MapIsSeq ==
  ASSUME NEW S, NEW n \in Nat, NEW f \in [1..n -> S]
  PROVE  f \in Seq(S) /\ Len(f) = n /\ DOMAIN f = 1..n
OBVIOUS

(* The messages a batch adds.                                               *)
LEMMA BatchMessages ==
  ASSUME NEW made \in Shapes, made # <<>>, NEW t \in Nat, t >= 1,
         NEW served, \A i \in DOMAIN made : served[i] \in Nat
  PROVE  /\ Len(made) \in Nat
         /\ Msg("assistant", made, {}, 1, {t}) \in MessageOf(t + Len(made))
         /\ [i \in DOMAIN made |-> Msg("tool", <<>>, {made[i]}, served[i], {t + i})] \in Seq(MessageOf(t + Len(made)))
         /\ Len([i \in DOMAIN made |-> Msg("tool", <<>>, {made[i]}, served[i], {t + i})]) = Len(made)
<1> DEFINE C == Len(made)
           results == [i \in DOMAIN made |-> Msg("tool", <<>>, {made[i]}, served[i], {t + i})]
<1>1. made \in Seq(LoopCalls) /\ C \in Nat /\ DOMAIN made = 1..C /\ t \in 1..t+C /\ t + C \in Nat
  <2>1. made \in Seq(LoopCalls)
    BY ToolLoopAssumption
  <2> QED BY <2>1
<1> HIDE DEF C
<1>2. Msg("assistant", made, {}, 1, {t}) \in MessageOf(t + C)
  <2>1. {t} \in SUBSET (1..t+C) /\ {} \in SUBSET LoopCalls /\ 1 \in Nat
    BY <1>1
  <2> QED BY <2>1, MsgIsMessage
<1>3. ASSUME NEW i \in 1..C PROVE results[i] \in MessageOf(t + C)
  <2>1. PICK call, bytes, spot, last : call = made[i] /\ bytes = served[i] /\ spot = t + i /\ last = t + C
    OBVIOUS
  <2>2. call \in LoopCalls /\ bytes \in Nat /\ spot \in 1..last /\ last \in Nat
    BY <1>1, <2>1
  <2>3. results[i] = Msg("tool", <<>>, {call}, bytes, {spot})
    BY <1>1, <2>1
  <2> HIDE DEF results
  <2>4. Msg("tool", <<>>, {call}, bytes, {spot}) \in MessageOf(last)
    BY <2>2, ResultIs
  <2>5. results[i] \in MessageOf(last)
    BY <2>3, <2>4
  <2> QED BY <2>1, <2>5
<1>4. results \in [1..C -> MessageOf(t + C)]
  <2>1. DOMAIN results = 1..C /\ results = [i \in 1..C |-> results[i]]
    BY <1>1
  <2> HIDE DEF results
  <2> QED BY <2>1, <1>3
<1> HIDE DEF results
<1>5. results \in Seq(MessageOf(t + C)) /\ Len(results) = C
  BY <1>1, <1>4, MapIsSeq
<1> QED BY <1>1, <1>2, <1>5 DEF results, C

(* What the end of a batch makes of the history before its turn.            *)
LEMMA BatchJoins ==
  ASSUME NEW n \in Nat, NEW h, HistoryOf(h, n), NEW made \in Shapes, made # <<>>,
         NEW t, t = n + 1,
         NEW answer, answer.role = "assistant", answer.calls = made, answer.of = {t},
         NEW results, Len(results) = Len(made),
         \A k \in 1..Len(made) : results[k].role = "tool" /\ results[k].answers = {made[k]} /\ results[k].of = {t + k},
         NEW whole \in Seq(MessageOf(t + Len(made))), Joined(whole, h, answer, results)
  PROVE  HistoryOf(whole, t + Len(made)) /\ TurnAtEnd(whole, t, t + Len(made))
<1>1. PICK b : b = Len(h) + 1
  OBVIOUS
<1>2. /\ \A i \in 1..Len(h) : whole[i] = h[i]
      /\ whole[b] = answer
      /\ \A k \in 1..Len(made) : whole[b + k] = results[k]
  BY <1>1 DEF Joined
<1>3. Len(whole) = b + Len(made)
  BY <1>1 DEF Joined
<1>4. whole[b].role = "assistant" /\ whole[b].calls = made /\ whole[b].of = {t}
  BY <1>2
<1>5. \A k \in 1..Len(made) : whole[b + k].role = "tool" /\ whole[b + k].answers = {made[k]} /\ whole[b + k].of = {t + k}
  BY <1>2
<1>6. Batched(h, n, made, whole)
  BY <1>1, <1>2, <1>3, <1>4, <1>5 DEF Batched
<1> QED BY <1>6, BatchShape

(* The first task of a session.                                              *)
LEMMA FreshHistory ==
  ASSUME NEW h, h = <<Msg("system", <<>>, {}, 1, {1}), Msg("user", <<>>, {}, 1, {2})>>
  PROVE  HistoryOf(h, 2)
<1>1. Len(h) = 2 /\ DOMAIN h = 1..2 /\ h[1] = Msg("system", <<>>, {}, 1, {1}) /\ h[2] = Msg("user", <<>>, {}, 1, {2})
  OBVIOUS
<1>2. /\ h[1] \in MessageOf(2) /\ h[1].role = "system" /\ h[1].of = {1}
      /\ h[2] \in MessageOf(2) /\ h[2].role = "user" /\ h[2].of = {2}
  BY <1>1, ToolLoopAssumption DEF Msg, MessageOf
<1>3. \A i \in 1..2 : i = 1 \/ i = 2
  OBVIOUS
<1>4. h \in Seq(MessageOf(2))
  BY <1>1, <1>2
<1>5. UNION {h[i].of : i \in DOMAIN h} = 1..2
  <2>1. \A x : x \in 1..2 <=> x = 1 \/ x = 2
    OBVIOUS
  <2> QED BY <2>1, <1>1, <1>2
<1>6. InOrder(h)
  BY <1>1, <1>2, <1>3 DEF InOrder
<1>7. Paired(h)
  BY <1>1, <1>2, <1>3 DEF Paired, MakesCalls
<1> QED BY <1>1, <1>2, <1>4, <1>5, <1>6, <1>7 DEF HistoryOf

(* The history a batch leaves, from the one its turn began with.              *)
LEMMA BatchEnds ==
  ASSUME NEW n \in Nat, NEW h, HistoryOf(h, n), NEW made \in Shapes, made # <<>>,
         NEW served, \A i \in DOMAIN made : served[i] \in Nat,
         NEW results, results = [i \in DOMAIN made |-> Msg("tool", <<>>, {made[i]}, served[i], {n + 1 + i})]
  PROVE  /\ Len(made) \in Nat
         /\ HistoryOf(Append(h, Msg("assistant", made, {}, 1, {n + 1})) \o results, n + 1 + Len(made))
         /\ TurnAtEnd(Append(h, Msg("assistant", made, {}, 1, {n + 1})) \o results, n + 1, n + 1 + Len(made))
<1>1. PICK t, answer, T : t = n + 1 /\ answer = Msg("assistant", made, {}, 1, {t}) /\ T = MessageOf(t + Len(made))
  OBVIOUS
<1>2. t \in Nat /\ t >= 1
  BY <1>1
<1>3. results = [i \in DOMAIN made |-> Msg("tool", <<>>, {made[i]}, served[i], {t + i})]
  BY <1>1
<1>4. /\ Len(made) \in Nat /\ answer \in T /\ results \in Seq(T) /\ Len(results) = Len(made)
      /\ \A i \in 1..Len(made) : results[i].role = "tool" /\ results[i].answers = {made[i]} /\ results[i].of = {t + i}
  <2>1. Len(made) \in Nat /\ Msg("assistant", made, {}, 1, {t}) \in MessageOf(t + Len(made))
    BY <1>2, BatchMessages
  <2>2. [i \in DOMAIN made |-> Msg("tool", <<>>, {made[i]}, served[i], {t + i})] \in Seq(MessageOf(t + Len(made)))
    BY <1>2, BatchMessages
  <2>3. Len([i \in DOMAIN made |-> Msg("tool", <<>>, {made[i]}, served[i], {t + i})]) = Len(made)
    BY <1>2, BatchMessages
  <2>4. ASSUME NEW i \in 1..Len(made)
        PROVE  results[i].role = "tool" /\ results[i].answers = {made[i]} /\ results[i].of = {t + i}
    <3>1. i \in DOMAIN made
      <4>1. made \in Seq(LoopCalls)
        BY ToolLoopAssumption
      <4> QED BY <4>1
    <3>2. results[i] = Msg("tool", <<>>, {made[i]}, served[i], {t + i})
      BY <1>3, <3>1
    <3>3. PICK r, id, size, at : r = results[i] /\ id = made[i] /\ size = served[i] /\ at = t + i
      OBVIOUS
    <3>4. r = Msg("tool", <<>>, {id}, size, {at})
      BY <3>2, <3>3
    <3>5. r.role = "tool"
      BY <3>4, ResultReads
    <3>6. r.answers = {id}
      BY <3>4 DEF Msg
    <3>7. r.of = {at}
      BY <3>4 DEF Msg
    <3> QED BY <3>3, <3>5, <3>6, <3>7
  <2> QED BY <1>1, <1>3, <2>1, <2>2, <2>3, <2>4
<1>5. answer.role = "assistant" /\ answer.calls = made /\ answer.of = {t}
  BY <1>1 DEF Msg
<1>6. h \in Seq(T)
  <2>1. MessageOf(n) \subseteq MessageOf(t + Len(made))
    <3>1. t + Len(made) \in Nat /\ n <= t + Len(made)
      BY <1>1, <1>4
    <3> QED BY <3>1, MessageLonger
  <2>2. h \in Seq(MessageOf(n))
    BY DEF HistoryOf
  <2> QED BY <1>1, <2>1, <2>2
<1>7. PICK whole : whole = Append(h, answer) \o results
  OBVIOUS
<1>8. whole \in Seq(T) /\ Joined(whole, h, answer, results)
  BY <1>4, <1>6, <1>7, JoinIs
<1>9. HistoryOf(whole, t + Len(made)) /\ TurnAtEnd(whole, t, t + Len(made))
  BY <1>1, <1>4, <1>5, <1>8, BatchJoins
<1> QED BY <1>1, <1>4, <1>7, <1>9

-----------------------------------------------------------------------------
(* The invariant of the loop. *)

LoopTypes ==
  /\ pc \in {"idle", "turn", "compacting", "model", "tools"} /\ turn \in 0..MaxRounds /\ tasks \in 0..MaxTasks
  /\ length \in Nat /\ carriedLength \in Nat /\ grew \in Seq(Nat)
  /\ calls \in Shapes /\ DOMAIN state = DOMAIN calls /\ DOMAIN output = DOMAIN calls
  /\ \A i \in DOMAIN calls : state[i] \in {"running", "digesting", "done", "skipped"} /\ output[i] \in Sizes \cup {0, Short}

(* What the session goes on from accounts for all of it.                     *)
CarriedInv == (carried = <<>> /\ carriedLength = 0) \/ HistoryOf(carried, carriedLength)

(* So does a run's history between batches, and the last turn ends it.       *)
RunInv ==
  /\ pc = "idle" => messages = <<>>
  /\ pc # "idle" => task \in carriedLength + 1..length
  /\ pc \in {"turn", "compacting", "model"} => HistoryOf(messages, length)
  /\ pc \in {"turn", "compacting", "model"} /\ KeepRecent > 0 /\ grew # <<>> => TurnAtEnd(messages, Last(grew), length)
  /\ pc = "compacting" => planCompaction(messages) # {}

(* While a batch runs, the history is one with the turn's calls behind.      *)
BatchInv ==
  /\ pc # "tools" => calls = <<>>
  /\ pc = "tools" =>
       /\ calls # <<>> /\ grew # <<>> /\ Last(grew) = length /\ length >= 1
       /\ \E h : HistoryOf(h, length - 1) /\ messages = Append(h, Msg("assistant", calls, {}, 1, {length}))

(* One digest at a time, and the latch tells.                                *)
LatchInv ==
  /\ LatchIsReleased
  /\ \A i, j \in DOMAIN calls : state[i] = "digesting" /\ state[j] = "digesting" => i = j

LoopInv == LoopTypes /\ CarriedInv /\ RunInv /\ BatchInv /\ LatchInv

(* A session begins without a history.                                       *)
LEMMA LoopBegins == LoopInit => LoopInv
<1> SUFFICES ASSUME LoopInit PROVE LoopInv
  OBVIOUS
<1>1. 0 \in 0..MaxRounds /\ 0 \in 0..MaxTasks /\ <<>> \in Shapes /\ <<>> \in Seq(Nat) /\ DOMAIN <<>> = {}
  BY ToolLoopAssumption
<1> QED BY <1>1 DEF LoopInit, LoopInv, LoopTypes, CarriedInv, RunInv, BatchInv, LatchInv, LatchIsReleased

(* A step that leaves the calls alone leaves the batch alone.                *)
LEMMA NoBatch ==
  ASSUME LoopInv, pc # "tools", pc' # "tools", UNCHANGED <<calls, state, output, digestInFlight>>
  PROVE  BatchInv' /\ LatchInv'
<1>1. calls = <<>> /\ calls' = <<>> /\ digestInFlight = FALSE /\ digestInFlight' = FALSE /\ DOMAIN <<>> = {}
  BY DEF LoopInv, BatchInv, LatchInv, LatchIsReleased
<1> QED BY <1>1 DEF BatchInv, LatchInv, LatchIsReleased

(* A task makes a fresh history, or joins the carried one.                   *)
LEMMA TaskStarts == ASSUME LoopInv, StartTask PROVE LoopInv'
<1>0. pc = "idle" /\ pc' = "turn" /\ grew' = <<>>
  BY DEF StartTask
<1>1. BatchInv' /\ LatchInv'
  BY <1>0, NoBatch DEF StartTask
<1>2. LoopTypes'
  <2>1. length' \in Nat
    BY DEF StartTask, LoopInv, LoopTypes
  <2>2. tasks' \in 0..MaxTasks /\ turn' \in 0..MaxRounds /\ <<>> \in Seq(Nat)
    BY ToolLoopAssumption DEF StartTask, LoopInv, LoopTypes
  <2> QED BY <1>0, <2>1, <2>2 DEF StartTask, LoopInv, LoopTypes
<1>3. CarriedInv'
  BY DEF StartTask, LoopInv, CarriedInv
<1>4. HistoryOf(messages', length') /\ task' \in carriedLength' + 1..length'
  <2>1. CASE carried = <<>>
    <3>1. messages' = <<Msg("system", <<>>, {}, 1, {1}), Msg("user", <<>>, {}, 1, {2})>> /\ length' = 2 /\ task' = 2
      BY <2>1 DEF StartTask
    <3>2. carriedLength = 0 /\ carriedLength' = 0
      <4>1. ~HistoryOf(carried, carriedLength)
        BY <2>1, HistoryFacts DEF LoopInv, LoopTypes
      <4> QED BY <4>1 DEF LoopInv, CarriedInv, StartTask
    <3>3. HistoryOf(messages', 2)
      BY <3>1, FreshHistory
    <3> QED BY <3>1, <3>2, <3>3
  <2>2. CASE carried # <<>>
    <3>1. PICK n, h, m : n = carriedLength /\ h = carried /\ m = Msg("user", <<>>, {}, 1, {n + 1})
      OBVIOUS
    <3>2. messages' = Append(h, m) /\ length' = n + 1 /\ task' = n + 1 /\ carriedLength' = n
      BY <2>2, <3>1 DEF StartTask
    <3>3. n \in Nat /\ HistoryOf(h, n)
      BY <2>2, <3>1 DEF LoopInv, LoopTypes, CarriedInv
    <3>4. m \in MessageOf(n + 1)
      <4>1. {n + 1} \in SUBSET (1..n + 1) /\ <<>> \in Shapes
        BY <3>3, ToolLoopAssumption
      <4> QED BY <3>1, <4>1, MsgIsMessage
    <3>5. m.of = {n + 1} /\ m.role = "user" /\ ~MakesCalls(m)
      BY <3>1 DEF Msg, MakesCalls
    <3>6. HistoryOf(Append(h, m), n + 1)
      BY <3>3, <3>4, <3>5, MessageJoins
    <3> QED BY <3>2, <3>3, <3>6
  <2> QED BY <2>1, <2>2
<1>5. RunInv'
  BY <1>0, <1>4 DEF RunInv
<1> QED BY <1>1, <1>2, <1>3, <1>5 DEF LoopInv

(* A turn plans a compaction, or goes on to the model.                       *)
LEMMA TurnBegins == ASSUME LoopInv, BeforeTurn PROVE LoopInv'
<1>0. /\ pc = "turn" /\ pc' \in {"model", "compacting"} /\ messages' = messages /\ length' = length /\ grew' = grew
      /\ task' = task /\ carriedLength' = carriedLength /\ carried' = carried
      /\ pc' = "compacting" => planCompaction(messages) # {}
  BY DEF BeforeTurn
<1>1. BatchInv' /\ LatchInv'
  BY <1>0, NoBatch DEF BeforeTurn
<1>2. LoopTypes'
  <2>1. turn' \in 0..MaxRounds
    BY ToolLoopAssumption DEF BeforeTurn, LoopInv, LoopTypes
  <2> QED BY <1>0, <2>1 DEF BeforeTurn, LoopInv, LoopTypes
<1>3. CarriedInv'
  BY <1>0 DEF LoopInv, CarriedInv
<1>4. RunInv'
  <2>1. planCompaction(messages') = planCompaction(messages)
    BY <1>0
  <2> QED BY <1>0, <2>1 DEF LoopInv, RunInv
<1> QED BY <1>1, <1>2, <1>3, <1>4 DEF LoopInv

(* What a step leaves when it only moves the run on to the model.            *)
LEMMA OnToTheModel ==
  ASSUME LoopInv, pc = "compacting", pc' = "model", HistoryOf(messages', length),
         KeepRecent > 0 /\ grew # <<>> => TurnAtEnd(messages', Last(grew), length),
         UNCHANGED <<carried, turn, tasks, calls, state, output, digestInFlight, length, carriedLength, task, grew>>
  PROVE  LoopInv'
<1>1. BatchInv' /\ LatchInv'
  BY NoBatch
<1>2. LoopTypes'
  BY DEF LoopInv, LoopTypes
<1>3. CarriedInv'
  BY DEF LoopInv, CarriedInv
<1>4. RunInv'
  BY DEF LoopInv, RunInv
<1> QED BY <1>1, <1>2, <1>3, <1>4 DEF LoopInv

(* Compaction replaces the history only with one that stands for the same.   *)
LEMMA DigestArrives == ASSUME LoopInv, NEW size \in DigestSizes, Compact(size) PROVE LoopInv'
<1>1. /\ pc = "compacting" /\ pc' = "model"
      /\ messages' = messages \/ messages' = Compacted(messages, planCompaction(messages), size)
      /\ UNCHANGED <<carried, turn, tasks, calls, state, output, digestInFlight, length, carriedLength, task, grew>>
  BY DEF Compact
<1>2. size \in Nat /\ length \in Nat
  BY ToolLoopAssumption DEF LoopInv, LoopTypes
<1>3. /\ HistoryOf(messages, length) /\ planCompaction(messages) # {}
      /\ KeepRecent > 0 /\ grew # <<>> => TurnAtEnd(messages, Last(grew), length)
  BY <1>1 DEF LoopInv, RunInv
<1>4. HistoryOf(Compacted(messages, planCompaction(messages), size), length)
  BY <1>2, <1>3, CompactionKeeps
<1>5. KeepRecent > 0 /\ grew # <<>> => TurnAtEnd(Compacted(messages, planCompaction(messages), size), Last(grew), length)
  <2> SUFFICES ASSUME KeepRecent > 0, grew # <<>>
               PROVE  TurnAtEnd(Compacted(messages, planCompaction(messages), size), Last(grew), length)
    OBVIOUS
  <2>1. TurnAtEnd(messages, Last(grew), length)
    BY <1>3
  <2> QED BY <1>2, <1>3, <2>1, CompactionKeepsTurn
<1>6. HistoryOf(messages', length)
  BY <1>1, <1>3, <1>4
<1>7. KeepRecent > 0 /\ grew # <<>> => TurnAtEnd(messages', Last(grew), length)
  BY <1>1, <1>3, <1>5
<1> QED BY <1>1, <1>6, <1>7, OnToTheModel

LEMMA DigestFails == ASSUME LoopInv, CompactFails PROVE LoopInv'
<1>1. /\ pc = "compacting" /\ pc' = "model" /\ messages' = messages
      /\ UNCHANGED <<carried, turn, tasks, calls, state, output, digestInFlight, length, carriedLength, task, grew>>
  BY DEF CompactFails
<1>2. HistoryOf(messages', length)
  BY <1>1 DEF LoopInv, RunInv
<1>3. KeepRecent > 0 /\ grew # <<>> => TurnAtEnd(messages', Last(grew), length)
  BY <1>1 DEF LoopInv, RunInv
<1> QED BY <1>1, <1>2, <1>3, OnToTheModel

(* The end of a run, with a history the session can go on from.              *)
LEMMA RunEnds ==
  ASSUME LoopInv, pc \in {"turn", "model"}, NEW history, NEW said, said \in Nat, EndRun(history, said),
         (history = <<>> /\ said = 0) \/ HistoryOf(history, said),
         UNCHANGED <<calls, state, output, digestInFlight>>
  PROVE  LoopInv'
<1>0. pc' = "idle" /\ carried' = history /\ carriedLength' = said /\ messages' = <<>> /\ length' = 0 /\ grew' = <<>>
  BY DEF EndRun
<1>1. BatchInv' /\ LatchInv'
  BY <1>0, NoBatch
<1>2. LoopTypes'
  <2>1. turn' \in 0..MaxRounds /\ tasks' \in 0..MaxTasks /\ <<>> \in Seq(Nat) /\ 0 \in Nat
    BY ToolLoopAssumption DEF EndRun, LoopInv, LoopTypes
  <2> QED BY <1>0, <2>1 DEF LoopInv, LoopTypes
<1>3. CarriedInv'
  BY <1>0 DEF CarriedInv
<1>4. RunInv'
  BY <1>0 DEF RunInv
<1> QED BY <1>1, <1>2, <1>3, <1>4 DEF LoopInv

LEMMA CapEnds == ASSUME LoopInv, CapReached PROVE LoopInv'
<1>1. pc = "turn" /\ EndRun(messages, length) /\ UNCHANGED <<calls, state, output, digestInFlight>>
  BY DEF CapReached
<1>2. HistoryOf(messages, length) /\ length \in Nat
  BY <1>1 DEF LoopInv, RunInv, LoopTypes
<1> QED BY <1>1, <1>2, RunEnds

LEMMA FailureEnds == ASSUME LoopInv, ModelFails PROVE LoopInv'
<1>1. pc = "model" /\ EndRun(carried, carriedLength) /\ UNCHANGED <<calls, state, output, digestInFlight>>
  BY DEF ModelFails
<1>2. carriedLength \in Nat /\ ((carried = <<>> /\ carriedLength = 0) \/ HistoryOf(carried, carriedLength))
  BY DEF LoopInv, LoopTypes, CarriedInv
<1> QED BY <1>1, <1>2, RunEnds

(* An answer without calls ends the run; one with calls begins a batch.      *)
LEMMA AnswerTaken == ASSUME LoopInv, NEW made \in Shapes, ModelAnswers(made) PROVE LoopInv'
<1>1. pc = "model" /\ UNCHANGED digestInFlight /\ HistoryOf(messages, length) /\ length \in Nat
  BY DEF ModelAnswers, LoopInv, RunInv, LoopTypes
<1>2. CASE made = <<>>
  <2>1. PICK m, n, h : m = Msg("assistant", made, {}, 1, {n + 1}) /\ n = length /\ h = messages
    OBVIOUS
  <2>2. EndRun(Append(h, m), n + 1) /\ UNCHANGED <<calls, state, output>>
    BY <1>2, <2>1 DEF ModelAnswers
  <2>3. m \in MessageOf(n + 1)
    <3>1. {n + 1} \in SUBSET (1..n + 1) /\ {} \in SUBSET LoopCalls /\ 1 \in Nat
      BY <1>1, <2>1
    <3> QED BY <2>1, <3>1, MsgIsMessage
  <2>4. m.of = {n + 1} /\ m.role = "assistant" /\ ~MakesCalls(m)
    BY <1>2, <2>1 DEF Msg, MakesCalls
  <2>5. HistoryOf(Append(h, m), n + 1)
    BY <1>1, <2>1, <2>3, <2>4, MessageJoins
  <2>6. n + 1 \in Nat
    BY <1>1, <2>1
  <2> QED BY <1>1, <2>2, <2>5, <2>6, RunEnds
<1>3. CASE made # <<>>
  <2>1. /\ pc' = "tools" /\ calls' = made /\ messages' = Append(messages, Msg("assistant", made, {}, 1, {length + 1}))
        /\ length' = length + 1 /\ grew' = Append(grew, length + 1)
        /\ state' = [i \in DOMAIN made |-> "running"] /\ output' = [i \in DOMAIN made |-> 0]
        /\ UNCHANGED <<carried, carriedLength, turn, tasks, task>>
    BY <1>3 DEF ModelAnswers
  <2>2. LoopTypes'
    <3>1. grew' \in Seq(Nat) /\ length' \in Nat
      BY <1>1, <2>1 DEF LoopInv, LoopTypes
    <3>2. DOMAIN state' = DOMAIN calls' /\ DOMAIN output' = DOMAIN calls'
          /\ \A i \in DOMAIN calls' : state'[i] = "running" /\ output'[i] = 0
      BY <2>1
    <3> QED BY <2>1, <3>1, <3>2 DEF LoopInv, LoopTypes
  <2>3. CarriedInv'
    BY <2>1 DEF LoopInv, CarriedInv
  <2>4. RunInv'
    <3>1. task \in carriedLength + 1..length /\ carriedLength \in Nat
      BY <1>1 DEF LoopInv, RunInv, LoopTypes
    <3>2. task' \in carriedLength' + 1..length'
      BY <1>1, <2>1, <3>1
    <3> QED BY <2>1, <3>2 DEF RunInv
  <2>5. BatchInv'
    <3>1. grew' # <<>> /\ Last(grew') = length'
      BY <1>1, <2>1 DEF LoopInv, LoopTypes, Last
    <3>2. length' >= 1 /\ length' - 1 = length
      BY <1>1, <2>1
    <3>3. HistoryOf(messages, length' - 1) /\ messages' = Append(messages, Msg("assistant", calls', {}, 1, {length'}))
      BY <1>1, <2>1, <3>2
    <3>4. calls' # <<>> /\ pc' = "tools"
      BY <1>3, <2>1
    <3> QED BY <3>1, <3>2, <3>3, <3>4 DEF BatchInv
  <2>6. LatchInv'
    <3>1. digestInFlight = FALSE /\ digestInFlight' = FALSE
      BY <1>1 DEF LoopInv, LatchInv, LatchIsReleased
    <3>2. \A i \in DOMAIN calls' : state'[i] # "digesting"
      BY <2>1
    <3> QED BY <3>1, <3>2 DEF LatchInv, LatchIsReleased
  <2> QED BY <2>2, <2>3, <2>4, <2>5, <2>6 DEF LoopInv
<1> QED BY <1>2, <1>3

(* A call that moves on, or is over, while its batch runs.                   *)
LEMMA BatchGoesOn ==
  ASSUME LoopInv, pc = "tools", LatchInv', DOMAIN state' = DOMAIN calls, DOMAIN output' = DOMAIN calls,
         \A i \in DOMAIN calls : /\ state'[i] \in {"running", "digesting", "done", "skipped"}
                                 /\ output'[i] \in Sizes \cup {0, Short},
         UNCHANGED <<pc, messages, carried, turn, tasks, calls, length, carriedLength, task, grew>>
  PROVE  LoopInv'
<1>1. LoopTypes'
  BY DEF LoopInv, LoopTypes
<1>2. CarriedInv'
  BY DEF LoopInv, CarriedInv
<1>3. RunInv'
  BY DEF LoopInv, RunInv
<1>4. BatchInv'
  BY DEF LoopInv, BatchInv
<1> QED BY <1>1, <1>2, <1>3, <1>4 DEF LoopInv

(* Only a call that finds the latch free takes it.                           *)
LEMMA ToolIsBack == ASSUME LoopInv, NEW i \in DOMAIN calls, NEW size \in Sizes, ToolReturns(i, size) PROVE LoopInv'
<1>1. /\ pc = "tools" /\ state[i] = "running"
      /\ UNCHANGED <<pc, messages, carried, turn, tasks, calls, length, carriedLength, task, grew>>
  BY DEF ToolReturns
<1>2. /\ DOMAIN state = DOMAIN calls /\ DOMAIN output = DOMAIN calls /\ LatchIsReleased
      /\ \A k \in DOMAIN calls : state[k] \in {"running", "digesting", "done", "skipped"} /\ output[k] \in Sizes \cup {0, Short}
      /\ \A k, l \in DOMAIN calls : state[k] = "digesting" /\ state[l] = "digesting" => k = l
  BY DEF LoopInv, LoopTypes, LatchInv
<1>3. CASE ~digestInFlight /\ digestInFlight' = TRUE /\ state' = [state EXCEPT ![i] = "digesting"] /\ output' = output
  <2>1. \A k \in DOMAIN calls : state[k] # "digesting"
    BY <1>1, <1>2, <1>3 DEF LatchIsReleased
  <2>2. DOMAIN state' = DOMAIN calls /\ \A k \in DOMAIN calls : state'[k] = IF k = i THEN "digesting" ELSE state[k]
    BY <1>2, <1>3
  <2>3. LatchInv'
    BY <1>1, <1>3, <2>1, <2>2 DEF LatchInv, LatchIsReleased
  <2>4. \A k \in DOMAIN calls : /\ state'[k] \in {"running", "digesting", "done", "skipped"}
                                /\ output'[k] \in Sizes \cup {0, Short}
    BY <1>2, <1>3, <2>2
  <2> QED BY <1>1, <1>2, <1>3, <2>2, <2>3, <2>4, BatchGoesOn
<1>4. CASE /\ \E served \in {size, Short} : output' = [output EXCEPT ![i] = served]
           /\ state' = [state EXCEPT ![i] = "done"] /\ digestInFlight' = digestInFlight
  <2>1. PICK served \in {size, Short} : output' = [output EXCEPT ![i] = served]
    BY <1>4
  <2>2. DOMAIN state' = DOMAIN calls /\ \A k \in DOMAIN calls : state'[k] = IF k = i THEN "done" ELSE state[k]
    BY <1>2, <1>4
  <2>3. DOMAIN output' = DOMAIN calls /\ \A k \in DOMAIN calls : output'[k] = IF k = i THEN served ELSE output[k]
    BY <1>2, <2>1
  <2>4. \A k \in DOMAIN calls : state'[k] = "digesting" <=> state[k] = "digesting"
    BY <1>1, <2>2
  <2>5. LatchInv'
    BY <1>1, <1>2, <1>4, <2>4 DEF LatchInv, LatchIsReleased
  <2>6. \A k \in DOMAIN calls : /\ state'[k] \in {"running", "digesting", "done", "skipped"}
                                /\ output'[k] \in Sizes \cup {0, Short}
    BY <1>2, <2>2, <2>3
  <2> QED BY <1>1, <2>2, <2>3, <2>5, <2>6, BatchGoesOn
<1> QED BY <1>3, <1>4 DEF ToolReturns

(* The call whose digest settles is the one that held the latch.             *)
LEMMA DigestIsBack == ASSUME LoopInv, NEW i \in DOMAIN calls, DigestSettles(i) PROVE LoopInv'
<1>1. /\ pc = "tools" /\ state[i] = "digesting" /\ digestInFlight' = FALSE
      /\ state' = [state EXCEPT ![i] = "done"] /\ output' = [output EXCEPT ![i] = Short]
      /\ UNCHANGED <<pc, messages, carried, turn, tasks, calls, length, carriedLength, task, grew>>
  BY DEF DigestSettles
<1>2. /\ DOMAIN state = DOMAIN calls /\ DOMAIN output = DOMAIN calls
      /\ \A k \in DOMAIN calls : state[k] \in {"running", "digesting", "done", "skipped"} /\ output[k] \in Sizes \cup {0, Short}
      /\ \A k, l \in DOMAIN calls : state[k] = "digesting" /\ state[l] = "digesting" => k = l
  BY DEF LoopInv, LoopTypes, LatchInv
<1>3. DOMAIN state' = DOMAIN calls /\ \A k \in DOMAIN calls : state'[k] = IF k = i THEN "done" ELSE state[k]
  BY <1>1, <1>2
<1>4. DOMAIN output' = DOMAIN calls /\ \A k \in DOMAIN calls : output'[k] = IF k = i THEN Short ELSE output[k]
  BY <1>1, <1>2
<1>5. \A k \in DOMAIN calls : state'[k] # "digesting"
  BY <1>1, <1>2, <1>3
<1>6. LatchInv'
  BY <1>1, <1>5 DEF LatchInv, LatchIsReleased
<1>7. \A k \in DOMAIN calls : /\ state'[k] \in {"running", "digesting", "done", "skipped"}
                              /\ output'[k] \in Sizes \cup {0, Short}
  BY <1>2, <1>3, <1>4
<1> QED BY <1>1, <1>3, <1>4, <1>6, <1>7, BatchGoesOn

LEMMA CallIsSkipped == ASSUME LoopInv, NEW i \in DOMAIN calls, SkipCall(i) PROVE LoopInv'
<1>1. /\ pc = "tools" /\ state[i] = "running" /\ state' = [state EXCEPT ![i] = "skipped"]
      /\ UNCHANGED <<pc, messages, carried, turn, tasks, calls, output, digestInFlight, length, carriedLength, task, grew>>
  BY DEF SkipCall
<1>2. /\ DOMAIN state = DOMAIN calls /\ DOMAIN output = DOMAIN calls /\ LatchIsReleased
      /\ \A k \in DOMAIN calls : state[k] \in {"running", "digesting", "done", "skipped"} /\ output[k] \in Sizes \cup {0, Short}
      /\ \A k, l \in DOMAIN calls : state[k] = "digesting" /\ state[l] = "digesting" => k = l
  BY DEF LoopInv, LoopTypes, LatchInv
<1>3. DOMAIN state' = DOMAIN calls /\ \A k \in DOMAIN calls : state'[k] = IF k = i THEN "skipped" ELSE state[k]
  BY <1>1, <1>2
<1>4. \A k \in DOMAIN calls : state'[k] = "digesting" <=> state[k] = "digesting"
  BY <1>1, <1>3
<1>5. LatchInv'
  BY <1>1, <1>2, <1>4 DEF LatchInv, LatchIsReleased
<1>6. \A k \in DOMAIN calls : /\ state'[k] \in {"running", "digesting", "done", "skipped"}
                              /\ output'[k] \in Sizes \cup {0, Short}
  BY <1>1, <1>2, <1>3
<1> QED BY <1>1, <1>2, <1>3, <1>5, <1>6, BatchGoesOn

(* The results join the history, and the turn they belong to ends it.        *)
LEMMA BatchIsOver == ASSUME LoopInv, EndBatch PROVE LoopInv'
<1>1. /\ pc = "tools" /\ pc' = "turn" /\ messages' = messages \o Results /\ length' = length + Len(calls)
      /\ calls' = <<>> /\ state' = <<>> /\ output' = <<>>
      /\ UNCHANGED <<carried, turn, tasks, digestInFlight, carriedLength, task, grew>>
      /\ \A i \in DOMAIN calls : state[i] \in {"done", "skipped"}
  BY DEF EndBatch
<1>2. PICK h : HistoryOf(h, length - 1) /\ messages = Append(h, Msg("assistant", calls, {}, 1, {length}))
  BY <1>1 DEF LoopInv, BatchInv
<1>3. /\ calls # <<>> /\ calls \in Shapes /\ length >= 1 /\ length \in Nat /\ Last(grew) = length
      /\ \A i \in DOMAIN calls : output[i] \in Nat
  <2>1. \A i \in DOMAIN calls : output[i] \in Sizes \cup {0, Short}
    BY DEF LoopInv, LoopTypes
  <2>2. Sizes \subseteq Nat /\ Short \in Nat
    BY ToolLoopAssumption
  <2>3. calls # <<>> /\ calls \in Shapes /\ length >= 1 /\ length \in Nat /\ Last(grew) = length
    BY <1>1 DEF LoopInv, LoopTypes, BatchInv
  <2>4. ASSUME NEW i \in DOMAIN calls PROVE output[i] \in Nat
    <3>1. PICK x : x = output[i]
      OBVIOUS
    <3>2. x \in Sizes \/ x = 0 \/ x = Short
      BY <2>1, <3>1
    <3>3. 0 \in Nat
      OBVIOUS
    <3> QED BY <2>2, <3>1, <3>2, <3>3, Zenon
  <2> QED BY <2>3, <2>4
<1>4. PICK n, made, served, results :
        /\ n = length - 1 /\ made = calls /\ results = Results
        /\ served = [i \in DOMAIN calls |-> IF state[i] = "skipped" THEN 1 ELSE output[i]]
  OBVIOUS
<1>5. n \in Nat /\ n + 1 = length /\ made \in Shapes /\ made # <<>> /\ HistoryOf(h, n)
  BY <1>2, <1>3, <1>4
<1>6. \A i \in DOMAIN made : served[i] \in Nat /\ served[i] = IF state[i] = "skipped" THEN 1 ELSE output[i]
  BY <1>3, <1>4
<1>7. results = [i \in DOMAIN made |-> Msg("tool", <<>>, {made[i]}, served[i], {n + 1 + i})]
  <2>1. results = [i \in DOMAIN made |-> Msg("tool", <<>>, {made[i]}, IF state[i] = "skipped" THEN 1 ELSE output[i], {length + i})]
    BY <1>4 DEF Results
  <2> QED BY <1>5, <1>6, <2>1
<1>8. messages' = Append(h, Msg("assistant", made, {}, 1, {n + 1})) \o results /\ length' = n + 1 + Len(made)
  BY <1>1, <1>2, <1>4, <1>5
<1>9. Len(made) \in Nat
  BY <1>5, <1>6, <1>7, BatchEnds
<1>10. HistoryOf(messages', length')
  <2>1. HistoryOf(Append(h, Msg("assistant", made, {}, 1, {n + 1})) \o results, n + 1 + Len(made))
    BY <1>5, <1>6, <1>7, BatchEnds
  <2> QED BY <1>8, <2>1
<1>11. TurnAtEnd(messages', Last(grew), length')
  <2>1. TurnAtEnd(Append(h, Msg("assistant", made, {}, 1, {n + 1})) \o results, n + 1, n + 1 + Len(made))
    BY <1>5, <1>6, <1>7, BatchEnds
  <2> QED BY <1>3, <1>5, <1>8, <2>1
<1>12. LoopTypes'
  <2>1. length' \in Nat
    BY <1>5, <1>8, <1>9
  <2> QED BY <1>1, <2>1, ToolLoopAssumption DEF LoopInv, LoopTypes
<1>13. CarriedInv'
  BY <1>1 DEF LoopInv, CarriedInv
<1>14. RunInv'
  <2>1. task' \in carriedLength' + 1..length'
    <3>1. task \in carriedLength + 1..length /\ carriedLength \in Nat
      BY <1>1 DEF LoopInv, LoopTypes, RunInv
    <3> QED BY <1>1, <1>3, <1>5, <1>8, <1>9, <3>1
  <2> QED BY <1>1, <1>10, <1>11, <2>1 DEF RunInv
<1>15. BatchInv' /\ LatchInv'
  <2>1. ~digestInFlight
    BY <1>1 DEF LoopInv, LatchInv, LatchIsReleased
  <2>2. DOMAIN <<>> = {}
    OBVIOUS
  <2> QED BY <1>1, <2>1, <2>2 DEF BatchInv, LatchInv, LatchIsReleased
<1> QED BY <1>12, <1>13, <1>14, <1>15 DEF LoopInv

(* No step breaks the invariant.                                             *)
LEMMA LoopStays == LoopInv /\ [LoopNext]_loopVars => LoopInv'
<1> SUFFICES ASSUME LoopInv, [LoopNext]_loopVars PROVE LoopInv'
  OBVIOUS
<1>1. CASE StartTask
  BY <1>1, TaskStarts
<1>2. CASE BeforeTurn
  BY <1>2, TurnBegins
<1>3. CASE EndBatch
  BY <1>3, BatchIsOver
<1>4. CASE CapReached
  BY <1>4, CapEnds
<1>5. CASE CompactFails
  BY <1>5, DigestFails
<1>6. CASE ModelFails
  BY <1>6, FailureEnds
<1>7. CASE \E size \in DigestSizes : Compact(size)
  BY <1>7, DigestArrives
<1>8. CASE \E made \in Shapes : ModelAnswers(made)
  BY <1>8, AnswerTaken
<1>9. CASE \E i \in DOMAIN calls, size \in Sizes : ToolReturns(i, size)
  BY <1>9, ToolIsBack
<1>10. CASE \E i \in DOMAIN calls : DigestSettles(i) \/ SkipCall(i)
  BY <1>10, DigestIsBack, CallIsSkipped
<1>11. CASE UNCHANGED loopVars
  BY <1>11 DEF loopVars, LoopInv, LoopTypes, CarriedInv, RunInv, BatchInv, LatchInv, LatchIsReleased
<1> QED BY <1>1, <1>2, <1>3, <1>4, <1>5, <1>6, <1>7, <1>8, <1>9, <1>10, <1>11 DEF LoopNext

(* What the parts of the invariant say of the properties.                    *)
LEMMA TypesHold == ASSUME LoopInv PROVE LoopTypeOK
<1>1. ASSUME NEW i \in DOMAIN messages PROVE messages[i] \in Message
  <2>1. Message = MessageOf(length)
    BY DEF Message, MessageOf
  <2>2. CASE pc = "idle"
    BY <2>2 DEF LoopInv, RunInv
  <2>3. CASE pc \in {"turn", "compacting", "model"}
    <3>1. messages \in Seq(MessageOf(length))
      BY <2>3 DEF LoopInv, RunInv, HistoryOf
    <3> QED BY <2>1, <3>1
  <2>4. CASE pc = "tools"
    <3>1. PICK h : HistoryOf(h, length - 1) /\ messages = Append(h, Msg("assistant", calls, {}, 1, {length}))
      BY <2>4 DEF LoopInv, BatchInv
    <3>2. length \in Nat /\ length >= 1 /\ calls \in Shapes
      BY <2>4 DEF LoopInv, LoopTypes, BatchInv
    <3>3. PICK m, n : m = Msg("assistant", calls, {}, 1, {length}) /\ n = length - 1
      OBVIOUS
    <3>4. n \in Nat /\ n <= length
      BY <3>2, <3>3
    <3>5. h \in Seq(MessageOf(length))
      <4>1. MessageOf(n) \subseteq MessageOf(length)
        BY <3>2, <3>4, MessageLonger
      <4>2. h \in Seq(MessageOf(n))
        BY <3>1, <3>3 DEF HistoryOf
      <4> QED BY <4>1, <4>2
    <3>6. m \in MessageOf(length)
      <4>1. {length} \in SUBSET (1..length) /\ {} \in SUBSET LoopCalls /\ 1 \in Nat
        BY <3>2
      <4> QED BY <3>2, <3>3, <4>1, MsgIsMessage
    <3>7. messages \in Seq(MessageOf(length))
      BY <3>1, <3>3, <3>5, <3>6
    <3> QED BY <2>1, <3>7
  <2> QED BY <2>2, <2>3, <2>4 DEF LoopInv, LoopTypes
<1> QED BY <1>1 DEF LoopInv, LoopTypes, RunInv, LoopTypeOK

LEMMA PairsHold == ASSUME LoopInv PROVE SentHistoriesPair /\ InstructionsStay
<1>1. Paired(carried)
  <2>1. CASE carried = <<>>
    <3>1. DOMAIN <<>> = {}
      OBVIOUS
    <3> QED BY <2>1, <3>1 DEF Paired
  <2>2. CASE HistoryOf(carried, carriedLength)
    BY <2>2 DEF HistoryOf
  <2> QED BY <2>1, <2>2 DEF LoopInv, CarriedInv
<1>2. ASSUME pc = "model"
      PROVE  Paired(messages) /\ Len(messages) >= 2 /\ messages[1].role = "system" /\ messages[1].of = {1} /\ messages[2].of = {2}
  BY <1>2 DEF LoopInv, RunInv, HistoryOf
<1> QED BY <1>1, <1>2 DEF SentHistoriesPair, InstructionsStay

(* The largest position of a message is one of its own.                      *)
LEMMA AllIsAccounted == ASSUME LoopInv PROVE NothingIsForgotten
<1> SUFFICES ASSUME pc = "model"
             PROVE  /\ UNION {messages[i].of : i \in DOMAIN messages} = 1..length
                    /\ \A i, j \in DOMAIN messages : i < j /\ Cardinality(messages[j].of) = 1 =>
                         Max(messages[i].of) < Max(messages[j].of)
  BY DEF NothingIsForgotten
<1>1. HistoryOf(messages, length) /\ length \in Nat
  BY DEF LoopInv, LoopTypes, RunInv
<1>2. DOMAIN messages = 1..Len(messages)
  BY <1>1, HistoryFacts
<1>3. ASSUME NEW i \in DOMAIN messages PROVE Max(messages[i].of) \in messages[i].of
  <2>1. PICK T : T = messages[i].of
    OBVIOUS
  <2>2. T # {} /\ \A x \in T : x \in 1..length
    BY <1>1, <1>2, <2>1, OrderNumbers DEF HistoryOf
  <2>3. T \subseteq Nat /\ \A x \in T : x <= length
    BY <1>1, <2>2
  <2>4. Max(T) \in T
    BY <1>1, <2>2, <2>3, MaxIs
  <2> QED BY <2>1, <2>4
<1>4. ASSUME NEW i \in DOMAIN messages, NEW j \in DOMAIN messages, i < j, Cardinality(messages[j].of) = 1
      PROVE  Max(messages[i].of) < Max(messages[j].of)
  <2>1. InOrder(messages)
    BY <1>1 DEF HistoryOf
  <2>2. PICK x, y : x = Max(messages[i].of) /\ y = Max(messages[j].of)
    OBVIOUS
  <2>3. x \in messages[i].of /\ y \in messages[j].of
    BY <1>3, <2>2
  <2>4. x < y
    BY <1>4, <2>1, <2>3 DEF InOrder
  <2> QED BY <2>2, <2>4
<1> QED BY <1>1, <1>4 DEF HistoryOf

(* The positions of the last turn are those of the messages that end it.     *)
LEMMA LastTurnStays == ASSUME LoopInv, KeepRecent > 0 PROVE LastTurnIsVerbatim
<1> SUFFICES ASSUME pc = "model", grew # <<>>, NEW n \in Last(grew)..length PROVE Verbatim(messages, n)
  BY DEF LastTurnIsVerbatim
<1>1. HistoryOf(messages, length) /\ TurnAtEnd(messages, Last(grew), length) /\ length \in Nat
  BY DEF LoopInv, LoopTypes, RunInv
<1>2. Last(grew) \in Nat
  BY DEF LoopInv, LoopTypes, Last
<1>3. PICK from : from = Last(grew)
  OBVIOUS
<1>4. PICK p \in 3..Len(messages) :
        /\ p + Len(messages[p].calls) = Len(messages) /\ length = from + Len(messages[p].calls)
        /\ \A k \in 0..Len(messages[p].calls) : messages[p + k].of = {from + k}
  BY <1>1, <1>3 DEF TurnAtEnd
<1>5. Len(messages) \in Nat /\ DOMAIN messages = 1..Len(messages) /\ messages[p].calls \in Seq(LoopCalls)
  <2>1. Len(messages) \in Nat /\ DOMAIN messages = 1..Len(messages) /\ messages[p] \in MessageOf(length)
    BY <1>1, <1>4, HistoryFacts
  <2> QED BY <2>1, CallsFacts
<1>6. PICK c : c = Len(messages[p].calls)
  OBVIOUS
<1>7. c \in Nat
  BY <1>5, <1>6
<1>8. n - from \in 0..c /\ from + (n - from) = n
  BY <1>1, <1>2, <1>3, <1>4, <1>6, <1>7
<1>9. messages[p + (n - from)].of = {n}
  BY <1>4, <1>6, <1>8
<1>10. p + (n - from) \in 1..Len(messages)
  <2>1. PICK d, l : d = n - from /\ l = Len(messages)
    OBVIOUS
  <2>4. l \in Nat /\ p \in 3..l
    BY <1>4, <1>5, <2>1
  <2>5. l = p + c
    BY <1>4, <1>6, <2>1
  <2>2. d \in 0..c /\ l = p + c /\ p \in Nat /\ p >= 3
    BY <1>8, <2>1, <2>4, <2>5
  <2>3. p + d \in 1..l
    BY <1>7, <2>2
  <2> QED BY <2>1, <2>3
<1> QED BY <1>5, <1>9, <1>10 DEF Verbatim

LEMMA HistoriesHold == LoopInv /\ KeepRecent > 0 => HistoriesAreWhole
BY TypesHold, PairsHold, AllIsAccounted, LastTurnStays DEF HistoriesAreWhole, LoopInv, LatchInv

(* Whatever compaction keeps verbatim: calls and results stay together, the  *)
(* instructions in front, nothing said is unaccounted for, and the latch of  *)
(* the summarizer is released.                                               *)
THEOREM HistoriesAccount ==
  LoopSpec => [](LoopTypeOK /\ SentHistoriesPair /\ InstructionsStay /\ NothingIsForgotten /\ LatchIsReleased)
<1>1. LoopInv => LoopTypeOK /\ SentHistoriesPair /\ InstructionsStay /\ NothingIsForgotten /\ LatchIsReleased
  BY TypesHold, PairsHold, AllIsAccounted DEF LoopInv, LatchInv
<1> QED BY LoopBegins, LoopStays, <1>1, PTL DEF LoopSpec

(* What a session sends to a model keeps every call with its results, its    *)
(* instructions and first task, the turn just completed, and a trace of      *)
(* everything that was said, through any number of compactions, skipped      *)
(* calls and tasks, when compaction keeps at least one unit, as it does      *)
(* unless a caller asks for none.                                            *)
THEOREM HistoriesStayWhole == ASSUME KeepRecent > 0 PROVE LoopSpec => []HistoriesAreWhole
<1>1. LoopInv => HistoriesAreWhole
  BY HistoriesHold
<1> QED BY LoopBegins, LoopStays, <1>1, PTL DEF LoopSpec
=============================================================================
