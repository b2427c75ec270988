----------------------- MODULE ChatGptPlanAuth_proofs -----------------------
(***************************************************************************)
(* Proofs about ChatGptPlanAuth: what the store keeps while refreshes,      *)
(* sign-ins and sign-outs overtake each other.                              *)
(***************************************************************************)
EXTENDS ChatGptPlanAuth, SequenceTheorems, TLAPS

Records == credentials.accounts

(* Good, or excused: a sign-out revoked it, or its replacement was lost.    *)
Excused == valid \cup revoked \cup lost

(* Refreshes share one promise, so there is one refresh at a time.          *)
OneRefresh == \A x, y \in refreshes : x = y

(* No token is older than its name: the next one is nobody's yet.           *)
Numbered ==
  /\ \A i \in DOMAIN Records : Records[i].refresh # NoToken => Records[i].refresh <= issued
  /\ \A x \in refreshes :
       /\ x.account.refresh \in Token /\ x.account.refresh <= issued
       /\ x.answer \in Token => x.answer <= issued

(* What a refresh presents is of no other account than the one it is for.   *)
RefreshesAreOwned ==
  \A x \in refreshes, i \in DOMAIN Records :
    Records[i].refresh = x.account.refresh => Records[i].key = x.account.key

(* A replacement on its way back is good, and saved nowhere yet.            *)
AnswersAreNew ==
  \A x \in refreshes : x.answer \in Token =>
    /\ x.answer \in Excused
    /\ \A i \in DOMAIN Records : Records[i].refresh # x.answer

RefreshesAreRight == OneRefresh /\ Numbered /\ RefreshesAreOwned /\ AnswersAreNew

TokensAreGood == NoSpentTokenPresented /\ SavedTokensAreGood

StoreIsRight == FileMatchesMemory /\ ActiveIsSaved /\ OneRecordEach(credentials)

AttemptsAreRight == SignedInMeansCompleted /\ PortIsReleased

IInv ==
  /\ TypeOK
  /\ TokensAreGood
  /\ StoreIsRight
  /\ AttemptsAreRight
  /\ RefreshesAreRight

-----------------------------------------------------------------------------
(* A document d is c with the record put in: in its place, or at the end.   *)
Puts(d, c, record) ==
  /\ d \in Credentials /\ d.active = c.active
  /\ KeysOf(d) = KeysOf(c) \cup {record.key}
  /\ \E p \in DOMAIN d.accounts :
       /\ d.accounts[p] = record
       /\ \A i \in DOMAIN d.accounts \ {p} :
            i \in DOMAIN c.accounts /\ d.accounts[i] = c.accounts[i] /\ c.accounts[i].key # record.key

LEMMA WithPuts ==
  ASSUME NEW c \in Credentials, OneRecordEach(c), NEW record \in Account
  PROVE  Puts(With(c, record), c, record)
<1> DEFINE as == c.accounts
           d == With(c, record)
<1>1. as \in Seq(Account) /\ DOMAIN as = 1..Len(as) /\ Len(as) \in Nat /\ record.key \in Keys
  BY DEF Credentials, Account
<1>2. c = [accounts |-> as, active |-> c.active] /\ c.active \in Keys \cup {NoKey}
  BY DEF Credentials
<1>3. CASE record.key \in KeysOf(c)
  <2> DEFINE bs == [i \in DOMAIN as |-> IF as[i].key = record.key THEN record ELSE as[i]]
  <2>1. d = [accounts |-> bs, active |-> c.active]
    BY <1>2, <1>3 DEF With
  <2>2. PICK p \in DOMAIN as : as[p].key = record.key
    BY <1>3 DEF KeysOf
  <2>3. \A i \in DOMAIN as : as[i].key = record.key => i = p
    BY <2>2 DEF OneRecordEach
  <2>4. \A i \in 1..Len(as) : bs[i] \in Account
    BY <1>1
  <2>5. bs \in Seq(Account) /\ DOMAIN bs = DOMAIN as
    BY <1>1, <2>4
  <2>6. /\ bs[p] = record
        /\ \A i \in DOMAIN bs \ {p} : bs[i] = as[i] /\ as[i].key # record.key
    BY <2>2, <2>3
  <2>7. KeysOf(d) = KeysOf(c) \cup {record.key}
    <3> HIDE DEF bs
    <3>1. \A i \in DOMAIN as : bs[i].key = as[i].key
      BY <2>2, <2>5, <2>6
    <3> QED BY <1>3, <2>1, <2>5, <3>1 DEF KeysOf
  <2>8. d \in Credentials
    BY <1>2, <2>1, <2>5 DEF Credentials
  <2> HIDE DEF bs, d
  <2> QED BY <2>1, <2>2, <2>5, <2>6, <2>7, <2>8 DEF Puts, d
<1>4. CASE record.key \notin KeysOf(c)
  <2> DEFINE bs == Append(as, record)
             p == Len(as) + 1
  <2>1. d = [accounts |-> bs, active |-> c.active]
    BY <1>2, <1>4 DEF With
  <2>2. /\ bs \in Seq(Account) /\ DOMAIN bs = 1..p /\ bs[p] = record
        /\ \A i \in 1..Len(as) : bs[i] = as[i]
    BY <1>1
  <2>3. \A i \in DOMAIN as : as[i].key # record.key
    BY <1>4 DEF KeysOf
  <2>4. DOMAIN bs \ {p} = DOMAIN as /\ p \in DOMAIN bs
    BY <1>1, <2>2
  <2> HIDE DEF bs, p, d
  <2>5. KeysOf(d) = KeysOf(c) \cup {record.key}
    BY <1>1, <2>1, <2>2, <2>4 DEF KeysOf
  <2>6. d \in Credentials
    BY <1>2, <2>1, <2>2 DEF Credentials
  <2> QED BY <1>1, <2>1, <2>2, <2>3, <2>4, <2>5, <2>6 DEF Puts, d
<1> QED BY <1>3, <1>4

(* A document d is c less some records, and its active account is saved.    *)
Drops(d, c) ==
  /\ d \in Credentials /\ (d.active # NoKey => d.active \in KeysOf(d))
  /\ OneRecordEach(d)
  /\ \A i \in DOMAIN d.accounts : \E j \in DOMAIN c.accounts : d.accounts[i] = c.accounts[j]

LEMMA RemovedIs ==
  ASSUME NEW S, NEW s \in Seq(S), NEW p \in DOMAIN s
  PROVE  /\ RemoveAt(s, p) \in Seq(S)
         /\ DOMAIN RemoveAt(s, p) = 1..(Len(s) - 1)
         /\ \A i \in 1..(Len(s) - 1) : RemoveAt(s, p)[i] = IF i < p THEN s[i] ELSE s[i + 1]
<1> DEFINE a == SubSeq(s, 1, p - 1)
           b == SubSeq(s, p + 1, Len(s))
<1>1. Len(s) \in Nat /\ p \in 1..Len(s)
  OBVIOUS
<1>2. /\ a \in Seq(S) /\ Len(a) = p - 1
      /\ \A i \in 1..(p - 1) : a[i] = s[i]
  BY <1>1
<1>3. /\ b \in Seq(S) /\ Len(b) = Len(s) - p
      /\ \A i \in 1..(Len(s) - p) : b[i] = s[p + i]
  BY <1>1
<1>4. RemoveAt(s, p) = a \o b
  BY DEF RemoveAt
<1> HIDE DEF a, b
<1>5. a \o b \in Seq(S) /\ Len(a \o b) = Len(s) - 1 /\ DOMAIN (a \o b) = 1..(Len(s) - 1)
  BY <1>1, <1>2, <1>3
<1>6. ASSUME NEW i \in 1..(Len(s) - 1) PROVE (a \o b)[i] = IF i < p THEN s[i] ELSE s[i + 1]
  <2>1. CASE i < p
    BY <1>1, <1>2, <1>3, <2>1
  <2>2. CASE ~(i < p)
    <3>0. i \in 1..(Len(a) + Len(b)) /\ i > Len(a) /\ Len(a) = p - 1
      BY <1>1, <1>2, <1>3, <2>2
    <3>1. (a \o b)[i] = b[i - Len(a)]
      <4>1. a \in Seq(S) /\ b \in Seq(S)
        BY <1>2, <1>3
      <4> QED BY <3>0, <4>1, ConcatProperties
    <3>2. i - (p - 1) \in 1..(Len(s) - p) /\ p + (i - (p - 1)) = i + 1
      BY <1>1, <2>2
    <3> QED BY <1>3, <2>2, <3>0, <3>1, <3>2
  <2> QED BY <2>1, <2>2
<1> QED BY <1>4, <1>5, <1>6

LEMMA WithoutDrops ==
  ASSUME NEW c \in Credentials, OneRecordEach(c), NEW k \in Keys,
         c.active # NoKey => c.active \in KeysOf(c)
  PROVE  Drops(Without(c, k), c)
<1> DEFINE as == c.accounts
           p == CHOOSE i \in DOMAIN as : as[i].key = k
           rest == IF k \in KeysOf(c) THEN RemoveAt(as, p) ELSE as
           d == Without(c, k)
<1>1. as \in Seq(Account) /\ DOMAIN as = 1..Len(as) /\ Len(as) \in Nat /\ c.active \in Keys \cup {NoKey}
  BY DEF Credentials
<1>2. d = [accounts |-> rest, active |-> IF c.active # k THEN c.active
                                         ELSE IF rest = <<>> THEN NoKey ELSE rest[1].key]
  BY DEF Without
<1>3. k \in KeysOf(c) => p \in DOMAIN as /\ as[p].key = k
  BY DEF KeysOf
<1>4. ASSUME k \in KeysOf(c)
      PROVE  /\ rest \in Seq(Account) /\ DOMAIN rest = 1..(Len(as) - 1)
             /\ \A i \in 1..(Len(as) - 1) : rest[i] = IF i < p THEN as[i] ELSE as[i + 1]
  <2> HIDE DEF p
  <2> QED BY <1>1, <1>3, <1>4, RemovedIs
<1>5. rest \in Seq(Account)
  BY <1>1, <1>4
<1> HIDE DEF p
<1> DEFINE From(i) == IF k \in KeysOf(c) /\ ~(i < p) THEN i + 1 ELSE i
<1>6. \A i \in DOMAIN rest : From(i) \in DOMAIN as /\ rest[i] = as[From(i)]
  <2>1. CASE k \in KeysOf(c)
    <3>1. ASSUME NEW i \in DOMAIN rest PROVE From(i) \in DOMAIN as
      BY <1>1, <1>3, <1>4, <2>1, <3>1
    <3>2. ASSUME NEW i \in DOMAIN rest PROVE rest[i] = as[From(i)]
      BY <1>4, <2>1, <3>2
    <3> QED BY <3>1, <3>2
  <2>2. CASE k \notin KeysOf(c)
    BY <2>2
  <2> QED BY <2>1, <2>2
<1>7. \A i, j \in DOMAIN rest : From(i) = From(j) => i = j
  <2>1. DOMAIN rest \subseteq Nat
    BY <1>5
  <2>2. k \in KeysOf(c) => p \in Nat
    BY <1>1, <1>3
  <2> QED BY <2>1, <2>2
<1>8. \A j \in DOMAIN as : as[j].key # k => \E i \in DOMAIN rest : rest[i] = as[j]
  <2> SUFFICES ASSUME NEW j \in DOMAIN as, as[j].key # k
               PROVE  \E i \in DOMAIN rest : rest[i] = as[j]
    OBVIOUS
  <2>1. CASE k \in KeysOf(c)
    <3>1. p \in 1..Len(as) /\ j # p /\ j \in 1..Len(as)
      BY <1>1, <1>3, <2>1
    <3>2. CASE j < p
      <4>1. j \in 1..(Len(as) - 1)
        BY <1>1, <3>1, <3>2
      <4> QED BY <1>4, <2>1, <3>2, <4>1
    <3>3. CASE ~(j < p)
      <4>1. j - 1 \in 1..(Len(as) - 1) /\ ~(j - 1 < p) /\ (j - 1) + 1 = j
        BY <1>1, <3>1, <3>3
      <4> QED BY <1>4, <2>1, <4>1
    <3> QED BY <3>2, <3>3
  <2>2. CASE k \notin KeysOf(c)
    BY <2>2
  <2> QED BY <2>1, <2>2
<1> HIDE DEF rest, From, d
<1>9. d.active # NoKey => d.active \in KeysOf(d)
  <2>1. CASE c.active # k
    <3>1. d.active = c.active /\ d.accounts = rest
      BY <1>2, <2>1
    <3> QED BY <1>8, <2>1, <3>1 DEF KeysOf
  <2>2. CASE c.active = k /\ rest = <<>>
    BY <1>2, <2>2
  <2>3. CASE c.active = k /\ rest # <<>>
    <3>1. 1 \in DOMAIN rest
      BY <1>5, <2>3
    <3>2. d.active = rest[1].key /\ d.accounts = rest
      BY <1>2, <2>3
    <3> QED BY <3>1, <3>2 DEF KeysOf
  <2> QED BY <2>1, <2>2, <2>3
<1>10. d \in Credentials
  <2>1. rest # <<>> => rest[1] \in Account
    BY <1>5
  <2> QED BY <1>1, <1>2, <1>5, <2>1 DEF Credentials, Account
<1>11. OneRecordEach(d)
  BY <1>2, <1>6, <1>7 DEF OneRecordEach
<1> QED BY <1>2, <1>6, <1>9, <1>10, <1>11 DEF Drops, d

-----------------------------------------------------------------------------
LEMMA SavedIs ==
  ASSUME credentials \in Credentials, NEW k \in KeysOf(credentials)
  PROVE  \E i \in DOMAIN Records : Saved(k) = Records[i] /\ Records[i].key = k
<1>1. PICK i \in DOMAIN Records : Records[i].key = k
  BY DEF KeysOf, Records
<1>2. Records[i] \in ToSet(Records)
  BY DEF ToSet
<1>3. Saved(k) \in ToSet(Records) /\ Saved(k).key = k
  BY <1>1, <1>2 DEF Saved, Records
<1> QED BY <1>3 DEF ToSet

LEMMA RecordsAreAccounts ==
  ASSUME credentials \in Credentials
  PROVE  \A i \in DOMAIN Records : Records[i] \in Account
BY DEF Credentials, Records

LEMMA ServedIs ==
  ASSUME credentials \in Credentials, Served # NoKey
  PROVE  Served \in KeysOf(credentials)
<1>1. CASE credentials.active \in KeysOf(credentials)
  BY <1>1 DEF Served
<1>2. CASE credentials.active \notin KeysOf(credentials)
  <2>1. credentials.accounts # <<>> /\ Served = credentials.accounts[1].key
    BY <1>2 DEF Served
  <2>2. 1 \in DOMAIN credentials.accounts
    BY <2>1 DEF Credentials
  <2> QED BY <2>1, <2>2 DEF KeysOf
<1> QED BY <1>1, <1>2

LEMMA SameDrops ==
  ASSUME IInv
  PROVE  Drops(credentials, credentials)
BY DEF IInv, TypeOK, StoreIsRight, ActiveIsSaved, Drops

(* Whatever forgets records and ends refreshes keeps the rest, when what it *)
(* ends is excused and what was excused stays so.                           *)
LEMMA LessIsRight ==
  ASSUME IInv, Drops(credentials', credentials), disk' = credentials',
         refreshes' \subseteq refreshes, issued' = issued,
         Excused \subseteq Excused',
         \A x \in refreshes : x \in refreshes' \/ x.account.refresh \in Excused'
  PROVE  StoreIsRight' /\ TokensAreGood' /\ RefreshesAreRight'
<1> USE DEF IInv, TokensAreGood, RefreshesAreRight
<1>1. \A i \in DOMAIN Records' : \E j \in DOMAIN Records : Records'[i] = Records[j]
  BY DEF Drops, Records
<1>2. StoreIsRight'
  BY DEF StoreIsRight, FileMatchesMemory, ActiveIsSaved, Drops
<1>3. NoSpentTokenPresented'
  BY DEF NoSpentTokenPresented, Excused
<1>4. SavedTokensAreGood'
  <2> SUFFICES ASSUME NEW i \in DOMAIN Records', Records'[i].refresh # NoToken
               PROVE  \/ Records'[i].refresh \in Excused'
                      \/ \E x \in refreshes' : x.account.refresh = Records'[i].refresh
    BY DEF SavedTokensAreGood, TokensOf, Records, Excused
  <2>1. PICK j \in DOMAIN Records : Records'[i] = Records[j]
    BY <1>1
  <2>2. \/ Records[j].refresh \in Excused
        \/ \E x \in refreshes : x.account.refresh = Records[j].refresh
    BY <2>1 DEF SavedTokensAreGood, TokensOf, Records, Excused
  <2> QED BY <2>1, <2>2
<1>5. OneRefresh'
  BY DEF OneRefresh
<1>6. Numbered'
  BY <1>1 DEF Numbered
<1>7. RefreshesAreOwned'
  BY <1>1 DEF RefreshesAreOwned
<1>8. AnswersAreNew'
  BY <1>1 DEF AnswersAreNew
<1> QED BY <1>2, <1>3, <1>4, <1>5, <1>6, <1>7, <1>8

(* The same for an action that leaves the store alone.                      *)
LEMMA StoreAloneIsRight ==
  ASSUME IInv, UNCHANGED store, refreshes' \subseteq refreshes, issued' = issued,
         Excused \subseteq Excused',
         \A x \in refreshes : x \in refreshes' \/ x.account.refresh \in Excused'
  PROVE  StoreIsRight' /\ TokensAreGood' /\ RefreshesAreRight'
<1>1. Drops(credentials', credentials) /\ disk' = credentials'
  BY SameDrops DEF store, IInv, StoreIsRight, FileMatchesMemory
<1> QED BY <1>1, LessIsRight

LEMMA UntouchedIsRight ==
  ASSUME IInv, UNCHANGED <<store, refreshes, server, ghosts>>
  PROVE  StoreIsRight' /\ TokensAreGood' /\ RefreshesAreRight'
<1>1. Excused' = Excused
  BY DEF Excused, server, ghosts
<1> QED BY <1>1, StoreAloneIsRight DEF server

-----------------------------------------------------------------------------
(* A refresh that starts presents a good token of the account it is for.    *)
LEMMA JoinOrStartKeeps ==
  ASSUME IInv, NEW c \in Calls, NEW k \in KeysOf(credentials), NEW how, JoinOrStart(c, k, how),
         UNCHANGED <<store, server, ghosts>>
  PROVE  /\ StoreIsRight' /\ TokensAreGood' /\ RefreshesAreRight'
         /\ refreshes' \subseteq Refresh /\ stuck' \in BOOLEAN
<1> USE DEF IInv
<1>0. refreshes \subseteq Refresh /\ stuck \in BOOLEAN /\ credentials \in Credentials /\ issued \in 0..MaxIssued
  BY DEF TypeOK
<1>1. CASE UNCHANGED refreshes
  <2>1. stuck' \in BOOLEAN
    BY <1>0 DEF JoinOrStart
  <2> QED BY <1>0, <1>1, <2>1, UntouchedIsRight
<1>2. CASE /\ refreshes = {} /\ ~stuck /\ Saved(k).refresh # NoToken
           /\ refreshes' = {[account |-> Saved(k), answer |-> NoAnswer]}
           /\ UNCHANGED stuck
  <2>1. PICK p \in DOMAIN Records : Saved(k) = Records[p] /\ Records[p].key = k
    BY <1>0, SavedIs
  <2>2. Records[p] \in Account /\ Records[p].refresh \in Token /\ Records[p].refresh <= issued
    BY <1>0, <1>2, <2>1, RecordsAreAccounts DEF Account, RefreshesAreRight, Numbered
  <2>3. NoAnswer \notin Token
    BY PlanAuthAssumption
  <2>4. Records' = Records /\ Excused' = Excused /\ issued' = issued
    BY DEF Records, Excused, store, server, ghosts
  <2>5. Records[p].refresh \in Excused
    BY <1>2, <2>1 DEF TokensAreGood, SavedTokensAreGood, TokensOf, Records, Excused
  <2> DEFINE x == [account |-> Records[p], answer |-> NoAnswer]
  <2>6. refreshes' = {x} /\ x.account = Records[p] /\ x.answer = NoAnswer /\ x \in Refresh
    BY <1>2, <2>1, <2>2 DEF Refresh
  <2> HIDE DEF x
  <2>7. StoreIsRight'
    BY DEF StoreIsRight, FileMatchesMemory, ActiveIsSaved, store
  <2>8. NoSpentTokenPresented'
    BY <2>4, <2>5, <2>6 DEF NoSpentTokenPresented, Excused
  <2>9. SavedTokensAreGood'
    BY <1>2, <2>4 DEF TokensAreGood, SavedTokensAreGood, TokensOf, Records, Excused
  <2>10. OneRefresh'
    BY <2>6 DEF OneRefresh
  <2>11. Numbered'
    BY <2>2, <2>3, <2>4, <2>6 DEF Numbered, RefreshesAreRight
  <2>12. RefreshesAreOwned'
    <3>1. Records[p].refresh # NoToken
      BY <1>2, <2>1
    <3>2. \A i \in DOMAIN Records : Records[i].refresh = Records[p].refresh => i = p
      BY <3>1 DEF StoreIsRight, OneRecordEach, Records
    <3> QED BY <2>4, <2>6, <3>2 DEF RefreshesAreOwned
  <2>13. AnswersAreNew'
    BY <2>3, <2>6 DEF AnswersAreNew
  <2> QED BY <1>0, <1>2, <2>6, <2>7, <2>8, <2>9, <2>10, <2>11, <2>12, <2>13
          DEF TokensAreGood, RefreshesAreRight
<1> QED BY <1>1, <1>2 DEF JoinOrStart

(* A spent token is still accounted for by the refresh that spent it.       *)
LEMMA RotateKeeps ==
  ASSUME IInv, NEW x \in refreshes, Rotate(x)
  PROVE  StoreIsRight' /\ TokensAreGood' /\ RefreshesAreRight' /\ TypeOK'
<1> USE DEF IInv
<1>0. /\ refreshes \subseteq Refresh /\ credentials \in Credentials /\ issued \in 0..MaxIssued /\ MaxIssued \in Nat
      /\ refreshes = {x} /\ x.answer = NoAnswer /\ x.account \in Account
      /\ x.account.refresh \in Token /\ x.account.refresh <= issued
      /\ NoAnswer \notin Token /\ Refused \notin Token
  BY PlanAuthAssumption DEF TypeOK, RefreshesAreRight, OneRefresh, Numbered, Rotate, Refresh
<1>1. StoreIsRight' /\ Records' = Records
  BY DEF StoreIsRight, FileMatchesMemory, ActiveIsSaved, store, Rotate, Records
<1>2. PICK n \in Token \cup {Refused} :
        /\ refreshes' = {[x EXCEPT !.answer = n]}
        /\ \/ /\ n \in Token /\ n = issued + 1 /\ issued' = n /\ valid' = (valid \ {x.account.refresh}) \cup {n}
           \/ n = Refused /\ issued' = issued /\ valid' = valid
  <2>1. \A z : (refreshes \ {x}) \cup {z} = {z}
    BY <1>0
  <2>2. CASE /\ x.account.refresh \in valid /\ issued < MaxIssued
             /\ issued' = issued + 1
             /\ valid' = (valid \ {x.account.refresh}) \cup {issued + 1}
             /\ refreshes' = (refreshes \ {x}) \cup {[x EXCEPT !.answer = issued + 1]}
    <3>1. issued + 1 \in Token
      BY <1>0, <2>2 DEF Token
    <3> QED BY <2>1, <2>2, <3>1
  <2>3. CASE /\ refreshes' = (refreshes \ {x}) \cup {[x EXCEPT !.answer = Refused]}
             /\ UNCHANGED <<issued, valid>>
    BY <2>1, <2>3
  <2> QED BY <2>2, <2>3 DEF Rotate
<1> DEFINE y == [x EXCEPT !.answer = n]
<1>3. refreshes' = {y} /\ y.account = x.account /\ y.answer = n /\ y \in Refresh
  BY <1>0, <1>2 DEF Refresh
<1> HIDE DEF y
<1>4. /\ Excused \ {x.account.refresh} \subseteq Excused'
      /\ n \in Token => n \in Excused' /\ n = issued + 1
      /\ n = Refused => Excused' = Excused
      /\ issued \in Nat /\ issued' \in Nat /\ issued <= issued'
  <2>1. issued \in Nat /\ issued' \in Nat /\ issued <= issued'
    BY <1>0, <1>2
  <2>2. revoked' = revoked /\ lost' = lost
    BY DEF Rotate, ghosts
  <2>3. n \in Token => n = issued + 1
    BY <1>0, <1>2
  <2>4. n = Refused => valid' = valid
    BY <1>0, <1>2
  <2>5. n \in Token => n \in valid'
    BY <1>0, <1>2
  <2>6. valid \ {x.account.refresh} \subseteq valid'
    BY <1>2
  <2> QED BY <2>1, <2>2, <2>3, <2>4, <2>5, <2>6 DEF Excused
<1>5. NoSpentTokenPresented'
  <2>1. x.account.refresh \in Excused
    BY <1>0 DEF TokensAreGood, NoSpentTokenPresented, Excused
  <2> QED BY <1>3, <1>4, <2>1 DEF NoSpentTokenPresented, Excused
<1>6. SavedTokensAreGood'
  BY <1>0, <1>1, <1>3, <1>4 DEF TokensAreGood, SavedTokensAreGood, TokensOf, Records, Excused
<1>7. OneRefresh'
  BY <1>3 DEF OneRefresh
<1>8. \A i \in DOMAIN Records : Records[i].refresh # NoToken => Records[i].refresh <= issued /\ Records[i].refresh \in Token
  BY <1>0, RecordsAreAccounts DEF Account, RefreshesAreRight, Numbered
<1>9. Numbered'
  <2>1. Token \subseteq Nat
    BY DEF Token
  <2>5. \A m \in Nat : m <= issued => m <= issued'
    BY <1>4
  <2>2. \A i \in DOMAIN Records : Records[i].refresh # NoToken => Records[i].refresh <= issued'
    BY <1>8, <2>1, <2>5
  <2>3. y.account.refresh \in Token /\ y.account.refresh <= issued'
    BY <1>0, <1>3, <2>1, <2>5
  <2>4. y.answer \in Token => y.answer <= issued'
    BY <1>0, <1>2, <1>3
  <2> QED BY <1>1, <1>3, <2>2, <2>3, <2>4 DEF Numbered
<1>10. RefreshesAreOwned'
  BY <1>0, <1>1, <1>3 DEF RefreshesAreRight, RefreshesAreOwned
<1>11. AnswersAreNew'
  <2>1. ASSUME n \in Token, NEW i \in DOMAIN Records PROVE Records[i].refresh # n
    <3>1. Records[i].refresh = NoToken \/ Records[i].refresh <= issued
      BY <1>8
    <3>2. NoToken \notin Token
      BY PlanAuthAssumption
    <3>3. n = issued + 1
      BY <1>4, <2>1
    <3> QED BY <1>0, <2>1, <3>1, <3>2, <3>3
  <2> QED BY <1>1, <1>3, <1>4, <2>1 DEF AnswersAreNew
<1>12. TypeOK'
  <2>3. valid \subseteq Token
    BY DEF TypeOK
  <2>4. issued' \in 0..MaxIssued
    BY <1>0, <1>2, <2>3 DEF Token
  <2>1. valid' \subseteq Token /\ issued' \in 0..MaxIssued
    BY <1>2, <2>3, <2>4
  <2>2. refreshes' \subseteq Refresh
    BY <1>3
  <2> QED BY <2>1, <2>2 DEF TypeOK, Rotate, store, attemptVars, ghosts
<1> QED BY <1>1, <1>5, <1>6, <1>7, <1>9, <1>10, <1>11, <1>12 DEF TokensAreGood, RefreshesAreRight

-----------------------------------------------------------------------------
(* Putting a record in with a refresh token that no other has.              *)
LEMMA OneRecordPut ==
  ASSUME NEW c, NEW d, NEW record, Puts(d, c, record), OneRecordEach(c),
         record.refresh # NoToken =>
           \A i \in DOMAIN c.accounts : c.accounts[i].refresh # record.refresh
  PROVE  OneRecordEach(d)
<1>1. PICK p \in DOMAIN d.accounts :
        /\ d.accounts[p] = record
        /\ \A i \in DOMAIN d.accounts \ {p} :
             i \in DOMAIN c.accounts /\ d.accounts[i] = c.accounts[i] /\ c.accounts[i].key # record.key
  BY DEF Puts
<1>2. SUFFICES ASSUME NEW i \in DOMAIN d.accounts, NEW j \in DOMAIN d.accounts,
                      \/ d.accounts[i].key = d.accounts[j].key
                      \/ d.accounts[i].refresh = d.accounts[j].refresh /\ d.accounts[i].refresh # NoToken
               PROVE  i = j
  BY DEF OneRecordEach
<1>3. CASE i = p \/ j = p
  BY <1>1, <1>2, <1>3
<1>4. CASE i # p /\ j # p
  BY <1>1, <1>2, <1>4 DEF OneRecordEach
<1> QED BY <1>3, <1>4

(* The answer is stored: its token is good, and the spent one is gone.      *)
LEMMA RefreshedKeeps ==
  ASSUME IInv, NEW x \in refreshes, Refreshed(x)
  PROVE  StoreIsRight' /\ TokensAreGood' /\ RefreshesAreRight' /\ TypeOK'
<1> USE DEF IInv
<1> DEFINE record == Renewed(x)
<1>0. /\ refreshes \subseteq Refresh /\ credentials \in Credentials
      /\ refreshes = {x} /\ refreshes' = {} /\ x.account \in Account /\ x.answer \in Token
      /\ UNCHANGED <<server, ghosts>>
  BY DEF TypeOK, RefreshesAreRight, OneRefresh, Refreshed, Refresh
<1>1. /\ record \in Account /\ record.key = x.account.key
      /\ record.refresh = x.answer /\ record.refresh \in Token
  BY <1>0 DEF Renewed, Account
<1> HIDE DEF record
<1>2. /\ credentials' = With(credentials, record) /\ disk' = credentials'
      /\ OneRecordEach(credentials)
  BY DEF Refreshed, Persist, record, StoreIsRight
<1>3. Puts(credentials', credentials, record)
  BY <1>0, <1>1, <1>2, WithPuts
<1>4. PICK p \in DOMAIN Records' :
        /\ Records'[p] = record
        /\ \A i \in DOMAIN Records' \ {p} :
             i \in DOMAIN Records /\ Records'[i] = Records[i] /\ Records[i].key # record.key
  BY <1>3 DEF Puts, Records
<1>5. x.answer \in Excused /\ \A i \in DOMAIN Records : Records[i].refresh # x.answer
  BY <1>0 DEF RefreshesAreRight, AnswersAreNew
<1>6. Excused' = Excused /\ issued' = issued
  BY <1>0 DEF Excused, server, ghosts
<1>7. StoreIsRight'
  <2>1. OneRecordEach(credentials')
    BY <1>1, <1>2, <1>3, <1>5, OneRecordPut DEF Records
  <2>2. credentials'.active # NoKey => credentials'.active \in KeysOf(credentials')
    BY <1>3 DEF Puts, StoreIsRight, ActiveIsSaved
  <2> QED BY <1>2, <2>1, <2>2 DEF StoreIsRight, FileMatchesMemory, ActiveIsSaved
<1>8. NoSpentTokenPresented'
  BY <1>0 DEF NoSpentTokenPresented
<1>9. SavedTokensAreGood'
  <2>1. ASSUME NEW i \in DOMAIN Records', Records'[i].refresh # NoToken
        PROVE  Records'[i].refresh \in Excused
    <3>1. CASE i = p
      BY <1>1, <1>4, <1>5, <3>1
    <3>2. CASE i # p
      <4>1. i \in DOMAIN Records /\ Records'[i] = Records[i] /\ Records[i].key # x.account.key
        BY <1>1, <1>4, <3>2
      <4>2. Records[i].refresh # x.account.refresh
        BY <1>0, <4>1 DEF RefreshesAreRight, RefreshesAreOwned
      <4> QED BY <1>0, <2>1, <4>1, <4>2
              DEF TokensAreGood, SavedTokensAreGood, TokensOf, Records, Excused
    <3> QED BY <3>1, <3>2
  <2> QED BY <1>6, <2>1 DEF SavedTokensAreGood, TokensOf, Records, Excused
<1>10. OneRefresh' /\ RefreshesAreOwned' /\ AnswersAreNew'
  BY <1>0 DEF OneRefresh, RefreshesAreOwned, AnswersAreNew
<1>11. Numbered'
  <2>1. \A i \in DOMAIN Records : Records[i].refresh # NoToken => Records[i].refresh <= issued
    BY DEF RefreshesAreRight, Numbered
  <2>2. record.refresh <= issued
    BY <1>0, <1>1 DEF RefreshesAreRight, Numbered
  <2>3. \A i \in DOMAIN Records' : Records'[i].refresh # NoToken => Records'[i].refresh <= issued
    BY <1>4, <2>1, <2>2
  <2> QED BY <1>0, <1>6, <2>3 DEF Numbered
<1>12. TypeOK'
  <2>1. credentials' \in Credentials /\ disk' \in Credentials
    BY <1>2, <1>3 DEF Puts
  <2>2. call' \in [Calls -> {"idle", "using", "done", "failed"} \cup Waiting]
    BY DEF TypeOK, Refreshed
  <2> QED BY <1>0, <2>1, <2>2 DEF TypeOK, Refreshed, attemptVars, server, ghosts
<1> QED BY <1>7, <1>8, <1>9, <1>10, <1>11, <1>12 DEF TokensAreGood, RefreshesAreRight

(* A sign-in saves a token nobody knows yet, beside a refresh under way.    *)
LEMMA ExchangedKeeps ==
  ASSUME IInv, NEW a \in Attempts, NEW k \in Keys, Exchanged(a, k)
  PROVE  StoreIsRight' /\ TokensAreGood' /\ RefreshesAreRight' /\ TypeOK'
<1> USE DEF IInv
<1>0. /\ refreshes \subseteq Refresh /\ credentials \in Credentials
      /\ issued \in Nat /\ issued < MaxIssued /\ MaxIssued \in Nat /\ MaxHandlers \in Nat
      /\ issued' = issued + 1 /\ valid' = valid \cup {issued + 1}
      /\ UNCHANGED <<refreshes, ghosts>>
      /\ NoToken \notin Token
  BY PlanAuthAssumption DEF TypeOK, Exchanged
<1>1. issued + 1 \in Token /\ Token \subseteq Nat /\ issued' \in 0..MaxIssued
  BY <1>0 DEF Token
<1>2. PICK refresh \in {issued + 1, NoToken} :
        Persist([With(credentials, [key |-> k, access |-> issued + 1, refresh |-> refresh])
                   EXCEPT !.active = k])
  BY DEF Exchanged
<1> DEFINE record == [key |-> k, access |-> issued + 1, refresh |-> refresh]
           d == With(credentials, record)
<1>3. record \in Account /\ record.key = k /\ record.refresh = refresh
  BY <1>1 DEF Account
<1>4. credentials' = [d EXCEPT !.active = k] /\ disk' = credentials'
  BY <1>2 DEF Persist
<1> HIDE DEF record
<1>5. Puts(d, credentials, record)
  BY <1>0, <1>3, WithPuts DEF StoreIsRight
<1> HIDE DEF d
<1>6. d \in Credentials /\ k \in KeysOf(d)
  BY <1>3, <1>5 DEF Puts
<1>7. /\ credentials'.active = k /\ credentials'.accounts = d.accounts
      /\ credentials' \in Credentials /\ KeysOf(credentials') = KeysOf(d)
  BY <1>4, <1>6 DEF Credentials, KeysOf
<1>8. PICK p \in DOMAIN Records' :
        /\ Records'[p] = record
        /\ \A i \in DOMAIN Records' \ {p} :
             i \in DOMAIN Records /\ Records'[i] = Records[i] /\ Records[i].key # record.key
  BY <1>5, <1>7 DEF Puts, Records
<1>9. \A i \in DOMAIN Records : Records[i].refresh # NoToken =>
        Records[i].refresh <= issued /\ Records[i].refresh \in Nat
  BY <1>0, <1>1, RecordsAreAccounts DEF Account, RefreshesAreRight, Numbered
<1>10. ASSUME record.refresh # NoToken, NEW i \in DOMAIN Records
       PROVE  Records[i].refresh # record.refresh
  <2>1. record.refresh = issued + 1
    BY <1>3, <1>10
  <2>2. \A m \in Nat : m <= issued => m # issued + 1
    BY <1>0
  <2> QED BY <1>9, <1>10, <2>1, <2>2
<1>11. StoreIsRight'
  <2>1. OneRecordEach(d)
    BY <1>5, <1>10, OneRecordPut DEF Records, StoreIsRight
  <2>2. OneRecordEach(credentials')
    BY <1>7, <2>1 DEF OneRecordEach
  <2> QED BY <1>4, <1>6, <1>7, <2>2 DEF StoreIsRight, FileMatchesMemory, ActiveIsSaved
<1>12. Excused \subseteq Excused' /\ issued + 1 \in Excused'
  BY <1>0 DEF Excused, ghosts
<1>13. NoSpentTokenPresented'
  BY <1>0, <1>12 DEF TokensAreGood, NoSpentTokenPresented, Excused
<1>14. SavedTokensAreGood'
  <2>1. ASSUME NEW i \in DOMAIN Records', Records'[i].refresh # NoToken
        PROVE  \/ Records'[i].refresh \in Excused'
               \/ \E x \in refreshes : x.account.refresh = Records'[i].refresh
    <3>1. CASE i = p
      BY <1>3, <1>8, <1>12, <2>1, <3>1
    <3>2. CASE i # p
      BY <1>8, <1>12, <2>1, <3>2 DEF TokensAreGood, SavedTokensAreGood, TokensOf, Records, Excused
    <3> QED BY <3>1, <3>2
  <2> QED BY <1>0, <2>1 DEF SavedTokensAreGood, TokensOf, Records, Excused
<1>15. OneRefresh'
  BY <1>0 DEF RefreshesAreRight, OneRefresh
<1>16. \A m \in Nat : m <= issued => m <= issued' /\ m # issued + 1
  BY <1>0
<1>17. \A x \in refreshes :
         /\ x.account.refresh \in Nat /\ x.account.refresh <= issued /\ x.account.refresh \in Token
         /\ x.answer \in Token => x.answer <= issued /\ x.answer \in Nat
  BY <1>1 DEF RefreshesAreRight, Numbered
<1>18. Numbered'
  <2>1. record.refresh # NoToken => record.refresh <= issued'
    BY <1>0, <1>3
  <2>2. \A i \in DOMAIN Records' : Records'[i].refresh # NoToken => Records'[i].refresh <= issued'
    BY <1>8, <1>9, <1>16, <2>1
  <2> QED BY <1>0, <1>16, <1>17, <2>2 DEF Numbered
<1>19. \A x \in refreshes : record.refresh # x.account.refresh /\ (x.answer \in Token => record.refresh # x.answer)
  BY <1>0, <1>3, <1>16, <1>17
<1>20. RefreshesAreOwned'
  BY <1>0, <1>8, <1>19 DEF RefreshesAreRight, RefreshesAreOwned
<1>21. AnswersAreNew'
  BY <1>0, <1>8, <1>12, <1>19 DEF RefreshesAreRight, AnswersAreNew
<1>22. TypeOK'
  <2>1. valid' \subseteq Token
    BY <1>0, <1>1 DEF TypeOK
  <2>2. handlers' \in [Attempts -> 0..MaxHandlers]
    BY <1>0 DEF TypeOK, Exchanged
  <2>3. /\ status' \in [Attempts -> {"none", "pending", "completed", "failed", "cancelled"}]
        /\ listening' \in [Attempts -> BOOLEAN] /\ redeemed' \in [Attempts -> BOOLEAN]
    BY DEF TypeOK, Exchanged
  <2> QED BY <1>0, <1>1, <1>4, <1>7, <2>1, <2>2, <2>3 DEF TypeOK, Exchanged, ghosts
<1> QED BY <1>11, <1>13, <1>14, <1>15, <1>18, <1>20, <1>21, <1>22 DEF TokensAreGood, RefreshesAreRight

-----------------------------------------------------------------------------
CredentialsKeep == StoreIsRight' /\ TokensAreGood' /\ RefreshesAreRight' /\ TypeOK'

LEMMA CallsKeep ==
  ASSUME IInv, NEW c \in Calls, GetToken(c) \/ Rejected(c)
  PROVE  CredentialsKeep
<1> USE DEF IInv
<1>0. credentials \in Credentials /\ UNCHANGED <<store, attemptVars, leaving, server, ghosts>>
  BY DEF TypeOK, GetToken, Rejected
<1>1. \/ NotSignedIn(c)
      \/ Goes(c, "using") /\ UNCHANGED <<refreshes, stuck>>
      \/ \E how \in Waiting : Served # NoKey /\ JoinOrStart(c, Served, how)
  BY DEF GetToken, Rejected, Waiting
<1>2. call' \in [Calls -> {"idle", "using", "done", "failed"} \cup Waiting]
  BY <1>1 DEF TypeOK, NotSignedIn, JoinOrStart, Goes
<1>3. CASE UNCHANGED <<refreshes, stuck>>
  <2>1. StoreIsRight' /\ TokensAreGood' /\ RefreshesAreRight'
    BY <1>0, <1>3, UntouchedIsRight
  <2>2. TypeOK'
    BY <1>0, <1>2, <1>3 DEF TypeOK, store, attemptVars, server, ghosts
  <2> QED BY <2>1, <2>2 DEF CredentialsKeep
<1>4. ASSUME NEW how \in Waiting, Served # NoKey, JoinOrStart(c, Served, how)
      PROVE  CredentialsKeep
  <2>1. Served \in KeysOf(credentials)
    BY <1>0, <1>4, ServedIs
  <2>2. /\ StoreIsRight' /\ TokensAreGood' /\ RefreshesAreRight'
        /\ refreshes' \subseteq Refresh /\ stuck' \in BOOLEAN
    BY <1>0, <1>4, <2>1, JoinOrStartKeeps
  <2>3. TypeOK'
    BY <1>0, <1>2, <2>2 DEF TypeOK, store, attemptVars, server, ghosts
  <2> QED BY <2>2, <2>3 DEF CredentialsKeep
<1> QED BY <1>1, <1>3, <1>4 DEF NotSignedIn

LEMMA RefreshFailedKeeps ==
  ASSUME IInv, NEW x \in refreshes, RefreshFailed(x)
  PROVE  CredentialsKeep
<1> USE DEF IInv
<1>1. /\ UNCHANGED <<store, stuck, attemptVars, leaving, server, revoked>>
      /\ refreshes' = refreshes \ {x}
      /\ lost' = IF x.answer \in Token THEN lost \cup {x.account.refresh} ELSE lost
  BY DEF RefreshFailed
<1>2. Excused \subseteq Excused'
  BY <1>1 DEF Excused, server
<1>3. x.account.refresh \in Excused'
  BY <1>1 DEF Excused, server, TokensAreGood, NoSpentTokenPresented
<1>4. StoreIsRight' /\ TokensAreGood' /\ RefreshesAreRight'
  BY <1>1, <1>2, <1>3, StoreAloneIsRight DEF server
<1>5. x.account.refresh \in Token
  BY DEF RefreshesAreRight, Numbered
<1>6. call' \in [Calls -> {"idle", "using", "done", "failed"} \cup Waiting]
  BY DEF TypeOK, RefreshFailed
<1>7. TypeOK'
  BY <1>1, <1>5, <1>6 DEF TypeOK, store, attemptVars, server
<1> QED BY <1>4, <1>7 DEF CredentialsKeep

LEMMA ExpireKeeps ==
  ASSUME IInv, NEW n \in Token, Expire(n)
  PROVE  CredentialsKeep
<1> USE DEF IInv
<1>1. Excused' = Excused
  BY DEF Expire, Excused, ghosts
<1>2. StoreIsRight' /\ TokensAreGood' /\ RefreshesAreRight'
  BY <1>1, StoreAloneIsRight DEF Expire
<1>3. TypeOK'
  BY DEF TypeOK, Expire, store, attemptVars, ghosts
<1> QED BY <1>2, <1>3 DEF CredentialsKeep

LEMMA AttemptsKeep ==
  ASSUME IInv, NEW a \in Attempts,
         BeginSignIn(a) \/ Callback(a) \/ GiveUp(a) \/ CancelSignIn(a) \/ ExchangeFailed(a)
  PROVE  CredentialsKeep
<1> USE DEF IInv
<1>1. UNCHANGED <<store, refreshes, stuck, call, redeemed, leaving, server, ghosts>>
  BY DEF BeginSignIn, Callback, GiveUp, CancelSignIn, ExchangeFailed
<1>2. StoreIsRight' /\ TokensAreGood' /\ RefreshesAreRight'
  BY <1>1, UntouchedIsRight
<1>3. handlers' \in [Attempts -> 0..MaxHandlers]
  BY PlanAuthAssumption DEF TypeOK, BeginSignIn, Callback, GiveUp, CancelSignIn, ExchangeFailed
<1>4. /\ status' \in [Attempts -> {"none", "pending", "completed", "failed", "cancelled"}]
      /\ listening' \in [Attempts -> BOOLEAN]
  BY DEF TypeOK, BeginSignIn, Callback, GiveUp, CancelSignIn, ExchangeFailed, FailAttempt
<1>5. TypeOK'
  BY <1>1, <1>3, <1>4 DEF TypeOK, store, server, ghosts
<1> QED BY <1>2, <1>5 DEF CredentialsKeep

(* Activating only points at another record; signing out forgets one.       *)
LEMMA StoreEditsKeep ==
  ASSUME IInv, NEW d, Persist(d), Drops(d, credentials),
         UNCHANGED <<refreshes, stuck, call, attemptVars, server, ghosts>>,
         leaving' \subseteq leaving
  PROVE  CredentialsKeep
<1> USE DEF IInv
<1>1. Excused' = Excused /\ credentials' = d /\ disk' = d /\ d \in Credentials
  BY DEF Excused, server, ghosts, Persist, Drops
<1>2. StoreIsRight' /\ TokensAreGood' /\ RefreshesAreRight'
  BY <1>1, LessIsRight DEF server
<1>3. TypeOK'
  BY <1>1 DEF TypeOK, attemptVars, server, ghosts
<1> QED BY <1>2, <1>3 DEF CredentialsKeep

LEMMA ActivateKeeps ==
  ASSUME IInv, NEW k \in Keys, Activate(k)
  PROVE  CredentialsKeep
<1> DEFINE d == [credentials EXCEPT !.active = k]
<1>1. credentials \in Credentials /\ k \in KeysOf(credentials) /\ OneRecordEach(credentials)
  BY DEF IInv, TypeOK, Activate, StoreIsRight
<1>2. d \in Credentials /\ d.accounts = credentials.accounts /\ d.active = k
  BY <1>1 DEF Credentials
<1>3. Persist(d) /\ UNCHANGED <<refreshes, stuck, call, attemptVars, leaving, server, ghosts>>
  BY DEF Activate
<1> HIDE DEF d
<1>4. Drops(d, credentials)
  BY <1>1, <1>2 DEF Drops, OneRecordEach, KeysOf
<1> QED BY <1>3, <1>4, StoreEditsKeep

LEMMA SignOutKeeps ==
  ASSUME IInv, NEW k \in Keys, SignOut(k)
  PROVE  CredentialsKeep
<1> USE DEF IInv
<1>0. credentials \in Credentials /\ k \in KeysOf(credentials) /\ Drops(Without(credentials, k), credentials)
  BY WithoutDrops DEF TypeOK, SignOut, StoreIsRight, ActiveIsSaved
<1>1. CASE Persist(Without(credentials, k)) /\ UNCHANGED leaving
  BY <1>0, <1>1, StoreEditsKeep DEF SignOut
<1>2. CASE leaving' = leaving \cup {Saved(k)} /\ UNCHANGED store
  <2>1. Saved(k) \in Account
    BY <1>0, SavedIs, RecordsAreAccounts
  <2>2. StoreIsRight' /\ TokensAreGood' /\ RefreshesAreRight'
    BY <1>2, UntouchedIsRight DEF SignOut
  <2>3. TypeOK'
    BY <1>2, <2>1 DEF TypeOK, SignOut, store, attemptVars, server, ghosts
  <2> QED BY <2>2, <2>3 DEF CredentialsKeep
<1> QED BY <1>1, <1>2 DEF SignOut

LEMMA LeavingKeeps ==
  ASSUME IInv, NEW l \in leaving, Revoke(l) \/ SignedOut(l)
  PROVE  CredentialsKeep
<1> USE DEF IInv
<1>0. l \in Account /\ l.key \in Keys /\ credentials \in Credentials
  BY DEF TypeOK, Account
<1>1. CASE Revoke(l)
  <2>1. Excused' = Excused
    BY <1>1 DEF Revoke, Excused
  <2>2. StoreIsRight' /\ TokensAreGood' /\ RefreshesAreRight'
    BY <1>1, <2>1, StoreAloneIsRight DEF Revoke
  <2>3. TypeOK'
    BY <1>1 DEF TypeOK, Revoke, store, attemptVars
  <2> QED BY <2>2, <2>3 DEF CredentialsKeep
<1>2. CASE SignedOut(l)
  <2>1. Drops(Without(credentials, l.key), credentials)
    BY <1>0, WithoutDrops DEF StoreIsRight, ActiveIsSaved
  <2> QED BY <1>2, <2>1, StoreEditsKeep DEF SignedOut
<1> QED BY <1>1, <1>2

LEMMA RestartKeeps ==
  ASSUME IInv, Restart
  PROVE  CredentialsKeep
<1> USE DEF IInv
<1>1. /\ credentials' = credentials /\ disk' = disk /\ refreshes' = {} /\ issued' = issued
      /\ stuck' = FALSE /\ leaving' = {} /\ UNCHANGED <<redeemed, server, revoked>>
      /\ lost' = lost \cup {x.account.refresh : x \in {y \in refreshes : y.answer \in Token}}
  BY DEF Restart, server, StoreIsRight, FileMatchesMemory
<1>2. Excused \subseteq Excused'
  BY <1>1 DEF Excused, server
<1>3. \A x \in refreshes : x.account.refresh \in Excused'
  BY <1>1 DEF Excused, server, TokensAreGood, NoSpentTokenPresented
<1>4. StoreIsRight' /\ TokensAreGood' /\ RefreshesAreRight'
  BY <1>1, <1>2, <1>3, StoreAloneIsRight DEF store
<1>5. lost' \subseteq Token
  BY <1>1 DEF TypeOK, RefreshesAreRight, Numbered
<1>6. /\ call' \in [Calls -> {"idle", "using", "done", "failed"} \cup Waiting]
      /\ status' \in [Attempts -> {"none", "pending", "completed", "failed", "cancelled"}]
      /\ listening' \in [Attempts -> BOOLEAN]
      /\ handlers' \in [Attempts -> 0..MaxHandlers]
  BY PlanAuthAssumption DEF TypeOK, Restart
<1>7. TypeOK'
  BY <1>1, <1>5, <1>6 DEF TypeOK, server
<1> QED BY <1>4, <1>7 DEF CredentialsKeep

(* A sign-in that saved its account is completed for good, and one that is  *)
(* over has let go of its port.                                             *)
LEMMA AttemptsStayRight ==
  ASSUME IInv, [Next]_vars
  PROVE  AttemptsAreRight'
<1> USE DEF IInv, AttemptsAreRight, SignedInMeansCompleted, PortIsReleased
<1>1. CASE UNCHANGED attemptVars
  BY <1>1 DEF attemptVars
<1>2. ASSUME NEW a \in Attempts, BeginSignIn(a) PROVE AttemptsAreRight'
  BY <1>2 DEF BeginSignIn, TypeOK
<1>3. ASSUME NEW a \in Attempts, Callback(a) PROVE AttemptsAreRight'
  BY <1>3 DEF Callback
<1>4. ASSUME NEW a \in Attempts, GiveUp(a) \/ ExchangeFailed(a) PROVE AttemptsAreRight'
  BY <1>4 DEF GiveUp, ExchangeFailed, FailAttempt, TypeOK
<1>5. ASSUME NEW a \in Attempts, CancelSignIn(a) PROVE AttemptsAreRight'
  BY <1>5 DEF CancelSignIn, TypeOK
<1>6. ASSUME NEW a \in Attempts, NEW k \in Keys, Exchanged(a, k) PROVE AttemptsAreRight'
  BY <1>6 DEF Exchanged, TypeOK
<1>7. CASE Restart
  BY <1>7 DEF Restart, TypeOK
<1>8. ASSUME NEW c \in Calls, GetToken(c) \/ Rejected(c) PROVE UNCHANGED attemptVars
  BY <1>8 DEF GetToken, Rejected
<1>9. ASSUME NEW x \in refreshes, Rotate(x) \/ Refreshed(x) \/ RefreshFailed(x) PROVE UNCHANGED attemptVars
  BY <1>9 DEF Rotate, Refreshed, RefreshFailed
<1>10. ASSUME NEW n \in Token, Expire(n) PROVE UNCHANGED attemptVars
  BY <1>10 DEF Expire
<1>11. ASSUME NEW k \in Keys, Activate(k) \/ SignOut(k) PROVE UNCHANGED attemptVars
  BY <1>11 DEF Activate, SignOut
<1>12. ASSUME NEW l \in leaving, Revoke(l) \/ SignedOut(l) PROVE UNCHANGED attemptVars
  BY <1>12 DEF Revoke, SignedOut
<1>13. CASE UNCHANGED vars
  BY <1>1, <1>13 DEF vars
<1> QED BY <1>1, <1>2, <1>3, <1>4, <1>5, <1>6, <1>7, <1>8, <1>9, <1>10, <1>11, <1>12, <1>13 DEF Next

LEMMA InitIsRight == Init => IInv
<1> SUFFICES ASSUME Init PROVE IInv
  OBVIOUS
<1>1. /\ credentials \in Credentials /\ Orderly(credentials)
      /\ MaxIssued \in Nat /\ MaxHandlers \in Nat /\ NoToken \notin Token
  BY PlanAuthAssumption DEF Init
<1>2. Len(Records) \in Nat /\ Len(Records) <= MaxIssued /\ issued = Len(Records)
  BY <1>1 DEF Credentials, Records, Orderly, Init
<1>3. valid = TokensOf(credentials) /\ valid \subseteq 1..issued
  BY <1>1 DEF Init, Orderly
<1>4. TypeOK
  <2>1. valid \subseteq Token /\ issued \in 0..MaxIssued
    BY <1>1, <1>2, <1>3 DEF Token
  <2>2. 0 \in 0..MaxHandlers
    BY <1>1
  <2> QED BY <1>1, <2>1, <2>2 DEF Init, TypeOK
<1>5. StoreIsRight
  BY <1>1 DEF Init, StoreIsRight, FileMatchesMemory, ActiveIsSaved, Orderly
<1>6. TokensAreGood
  BY <1>3 DEF Init, TokensAreGood, NoSpentTokenPresented, SavedTokensAreGood
<1>7. AttemptsAreRight
  BY DEF Init, AttemptsAreRight, SignedInMeansCompleted, PortIsReleased
<1>8. RefreshesAreRight
  <2>1. \A i \in DOMAIN Records : Records[i].refresh # NoToken => Records[i].refresh \in 1..issued
    BY <1>3 DEF TokensOf, Records
  <2>2. Numbered
    BY <1>2, <2>1 DEF Numbered, Init
  <2> QED BY <2>2 DEF Init, RefreshesAreRight, OneRefresh, RefreshesAreOwned, AnswersAreNew
<1> QED BY <1>4, <1>5, <1>6, <1>7, <1>8 DEF IInv

LEMMA IInvIsKept == IInv /\ [Next]_vars => IInv'
<1> SUFFICES ASSUME IInv, [Next]_vars PROVE IInv'
  OBVIOUS
<1>1. AttemptsAreRight'
  BY AttemptsStayRight
<1>2. CredentialsKeep
  <2>1. ASSUME NEW c \in Calls, GetToken(c) \/ Rejected(c) PROVE CredentialsKeep
    BY <2>1, CallsKeep
  <2>2. ASSUME NEW x \in refreshes, Rotate(x) PROVE CredentialsKeep
    BY <2>2, RotateKeeps DEF CredentialsKeep
  <2>3. ASSUME NEW x \in refreshes, Refreshed(x) PROVE CredentialsKeep
    BY <2>3, RefreshedKeeps DEF CredentialsKeep
  <2>4. ASSUME NEW x \in refreshes, RefreshFailed(x) PROVE CredentialsKeep
    BY <2>4, RefreshFailedKeeps
  <2>5. ASSUME NEW n \in Token, Expire(n) PROVE CredentialsKeep
    BY <2>5, ExpireKeeps
  <2>6. ASSUME NEW a \in Attempts,
               BeginSignIn(a) \/ Callback(a) \/ GiveUp(a) \/ CancelSignIn(a) \/ ExchangeFailed(a)
        PROVE  CredentialsKeep
    BY <2>6, AttemptsKeep
  <2>7. ASSUME NEW a \in Attempts, NEW k \in Keys, Exchanged(a, k) PROVE CredentialsKeep
    BY <2>7, ExchangedKeeps DEF CredentialsKeep
  <2>8. ASSUME NEW k \in Keys, Activate(k) PROVE CredentialsKeep
    BY <2>8, ActivateKeeps
  <2>9. ASSUME NEW k \in Keys, SignOut(k) PROVE CredentialsKeep
    BY <2>9, SignOutKeeps
  <2>10. ASSUME NEW l \in leaving, Revoke(l) \/ SignedOut(l) PROVE CredentialsKeep
    BY <2>10, LeavingKeeps
  <2>11. CASE Restart
    BY <2>11, RestartKeeps
  <2>12. CASE UNCHANGED vars
    <3>1. StoreIsRight' /\ TokensAreGood' /\ RefreshesAreRight'
      BY <2>12, UntouchedIsRight DEF vars
    <3>2. TypeOK'
      BY <2>12 DEF IInv, TypeOK, vars, store, attemptVars, server, ghosts
    <3> QED BY <3>1, <3>2 DEF CredentialsKeep
  <2> QED BY <2>1, <2>2, <2>3, <2>4, <2>5, <2>6, <2>7, <2>8, <2>9, <2>10, <2>11, <2>12 DEF Next
<1> QED BY <1>1, <1>2 DEF CredentialsKeep, IInv

(* The run's CredentialsAreSound, for any accounts, requests and sign-ins:  *)
(* no refresh presents a token that an earlier one spent, every saved token *)
(* is good or accounted for, the file is what memory holds, the active      *)
(* account is saved, and a sign-in that saved its account stays completed.  *)
THEOREM CredentialsStaySound == Spec => []CredentialsAreSound
<1>1. IInv => CredentialsAreSound
  BY DEF IInv, TokensAreGood, StoreIsRight, AttemptsAreRight, CredentialsAreSound
<1> QED BY <1>1, InitIsRight, IInvIsKept, PTL DEF Spec

(* Requests share the promise of a refresh, whoever started it, so there is *)
(* one at a time; what it presents is of the account it is for, and what it *)
(* brings back is saved nowhere else.                                       *)
THEOREM RefreshesStayRight == Spec => []RefreshesAreRight
<1>1. IInv => RefreshesAreRight
  BY DEF IInv
<1> QED BY <1>1, InitIsRight, IInvIsKept, PTL DEF Spec
=============================================================================
