--------------------------- MODULE ChatGptPlanAuth --------------------------
(***************************************************************************)
(* chatgpt-plan-auth.ts: the credential store, token source and sign-in     *)
(* coordinator of the ChatGPT plan lane. One instance per process owns the  *)
(* credential file; requests share one refresh at a time, because the       *)
(* refresh token rotates; sign-ins come back through a loopback listener;   *)
(* a sign-out revokes before it forgets. Every await is a point where the   *)
(* others run. The authorization server is external.                        *)
(*                                                                         *)
(* Left out: the host id (chosen before the first sign-in), the ID token's  *)
(* validation (an exchange succeeds or fails), and the wake-up of the       *)
(* bridge.                                                                  *)
(***************************************************************************)
EXTENDS Integers, SequencesExt

CONSTANTS
  Keys,       (* accounts: subject and client id                            *)
  Calls,      (* requests of the lane, each needing a token                  *)
  Attempts,   (* sign-in attempts                                            *)
  Stores,     (* what the credential file may hold at the start              *)
  MaxIssued,  (* bound: tokens the authorization server issues               *)
  MaxHandlers,(* bound: callbacks of one attempt under way                   *)
  NoKey, NoToken, NoAnswer, Refused

Token == 1..MaxIssued
Account == [key : Keys, access : Token, refresh : Token \cup {NoToken}]
Credentials == [accounts : Seq(Account), active : Keys \cup {NoKey}]
Refresh == [account : Account, answer : Token \cup {NoAnswer, Refused}]

KeysOf(c) == {c.accounts[i].key : i \in DOMAIN c.accounts}
TokensOf(c) == {c.accounts[i].refresh : i \in DOMAIN c.accounts} \ {NoToken}

\* One record per account, and each refresh token in one record.
OneRecordEach(c) ==
  LET as == c.accounts IN
  \A i, j \in DOMAIN as :
    as[i].key = as[j].key \/ (as[i].refresh = as[j].refresh /\ as[i].refresh # NoToken)
      => i = j

\* A file as this store writes it, its tokens named by the first numbers.
Orderly(c) ==
  /\ OneRecordEach(c)
  /\ TokensOf(c) \subseteq 1..Len(c.accounts) /\ Len(c.accounts) <= MaxIssued
  /\ c.active # NoKey => c.active \in KeysOf(c)

ASSUME PlanAuthAssumption ==
  /\ NoKey \notin Keys
  /\ MaxIssued \in Nat \ {0} /\ MaxHandlers \in Nat \ {0}
  /\ {NoToken, NoAnswer, Refused} \cap Token = {}
  /\ Stores \subseteq Credentials
  /\ \A s \in Stores : Orderly(s)

VARIABLES
  credentials, disk,              (* this.credentials and the file          *)
  refreshes,                      (* refreshes under way                    *)
  stuck,                          (* refreshInFlight holds a promise that has failed *)
  call,                           (* requests                               *)
  status, listening, handlers, redeemed,   (* sign-in attempts              *)
  leaving,                        (* sign-outs awaiting the revocation      *)
  issued, valid, expired,         (* the authorization server's tokens      *)
  lost, revoked                   (* tokens whose replacement was lost, or a sign-out revoked *)

store == <<credentials, disk>>
attemptVars == <<status, listening, handlers, redeemed>>
server == <<issued, valid, expired>>
ghosts == <<lost, revoked>>
vars == <<store, refreshes, stuck, call, attemptVars, leaving, server, ghosts>>

Waiting == {"waiting", "forced"}

TypeOK ==
  /\ credentials \in Credentials /\ disk \in Credentials
  /\ refreshes \subseteq Refresh /\ stuck \in BOOLEAN
  /\ call \in [Calls -> {"idle", "using", "done", "failed"} \cup Waiting]
  /\ status \in [Attempts -> {"none", "pending", "completed", "failed", "cancelled"}]
  /\ listening \in [Attempts -> BOOLEAN] /\ redeemed \in [Attempts -> BOOLEAN]
  /\ handlers \in [Attempts -> 0..MaxHandlers]
  /\ leaving \subseteq Account
  /\ issued \in 0..MaxIssued /\ valid \subseteq Token /\ expired \subseteq Token
  /\ lost \subseteq Token /\ revoked \subseteq Token

Init ==
  /\ credentials \in Stores /\ disk = credentials
  /\ refreshes = {} /\ stuck = FALSE /\ leaving = {}
  /\ call = [c \in Calls |-> "idle"]
  /\ status = [a \in Attempts |-> "none"]
  /\ listening = [a \in Attempts |-> FALSE] /\ redeemed = [a \in Attempts |-> FALSE]
  /\ handlers = [a \in Attempts |-> 0]
  /\ issued = Len(credentials.accounts)
  /\ valid = TokensOf(credentials) /\ expired = {}
  /\ lost = {} /\ revoked = {}

-----------------------------------------------------------------------------
\* activeAccount without a preferred key: the active one, else the first.
Served ==
  IF credentials.active \in KeysOf(credentials) THEN credentials.active
  ELSE IF credentials.accounts = <<>> THEN NoKey ELSE credentials.accounts[1].key

Saved(k) == CHOOSE a \in ToSet(credentials.accounts) : a.key = k

\* persist: what is in memory is written, by a rename.
Persist(c) == credentials' = c /\ disk' = c

\* replaceAccount, and the splice of saveAccount: in place, or at the end.
With(c, account) ==
  [c EXCEPT !.accounts =
     IF account.key \in KeysOf(c)
     THEN [i \in DOMAIN @ |-> IF @[i].key = account.key THEN account ELSE @[i]]
     ELSE Append(@, account)]

Goes(c, how) == call' = [call EXCEPT ![c] = how]

JoinOrStartEach(c, k, how) ==   \* mutant: refreshInFlight is not looked at
  /\ ~stuck /\ Saved(k).refresh # NoToken
  /\ refreshes' = refreshes \cup {[account |-> Saved(k), answer |-> NoAnswer]}
  /\ Goes(c, how)
  /\ UNCHANGED stuck

\* refreshAccount: join the refresh in flight, whosever it is, or start one.
\* A record without a refresh token fails before the first await: the finally
\* block runs first, and then the failed promise is stored.
JoinOrStart(c, k, how) ==
  \/ /\ refreshes # {}
     /\ Goes(c, how)
     /\ UNCHANGED <<refreshes, stuck>>
  \/ /\ refreshes = {} /\ ~stuck /\ Saved(k).refresh # NoToken
     /\ refreshes' = {[account |-> Saved(k), answer |-> NoAnswer]}
     /\ Goes(c, how)
     /\ UNCHANGED stuck
  \/ /\ refreshes = {} /\ (stuck \/ Saved(k).refresh = NoToken)
     /\ stuck' = TRUE
     /\ Goes(c, "failed")
     /\ UNCHANGED refreshes

NotSignedIn(c) ==
  /\ Served = NoKey
  /\ Goes(c, "failed")
  /\ UNCHANGED <<refreshes, stuck>>

\* getToken: at once, or behind a refresh.
GetToken(c) ==
  /\ call[c] = "idle"
  /\ \/ NotSignedIn(c)
     \/ /\ Served # NoKey /\ Saved(Served).access \notin expired
        /\ Goes(c, "using")
        /\ UNCHANGED <<refreshes, stuck>>
     \/ /\ Served # NoKey /\ Saved(Served).access \in expired
        /\ JoinOrStart(c, Served, "waiting")
  /\ UNCHANGED <<store, attemptVars, leaving, server, ghosts>>

\* The lane answers 401: the provider forces one refresh.
Rejected(c) ==
  /\ call[c] = "using"
  /\ NotSignedIn(c) \/ (Served # NoKey /\ JoinOrStart(c, Served, "forced"))
  /\ UNCHANGED <<store, attemptVars, leaving, server, ghosts>>

\* The token endpoint rotates a valid refresh token and refuses any other.
Rotate(x) ==
  /\ x.answer = NoAnswer
  /\ \/ /\ x.account.refresh \in valid /\ issued < MaxIssued
        /\ issued' = issued + 1
        /\ valid' = (valid \ {x.account.refresh}) \cup {issued + 1}
        /\ refreshes' = (refreshes \ {x}) \cup {[x EXCEPT !.answer = issued + 1]}
     \/ /\ x.account.refresh \notin valid
        /\ refreshes' = (refreshes \ {x}) \cup {[x EXCEPT !.answer = Refused]}
        /\ UNCHANGED <<issued, valid>>
  /\ UNCHANGED <<store, stuck, call, attemptVars, leaving, expired, ghosts>>

Renewed(x) == [x.account EXCEPT !.access = x.answer, !.refresh = x.answer]

\* The answer arrives: both tokens are stored and everyone waiting gets them.
Refreshed(x) ==
  /\ x.answer \in Token
  /\ Persist(With(credentials, Renewed(x)))
  /\ refreshes' = refreshes \ {x}
  /\ call' = [c \in Calls |-> IF call[c] = "waiting" THEN "using"
                              ELSE IF call[c] = "forced" THEN "done" ELSE call[c]]
  /\ UNCHANGED <<stuck, attemptVars, leaving, server, ghosts>>

LeaveInFlight(x) ==   \* mutant: a failed refresh is not cleared
  UNCHANGED <<store, refreshes, stuck, call, attemptVars, leaving, server, ghosts>>

\* Refused, or the network failed on the way out or back: the record stays.
RefreshFailed(x) ==
  /\ refreshes' = refreshes \ {x}
  /\ call' = [c \in Calls |-> IF call[c] \in Waiting THEN "failed" ELSE call[c]]
  /\ lost' = IF x.answer \in Token THEN lost \cup {x.account.refresh} ELSE lost
  /\ UNCHANGED <<store, stuck, attemptVars, leaving, server, revoked>>

\* The access token of a saved account runs out.
Expire(n) ==
  /\ \E i \in DOMAIN credentials.accounts : credentials.accounts[i].access = n
  /\ n \notin expired
  /\ expired' = expired \cup {n}
  /\ UNCHANGED <<store, refreshes, stuck, call, attemptVars, leaving, issued, valid, ghosts>>

-----------------------------------------------------------------------------
\* beginSignIn: the listener is bound, the timer set, the browser opened.
BeginSignIn(a) ==
  /\ status[a] = "none"
  /\ status' = [status EXCEPT ![a] = "pending"]
  /\ listening' = [listening EXCEPT ![a] = TRUE]
  /\ UNCHANGED <<store, refreshes, stuck, call, handlers, redeemed, leaving, server, ghosts>>

\* failAttempt: a pending attempt failed; the port is released either way.
FailAttempt(a) ==
  /\ status' = [status EXCEPT ![a] = IF @ = "pending" THEN "failed" ELSE @]
  /\ listening' = [listening EXCEPT ![a] = FALSE]

\* The browser comes back with a code: the exchange begins.
Callback(a) ==
  /\ status[a] = "pending" /\ handlers[a] < MaxHandlers
  /\ handlers' = [handlers EXCEPT ![a] = @ + 1]
  /\ UNCHANGED <<store, refreshes, stuck, call, status, listening, redeemed, leaving, server, ghosts>>

\* It comes back without one, or another registration's, or too late.
GiveUp(a) ==
  /\ status[a] = "pending"
  /\ FailAttempt(a)
  /\ UNCHANGED <<store, refreshes, stuck, call, handlers, redeemed, leaving, server, ghosts>>

CancelSignIn(a) ==
  /\ status[a] = "pending"
  /\ status' = [status EXCEPT ![a] = "cancelled"]
  /\ listening' = [listening EXCEPT ![a] = FALSE]
  /\ UNCHANGED <<store, refreshes, stuck, call, handlers, redeemed, leaving, server, ghosts>>

\* The code is redeemed, once: the account is saved and becomes the active
\* one, whatever has become of the attempt meanwhile.
Exchanged(a, k) ==
  /\ handlers[a] > 0 /\ ~redeemed[a] /\ issued < MaxIssued
  /\ issued' = issued + 1 /\ valid' = valid \cup {issued + 1}
  /\ \E refresh \in {issued + 1, NoToken} :
       Persist([With(credentials, [key |-> k, access |-> issued + 1, refresh |-> refresh])
                  EXCEPT !.active = k])
  /\ redeemed' = [redeemed EXCEPT ![a] = TRUE]
  /\ handlers' = [handlers EXCEPT ![a] = @ - 1]
  /\ status' = [status EXCEPT ![a] = "completed"]
  /\ listening' = [listening EXCEPT ![a] = FALSE]
  /\ UNCHANGED <<refreshes, stuck, call, leaving, expired, ghosts>>

\* The exchange fails: code already redeemed, ID token rejected, no network.
ExchangeFailed(a) ==
  /\ handlers[a] > 0
  /\ handlers' = [handlers EXCEPT ![a] = @ - 1]
  /\ FailAttempt(a)
  /\ UNCHANGED <<store, refreshes, stuck, call, redeemed, leaving, server, ghosts>>

\* activate.
Activate(k) ==
  /\ k \in KeysOf(credentials)
  /\ Persist([credentials EXCEPT !.active = k])
  /\ UNCHANGED <<refreshes, stuck, call, attemptVars, leaving, server, ghosts>>

-----------------------------------------------------------------------------
\* The account is forgotten; another one, if there is one, becomes active.
Without(c, k) ==
  LET rest == IF k \in KeysOf(c)
              THEN RemoveAt(c.accounts, CHOOSE i \in DOMAIN c.accounts : c.accounts[i].key = k)
              ELSE c.accounts
  IN [accounts |-> rest,
      active |-> IF c.active # k THEN c.active
                 ELSE IF rest = <<>> THEN NoKey ELSE rest[1].key]

\* signOut up to the revocation; with revoke: false, or nothing to revoke, it
\* is done at once.
SignOut(k) ==
  /\ k \in KeysOf(credentials)
  /\ \/ /\ Saved(k).refresh # NoToken
        /\ leaving' = leaving \cup {Saved(k)}
        /\ UNCHANGED store
     \/ Persist(Without(credentials, k)) /\ UNCHANGED leaving
  /\ UNCHANGED <<refreshes, stuck, call, attemptVars, server, ghosts>>

\* One of the bounded tries reaches the revocation endpoint.
Revoke(l) ==
  /\ l.refresh \in valid
  /\ valid' = valid \ {l.refresh}
  /\ revoked' = revoked \cup {l.refresh}
  /\ UNCHANGED <<store, refreshes, stuck, call, attemptVars, leaving, issued, expired, lost>>

\* Confirmed or given up: the account is forgotten.
SignedOut(l) ==
  /\ leaving' = leaving \ {l}
  /\ Persist(Without(credentials, l.key))
  /\ UNCHANGED <<refreshes, stuck, call, attemptVars, server, ghosts>>

\* The bridge restarts: what was under way is gone, the file is read again.
Restart ==
  /\ credentials' = disk
  /\ refreshes' = {} /\ stuck' = FALSE /\ leaving' = {}
  /\ call' = [c \in Calls |-> IF call[c] \in Waiting \cup {"using"} THEN "failed" ELSE call[c]]
  /\ status' = [a \in Attempts |-> IF status[a] = "pending" THEN "failed" ELSE status[a]]
  /\ listening' = [a \in Attempts |-> FALSE]
  /\ handlers' = [a \in Attempts |-> 0]
  /\ lost' = lost \cup {x.account.refresh : x \in {y \in refreshes : y.answer \in Token}}
  /\ UNCHANGED <<disk, redeemed, server, revoked>>

Next ==
  \/ \E c \in Calls : GetToken(c) \/ Rejected(c)
  \/ \E x \in refreshes : Rotate(x) \/ Refreshed(x) \/ RefreshFailed(x)
  \/ \E n \in Token : Expire(n)
  \/ \E a \in Attempts :
       \/ BeginSignIn(a) \/ Callback(a) \/ GiveUp(a) \/ CancelSignIn(a) \/ ExchangeFailed(a)
       \/ \E k \in Keys : Exchanged(a, k)
  \/ \E k \in Keys : Activate(k) \/ SignOut(k)
  \/ \E l \in leaving : Revoke(l) \/ SignedOut(l)
  \/ Restart

\* A call of the token endpoint ends: fetch gives up by itself if nothing else.
Fairness == WF_vars(\E x \in refreshes : Refreshed(x) \/ RefreshFailed(x))

Spec == Init /\ [][Next]_vars /\ Fairness

-----------------------------------------------------------------------------
(* "A rotating refresh token tolerates exactly one winner": no refresh      *)
(* is under way with a token that an earlier one has already spent.         *)
NoSpentTokenPresented ==
  \A x \in refreshes :
    x.answer \notin Token => x.account.refresh \in valid \cup revoked \cup lost

(* "A partial update would strand the session": the refresh token of every  *)
(* saved account is good, unless it is being exchanged, its replacement was *)
(* lost on the way, or a sign-out revoked it.                               *)
SavedTokensAreGood ==
  TokensOf(credentials) \subseteq
    valid \cup revoked \cup lost \cup {x.account.refresh : x \in refreshes}

(* A restart loses no token: the file holds what memory holds, through      *)
(* refreshes, sign-ins and sign-outs that overtake each other.              *)
FileMatchesMemory == disk = credentials

(* The active key names a saved account, also when it was made active while *)
(* its sign-out waited for the revocation.                                  *)
ActiveIsSaved ==
  credentials.active # NoKey => credentials.active \in KeysOf(credentials)

(* A browser that reloads the callback, or a timer that fires late, cannot  *)
(* turn a sign-in that saved its account into a failed one.                 *)
SignedInMeansCompleted == \A a \in Attempts : redeemed[a] => status[a] = "completed"

(* An attempt that is over holds no loopback port.                          *)
PortIsReleased == \A a \in Attempts : listening[a] => status[a] = "pending"

(* Refreshes, sign-ins and sign-outs that overtake each other present and   *)
(* keep no spent token, and leave the file, the active account, the         *)
(* attempts and the port in order.                                          *)
CredentialsAreSound ==
  /\ TypeOK
  /\ NoSpentTokenPresented
  /\ SavedTokensAreGood
  /\ FileMatchesMemory
  /\ ActiveIsSaved
  /\ SignedInMeansCompleted
  /\ PortIsReleased

(* Every request that waits for a token is answered, one way or the other.  *)
CallsAreAnswered == \A c \in Calls : call[c] \in Waiting ~> call[c] \notin Waiting

-----------------------------------------------------------------------------
(* What the comments say, and the code does not do.                         *)

(* "Stop using an account and clear its tokens locally": a forgotten account *)
(* comes back by a sign-in only.                                            *)
SignOutSticks ==
  [][KeysOf(credentials') \subseteq KeysOf(credentials) \/ redeemed' # redeemed]_vars

(* "Sign in with ChatGPT again": once the account requests use has a        *)
(* refresh token, a refresh is possible.                                    *)
SigningInAgainHelps ==
  Served # NoKey /\ Saved(Served).refresh # NoToken => ~stuck

-----------------------------------------------------------------------------
\* For an instance: one account is saved and active.
OneSaved ==
  LET k == CHOOSE k \in Keys : TRUE
  IN {[accounts |-> <<[key |-> k, access |-> 1, refresh |-> 1]>>, active |-> k]}
=============================================================================
