------------------------------ MODULE SignInProofs ------------------------------
(***************************************************************************)
(* Proofs about SignIn for every number of logins, hand-offs, polls, codes *)
(* and taps: the slots for parked polls are counted, a sign-in ends in one *)
(* session of somebody who came back from LINE for it, and three stores    *)
(* keep what OneTimeTicket promises.                                       *)
(***************************************************************************)
EXTENDS SignIn, FiniteSetTheorems, SequenceTheorems, TLAPS

-----------------------------------------------------------------------------
(* The inductive invariant. *)

LoginStates == {"open", "used", "lapsed"}
CodeRecords == [status : {"issued", "used", "lapsed"}, login : Nat, who : People, apps : SUBSET Apps]
TokenRecords == [code : Nat, who : People, apps : SUBSET Apps]
HandoffRecords ==
  [status : {"pending", "resolved", "taken", "lapsed"}, login : Nat, who : People \cup {NoOne}]
StateRecords ==
  [status : {"issued", "exchanging", "lapsed", "over"}, kind : {"oidc", "handoff", "elevate"},
   on : Nat, who : People \cup {NoOne}]
ElevateRecords ==
  [status : {"pending", "authorized", "denied", "taken", "lapsed"}, app : Apps,
   who : People \cup {NoBody}]
TapRecords == [id : Nat, who : People, apps : SUBSET Apps]
SignInRecords == [tap : Nat, who : People]
WatchRecords == [kind : Apps \cup {"self", "elevate"}, on : Readers \cup Nat]

HfIdTypes == login \in Seq(LoginStates) /\ code \in Seq(CodeRecords) /\ token \in Seq(TokenRecords)

HandoffTypes ==
  /\ handoff \in Seq(HandoffRecords)
  /\ given \in Seq(Seq(People)) /\ Len(given) = Len(handoff)
  /\ cookie \in [Browsers -> Nat \cup {NoTicket}]
  /\ poll \in [Polls -> Nat \cup {NoTicket}]

\* Whatever names a ticket names one that was made.
HandoffLinks ==
  /\ \A h \in DOMAIN handoff : handoff[h].login \in DOMAIN login
  /\ \A b \in Browsers : cookie[b] # NoTicket => cookie[b] \in DOMAIN handoff
  /\ \A q \in Polls : poll[q] # NoTicket => poll[q] \in DOMAIN handoff

SlotInv ==
  /\ waiters \in Nat /\ waiters = Cardinality({q \in Polls : Parked(q)})
  /\ Cardinality({h \in DOMAIN handoff : Live(h)}) <= MaxTickets

StateInv ==
  /\ state \in Seq(StateRecords)
  /\ \A s \in DOMAIN state :
       /\ state[s].kind = "oidc" => state[s].on \in DOMAIN login
       /\ state[s].kind = "handoff" => state[s].on \in DOMAIN handoff
       /\ state[s].kind = "elevate" => state[s].on \in DOMAIN elevate
       /\ state[s].status \in {"exchanging", "over"} => state[s].who \in People

\* A login that has had a code is not open any more, and had no other.
CodeInv ==
  /\ \A c \in DOMAIN code : code[c].login \in DOMAIN login /\ login[code[c].login] # "open"
  /\ \A c, d \in DOMAIN code : c # d => code[c].login # code[d].login

\* A code that has had its token is used, had no other, and the token is its
\* owner's.
TokenInv ==
  /\ \A t \in DOMAIN token :
       /\ token[t].code \in DOMAIN code /\ code[token[t].code].status = "used"
       /\ token[t].who = code[token[t].code].who
  /\ \A t, u \in DOMAIN token : t # u => token[t].code # token[u].code

\* A resolved hand-off names somebody who came back from LINE with it, and a
\* code somebody who came back for its login.
CameWith(h, p) ==
  \E s \in DOMAIN state :
    /\ state[s].status = "over" /\ state[s].kind = "handoff"
    /\ state[s].on = h /\ state[s].who = p
ReturnInv ==
  /\ \A h \in DOMAIN handoff :
       handoff[h].status \in {"resolved", "taken"} =>
         handoff[h].who \in People /\ CameWith(h, handoff[h].who)
  /\ \A c \in DOMAIN code : code[c].who \in CameBackFor(code[c].login)

StationTypes ==
  /\ tap \in [Readers -> TapRecords \cup {NoTap}] /\ taps \in Nat
  /\ signedIn \in Seq(SignInRecords)
  /\ claim \in Seq([reader : Readers, kind : Apps \cup {"self"}, live : BOOLEAN])
  /\ elevate \in Seq(ElevateRecords)
  /\ asserted \in Seq(Seq(People \cup {NoBody})) /\ Len(asserted) = Len(elevate)
  /\ watch \in [StationPolls -> WatchRecords \cup {NotWaiting}]

StationLinks ==
  /\ \A q \in StationPolls : watch[q] # NotWaiting =>
       IF watch[q].kind = "elevate" THEN watch[q].on \in DOMAIN elevate ELSE watch[q].on \in Readers
  /\ \A e \in DOMAIN elevate : elevate[e].status = "authorized" => elevate[e].who \in People

\* A tap waits at one reader or has been used, and has a number of its own.
TapInv ==
  /\ \A r \in Readers : tap[r] # NoTap =>
       /\ tap[r].id <= taps
       /\ \A i \in DOMAIN signedIn : signedIn[i].tap # tap[r].id
       /\ \A o \in Readers : o # r /\ tap[o] # NoTap => tap[o].id # tap[r].id
  /\ \A i \in DOMAIN signedIn : signedIn[i].tap <= taps
  /\ \A i, j \in DOMAIN signedIn : i # j => signedIn[i].tap # signedIn[j].tap

StaffTypes == staff \in [People -> Entries]
StationInv == StationTypes /\ StationLinks /\ TapInv

SignInInv ==
  /\ StaffTypes /\ HfIdTypes /\ HandoffTypes /\ HandoffLinks /\ SlotInv
  /\ StateInv /\ CodeInv /\ TokenInv /\ ReturnInv /\ StationInv

-----------------------------------------------------------------------------
(* Sequences and counts. *)

LEMMA AppendIs ==
  ASSUME NEW T, NEW s \in Seq(T), NEW e \in T
  PROVE  /\ Append(s, e) \in Seq(T) /\ Len(Append(s, e)) = Len(s) + 1
         /\ DOMAIN s = 1 .. Len(s) /\ Len(s) \in Nat
         /\ DOMAIN Append(s, e) = DOMAIN s \cup {Len(s) + 1} /\ Len(s) + 1 \notin DOMAIN s
         /\ \A i \in DOMAIN s : Append(s, e)[i] = s[i]
         /\ Append(s, e)[Len(s) + 1] = e
  OBVIOUS

LEMMA UpdateIs ==
  ASSUME NEW T, NEW s \in Seq(T), NEW i \in DOMAIN s, NEW e \in T
  PROVE  /\ [s EXCEPT ![i] = e] \in Seq(T) /\ Len([s EXCEPT ![i] = e]) = Len(s)
         /\ DOMAIN [s EXCEPT ![i] = e] = DOMAIN s
         /\ [s EXCEPT ![i] = e][i] = e
         /\ \A j \in DOMAIN s : j # i => [s EXCEPT ![i] = e][j] = s[j]
  OBVIOUS

LEMMA ElementOf ==
  ASSUME NEW T, NEW s \in Seq(T)
  PROVE  /\ \A i \in DOMAIN s : s[i] \in T
         /\ DOMAIN s = 1 .. Len(s) /\ Len(s) \in Nat
  OBVIOUS

LEMMA Retyped ==
  ASSUME NEW T, NEW U, NEW s \in Seq(T), \A i \in DOMAIN s : s[i] \in U
  PROVE  s \in Seq(U)
  OBVIOUS

LEMMA LoginUpdate ==
  ASSUME NEW s \in Seq(LoginStates), NEW l \in DOMAIN s, NEW v \in LoginStates
  PROVE  /\ [s EXCEPT ![l] = v] \in Seq(LoginStates) /\ DOMAIN [s EXCEPT ![l] = v] = DOMAIN s
         /\ [s EXCEPT ![l] = v][l] = v
         /\ \A j \in DOMAIN s : j # l => [s EXCEPT ![l] = v][j] = s[j]
  BY UpdateIs

\* The updates of the records: r is s with e at i.
Changed(T, s, i, e, r) ==
  /\ r \in Seq(T) /\ Len(r) = Len(s) /\ DOMAIN r = DOMAIN s /\ r[i] = e
  /\ \A j \in DOMAIN s : j # i => r[j] = s[j]

Moved(s, i, v) == [s EXCEPT ![i].status = v]
Answered(s, i, v, p) == [s EXCEPT ![i].status = v, ![i].who = p]

LEMMA MovedIs ==
  ASSUME NEW T, NEW s \in Seq(T), NEW i \in DOMAIN s, NEW v, NEW e \in T, e = [s[i] EXCEPT !.status = v]
  PROVE  Changed(T, s, i, e, Moved(s, i, v))
<1>1. Moved(s, i, v) = [s EXCEPT ![i] = e]
  BY DEF Moved
<1> QED BY <1>1, UpdateIs DEF Changed

LEMMA AnsweredIs ==
  ASSUME NEW T, NEW s \in Seq(T), NEW i \in DOMAIN s, NEW v, NEW p, NEW e \in T,
         NEW t, t = [s[i] EXCEPT !.status = v], e = [t EXCEPT !.who = p]
  PROVE  Changed(T, s, i, e, Answered(s, i, v, p))
<1>1. Answered(s, i, v, p) = [s EXCEPT ![i] = e]
  BY DEF Answered
<1> QED BY <1>1, UpdateIs DEF Changed

LEMMA CodeMoves ==
  ASSUME NEW s \in Seq(CodeRecords), NEW c \in DOMAIN s, NEW v \in {"issued", "used", "lapsed"}
  PROVE  \E e \in CodeRecords :
           /\ Changed(CodeRecords, s, c, e, Moved(s, c, v))
           /\ e.status = v /\ e.login = s[c].login /\ e.who = s[c].who /\ e.apps = s[c].apps
<1>1. s[c] \in CodeRecords
  OBVIOUS
<1>2. PICK e : e = [s[c] EXCEPT !.status = v]
  OBVIOUS
<1>3. e \in CodeRecords /\ e.status = v /\ e.login = s[c].login /\ e.who = s[c].who /\ e.apps = s[c].apps
  BY <1>1, <1>2 DEF CodeRecords
<1> QED BY <1>2, <1>3, MovedIs

LEMMA HandoffMoves ==
  ASSUME NEW s \in Seq(HandoffRecords), NEW h \in DOMAIN s, NEW v \in {"pending", "resolved", "taken", "lapsed"}
  PROVE  \E e \in HandoffRecords :
           /\ Changed(HandoffRecords, s, h, e, Moved(s, h, v))
           /\ e.status = v /\ e.login = s[h].login /\ e.who = s[h].who
<1>1. s[h] \in HandoffRecords
  OBVIOUS
<1>2. PICK e : e = [s[h] EXCEPT !.status = v]
  OBVIOUS
<1>3. e \in HandoffRecords /\ e.status = v /\ e.login = s[h].login /\ e.who = s[h].who
  BY <1>1, <1>2 DEF HandoffRecords
<1> QED BY <1>2, <1>3, MovedIs

LEMMA HandoffAnswered ==
  ASSUME NEW s \in Seq(HandoffRecords), NEW h \in DOMAIN s, NEW v \in {"pending", "resolved", "taken", "lapsed"},
         NEW p \in People \cup {NoOne}
  PROVE  \E e \in HandoffRecords :
           /\ Changed(HandoffRecords, s, h, e, Answered(s, h, v, p))
           /\ e.status = v /\ e.who = p /\ e.login = s[h].login
<1>1. s[h] \in HandoffRecords
  OBVIOUS
<1>2. PICK t : t = [s[h] EXCEPT !.status = v]
  OBVIOUS
<1>3. PICK e : e = [t EXCEPT !.who = p]
  OBVIOUS
<1>4. t \in HandoffRecords /\ t.status = v /\ t.login = s[h].login
  BY <1>1, <1>2 DEF HandoffRecords
<1>5. e \in HandoffRecords /\ e.status = v /\ e.who = p /\ e.login = s[h].login
  BY <1>3, <1>4 DEF HandoffRecords
<1> QED BY <1>2, <1>3, <1>5, AnsweredIs

LEMMA StateMoves ==
  ASSUME NEW s \in Seq(StateRecords), NEW i \in DOMAIN s, NEW v \in {"issued", "exchanging", "lapsed", "over"}
  PROVE  \E e \in StateRecords :
           /\ Changed(StateRecords, s, i, e, Moved(s, i, v))
           /\ e.status = v /\ e.kind = s[i].kind /\ e.on = s[i].on /\ e.who = s[i].who
<1>1. s[i] \in StateRecords
  OBVIOUS
<1>2. PICK e : e = [s[i] EXCEPT !.status = v]
  OBVIOUS
<1>3. e \in StateRecords /\ e.status = v /\ e.kind = s[i].kind /\ e.on = s[i].on /\ e.who = s[i].who
  BY <1>1, <1>2 DEF StateRecords
<1> QED BY <1>2, <1>3, MovedIs

LEMMA StateAnswered ==
  ASSUME NEW s \in Seq(StateRecords), NEW i \in DOMAIN s, NEW v \in {"issued", "exchanging", "lapsed", "over"},
         NEW p \in People \cup {NoOne}
  PROVE  \E e \in StateRecords :
           /\ Changed(StateRecords, s, i, e, Answered(s, i, v, p))
           /\ e.status = v /\ e.who = p /\ e.kind = s[i].kind /\ e.on = s[i].on
<1>1. s[i] \in StateRecords
  OBVIOUS
<1>2. PICK t : t = [s[i] EXCEPT !.status = v]
  OBVIOUS
<1>3. PICK e : e = [t EXCEPT !.who = p]
  OBVIOUS
<1>4. t \in StateRecords /\ t.status = v /\ t.kind = s[i].kind /\ t.on = s[i].on
  BY <1>1, <1>2 DEF StateRecords
<1>5. e \in StateRecords /\ e.status = v /\ e.who = p /\ e.kind = s[i].kind /\ e.on = s[i].on
  BY <1>3, <1>4 DEF StateRecords
<1> QED BY <1>2, <1>3, <1>5, AnsweredIs

LEMMA ElevateMoves ==
  ASSUME NEW s \in Seq(ElevateRecords), NEW i \in DOMAIN s, NEW v \in {"pending", "authorized", "denied", "taken", "lapsed"}
  PROVE  \E e \in ElevateRecords :
           /\ Changed(ElevateRecords, s, i, e, Moved(s, i, v))
           /\ e.status = v /\ e.app = s[i].app /\ e.who = s[i].who
<1>1. s[i] \in ElevateRecords
  OBVIOUS
<1>2. PICK e : e = [s[i] EXCEPT !.status = v]
  OBVIOUS
<1>3. e \in ElevateRecords /\ e.status = v /\ e.app = s[i].app /\ e.who = s[i].who
  BY <1>1, <1>2 DEF ElevateRecords
<1> QED BY <1>2, <1>3, MovedIs

LEMMA ElevateAnswered ==
  ASSUME NEW s \in Seq(ElevateRecords), NEW i \in DOMAIN s, NEW v \in {"pending", "authorized", "denied", "taken", "lapsed"},
         NEW p \in People \cup {NoBody}
  PROVE  \E e \in ElevateRecords :
           /\ Changed(ElevateRecords, s, i, e, Answered(s, i, v, p))
           /\ e.status = v /\ e.who = p /\ e.app = s[i].app
<1>1. s[i] \in ElevateRecords
  OBVIOUS
<1>2. PICK t : t = [s[i] EXCEPT !.status = v]
  OBVIOUS
<1>3. PICK e : e = [t EXCEPT !.who = p]
  OBVIOUS
<1>4. t \in ElevateRecords /\ t.status = v /\ t.app = s[i].app
  BY <1>1, <1>2 DEF ElevateRecords
<1>5. e \in ElevateRecords /\ e.status = v /\ e.who = p /\ e.app = s[i].app
  BY <1>3, <1>4 DEF ElevateRecords
<1> QED BY <1>2, <1>3, <1>5, AnsweredIs

-----------------------------------------------------------------------------
(* HF ID: codes and tokens. *)

HfIdInv == HfIdTypes /\ CodeInv /\ TokenInv

\* A login that was taken stays taken.
LoginGoesOn ==
  /\ login' \in Seq(LoginStates) /\ DOMAIN login \subseteq DOMAIN login'
  /\ \A l \in DOMAIN login : login[l] # "open" => login'[l] # "open"

\* Codes keep their login and their owner, and the used ones stay used.
CodesStay ==
  /\ DOMAIN code \subseteq DOMAIN code'
  /\ \A c \in DOMAIN code :
       /\ code'[c].login = code[c].login /\ code'[c].who = code[c].who
       /\ code[c].status = "used" => code'[c].status = "used"

LEMMA Consumed ==
  ASSUME HfIdTypes, NEW l \in DOMAIN login
  PROVE  /\ ConsumeLoginTicket(l) \in Seq(LoginStates)
         /\ DOMAIN ConsumeLoginTicket(l) = DOMAIN login
         /\ ConsumeLoginTicket(l)[l] # "open"
         /\ \A k \in DOMAIN login : login[k] # "open" => ConsumeLoginTicket(l)[k] # "open"
<1>1. login \in Seq(LoginStates) /\ login[l] \in LoginStates
  BY ElementOf DEF HfIdTypes
<1> DEFINE v == IF login[l] = "open" THEN "used" ELSE login[l]
<1>2. v \in LoginStates /\ v # "open" /\ ConsumeLoginTicket(l) = [login EXCEPT ![l] = v]
  BY <1>1 DEF LoginStates, ConsumeLoginTicket
<1> HIDE DEF v
<1> QED BY <1>1, <1>2, LoginUpdate

LEMMA LoginMoves ==
  ASSUME HfIdInv, LoginGoesOn, UNCHANGED <<code, token>>
  PROVE  HfIdInv' /\ CodesStay
  BY DEF HfIdInv, HfIdTypes, CodeInv, TokenInv, LoginGoesOn, CodesStay

\* Whoever continues with an open login gets the first code of it.
LEMMA OidcStep ==
  ASSUME HfIdInv, StaffTypes, NEW l \in DOMAIN login, NEW p \in People, ContinueOidc(l, p)
  PROVE  /\ HfIdInv' /\ CodesStay /\ DOMAIN login' = DOMAIN login
         /\ \A c \in DOMAIN code' : c \notin DOMAIN code => code'[c].login = l /\ code'[c].who = p
         /\ \/ code' = code
            \/ /\ DOMAIN code' = DOMAIN code \cup {Len(code) + 1} /\ Len(code) + 1 \notin DOMAIN code
               /\ code'[Len(code) + 1].status = "issued"
               /\ \A c \in DOMAIN code : code'[c] = code[c]
<1>1. LoginGoesOn /\ DOMAIN login' = DOMAIN login /\ login'[l] # "open" /\ token' = token
  BY Consumed DEF ContinueOidc, LoginGoesOn, HfIdInv
<1>2. CASE code' = code
  BY <1>1, <1>2, LoginMoves
<1>3. CASE code' # code
  <2> DEFINE n == Len(code) + 1
             rec == [status |-> "issued", login |-> l, who |-> p, apps |-> staff[p].apps]
  <2>1. login[l] = "open" /\ code' = Append(code, rec)
    BY <1>3 DEF ContinueOidc, IssueCode
  <2>2. code \in Seq(CodeRecords) /\ login \in Seq(LoginStates) /\ l \in Nat
    BY ElementOf DEF HfIdInv, HfIdTypes
  <2>3. rec \in CodeRecords /\ rec.login = l /\ rec.who = p /\ rec.status = "issued"
    BY <2>2 DEF StaffTypes, Entries, CodeRecords
  <2> HIDE DEF rec
  <2>4. /\ code' \in Seq(CodeRecords) /\ DOMAIN code' = DOMAIN code \cup {n}
        /\ n \notin DOMAIN code /\ code'[n] = rec /\ \A c \in DOMAIN code : code'[c] = code[c]
    BY <2>1, <2>2, <2>3, AppendIs
  <2> HIDE DEF n
  <2>5. \A c \in DOMAIN code : code[c].login # l
    BY <2>1 DEF HfIdInv, CodeInv
  <2>6. CodeInv'
    BY <1>1, <2>3, <2>4, <2>5 DEF HfIdInv, CodeInv, LoginGoesOn
  <2>7. TokenInv' /\ CodesStay
    BY <1>1, <2>4 DEF HfIdInv, TokenInv, CodesStay
  <2>8. HfIdTypes'
    BY <1>1, <2>4 DEF HfIdInv, HfIdTypes, LoginGoesOn
  <2> QED BY <1>1, <2>3, <2>4, <2>6, <2>7, <2>8 DEF HfIdInv, n
<1> QED BY <1>2, <1>3

LEMMA OidcFailsStep ==
  ASSUME HfIdInv, NEW l \in DOMAIN login, ContinueOidcFails(l)
  PROVE  HfIdInv' /\ CodesStay /\ DOMAIN login' = DOMAIN login /\ code' = code
<1>1. LoginGoesOn /\ DOMAIN login' = DOMAIN login /\ UNCHANGED <<code, token>>
  BY Consumed DEF ContinueOidcFails, LoginGoesOn, HfIdInv
<1> QED BY <1>1, LoginMoves

LEMMA RedeemStep ==
  ASSUME HfIdInv, NEW c \in DOMAIN code, NEW sound \in BOOLEAN, RedeemCode(c, sound)
  PROVE  HfIdInv' /\ CodesStay /\ DOMAIN code' = DOMAIN code
<1>1. code \in Seq(CodeRecords) /\ c \in Nat /\ code[c] \in CodeRecords /\ token \in Seq(TokenRecords)
  BY ElementOf DEF HfIdInv, HfIdTypes
<1>2. code[c].status = "issued" /\ code' = Moved(code, c, "used") /\ login' = login
  BY DEF RedeemCode, Moved
<1>3. /\ code' \in Seq(CodeRecords) /\ DOMAIN code' = DOMAIN code /\ code'[c].status = "used"
      /\ \A j \in DOMAIN code : code'[j].login = code[j].login /\ code'[j].who = code[j].who
                                /\ code'[j].apps = code[j].apps
      /\ \A j \in DOMAIN code : j # c => code'[j] = code[j]
  <2>1. PICK e \in CodeRecords :
          /\ Changed(CodeRecords, code, c, e, code') /\ e.status = "used"
          /\ e.login = code[c].login /\ e.who = code[c].who /\ e.apps = code[c].apps
    BY <1>1, <1>2, CodeMoves
  <2> QED BY <2>1 DEF Changed
<1>4. CodesStay /\ CodeInv'
  BY <1>2, <1>3 DEF CodesStay, HfIdInv, CodeInv
<1>5. \A t \in DOMAIN token : token[t].code # c
  BY <1>2 DEF HfIdInv, TokenInv
<1>6. token' \in Seq(TokenRecords) /\ TokenInv'
  <2>1. CASE token' = token
    BY <1>1, <1>3, <2>1 DEF HfIdInv, TokenInv
  <2>2. CASE token' # token
    <3> DEFINE rec == Claims(c)  n == Len(token) + 1
    <3>1. token' = Append(token, rec)
      BY <2>2 DEF RedeemCode
    <3>2. rec \in TokenRecords /\ rec.code = c /\ rec.who = code[c].who
      BY <1>1 DEF Claims, TokenRecords, CodeRecords
    <3> HIDE DEF rec
    <3>3. /\ token' \in Seq(TokenRecords) /\ DOMAIN token' = DOMAIN token \cup {n}
          /\ n \notin DOMAIN token /\ token'[n] = rec /\ \A t \in DOMAIN token : token'[t] = token[t]
      BY <1>1, <3>1, <3>2, AppendIs
    <3> HIDE DEF n
    <3>4. \A t \in DOMAIN token' :
            /\ token'[t].code \in DOMAIN code' /\ code'[token'[t].code].status = "used"
            /\ token'[t].who = code'[token'[t].code].who
      BY <1>3, <3>2, <3>3 DEF HfIdInv, TokenInv
    <3>5. \A t, u \in DOMAIN token' : t # u => token'[t].code # token'[u].code
      BY <1>5, <3>2, <3>3 DEF HfIdInv, TokenInv
    <3> QED BY <3>3, <3>4, <3>5 DEF TokenInv
  <2> QED BY <2>1, <2>2
<1> QED BY <1>1, <1>2, <1>3, <1>4, <1>6 DEF HfIdInv, HfIdTypes

LEMMA HfIdStep ==
  ASSUME HfIdInv, HfIdNext
  PROVE  HfIdInv' /\ CodesStay /\ DOMAIN code' = DOMAIN code /\ DOMAIN login \subseteq DOMAIN login'
<1>0. login \in Seq(LoginStates) /\ code \in Seq(CodeRecords)
  BY DEF HfIdInv, HfIdTypes
<1>1. CASE Authorize
  <2>1. LoginGoesOn
    BY <1>0, <1>1, AppendIs DEF Authorize, LoginGoesOn, LoginStates
  <2> QED BY <1>1, <2>1, LoginMoves DEF Authorize, LoginGoesOn
<1>2. ASSUME NEW l \in DOMAIN login, LoginLapses(l)
      PROVE  HfIdInv' /\ CodesStay /\ DOMAIN code' = DOMAIN code /\ DOMAIN login \subseteq DOMAIN login'
  <2>1. "lapsed" \in LoginStates /\ "lapsed" # "open"
    BY DEF LoginStates
  <2>2. LoginGoesOn
    BY <1>0, <1>2, <2>1, LoginUpdate DEF LoginLapses, LoginGoesOn
  <2> QED BY <1>2, <2>2, LoginMoves DEF LoginLapses, LoginGoesOn
<1>3. ASSUME NEW c \in DOMAIN code, CodeLapses(c)
      PROVE  HfIdInv' /\ CodesStay /\ DOMAIN code' = DOMAIN code /\ DOMAIN login \subseteq DOMAIN login'
  <2>1. code[c].status = "issued" /\ code' = Moved(code, c, "lapsed")
        /\ UNCHANGED <<login, token>>
    BY <1>3 DEF CodeLapses, Moved
  <2>2. /\ code' \in Seq(CodeRecords) /\ DOMAIN code' = DOMAIN code
        /\ \A j \in DOMAIN code : code'[j].login = code[j].login /\ code'[j].who = code[j].who
        /\ \A j \in DOMAIN code : j # c => code'[j] = code[j]
    <3>1. PICK e \in CodeRecords :
            /\ Changed(CodeRecords, code, c, e, code')
            /\ e.login = code[c].login /\ e.who = code[c].who
      BY <1>0, <2>1, CodeMoves
    <3> QED BY <3>1 DEF Changed
  <2>3. CodesStay /\ CodeInv' /\ TokenInv'
    BY <2>1, <2>2 DEF CodesStay, HfIdInv, CodeInv, TokenInv
  <2> QED BY <2>1, <2>2, <2>3 DEF HfIdInv, HfIdTypes
<1>4. ASSUME NEW c \in DOMAIN code, NEW sound \in BOOLEAN, RedeemCode(c, sound)
      PROVE  HfIdInv' /\ CodesStay /\ DOMAIN code' = DOMAIN code /\ DOMAIN login \subseteq DOMAIN login'
  BY <1>4, RedeemStep DEF RedeemCode
<1> QED BY <1>1, <1>2, <1>3, <1>4 DEF HfIdNext

-----------------------------------------------------------------------------
(* The hand-off tickets and the polls that wait for them. *)

HandoffInv == HandoffTypes /\ HandoffLinks /\ SlotInv
LiveSet == {h \in DOMAIN handoff : Live(h)}
ParkedSet == {q \in Polls : Parked(q)}

\* Tickets keep their login.
HandoffsStay ==
  /\ DOMAIN handoff \subseteq DOMAIN handoff'
  /\ \A h \in DOMAIN handoff : handoff'[h].login = handoff[h].login

\* No ticket gets an answer, and none loses the one it was given.
NoneResolved ==
  \A h \in DOMAIN handoff' : handoff'[h].status \in {"resolved", "taken"} =>
    /\ h \in DOMAIN handoff /\ handoff[h].status \in {"resolved", "taken"}
    /\ handoff'[h].who = handoff[h].who

LEMMA SetsFinite ==
  ASSUME HandoffTypes
  PROVE  IsFiniteSet(LiveSet) /\ IsFiniteSet(ParkedSet)
<1>1. IsFiniteSet(DOMAIN handoff)
  BY ElementOf, FS_Interval DEF HandoffTypes
<1> QED BY <1>1, FS_Subset, HandoffAssumption DEF LiveSet, ParkedSet

LEMMA FewerLive ==
  ASSUME HandoffInv, LiveSet' \subseteq LiveSet
  PROVE  Cardinality(LiveSet') <= MaxTickets
<1>1. IsFiniteSet(LiveSet) /\ Cardinality(LiveSet) <= MaxTickets
  BY SetsFinite DEF HandoffInv, SlotInv, LiveSet
<1>2. LiveSet' \in SUBSET LiveSet
  OBVIOUS
<1> QED BY <1>1, <1>2, FS_Subset, FS_CardinalityType, HandoffAssumption

\* The tickets do not change, or stop counting; nobody waits anew.
LEMMA SlotsKeep ==
  ASSUME HandoffInv, LiveSet' \subseteq LiveSet, UNCHANGED <<poll, waiters>>
  PROVE  SlotInv'
<1>1. ParkedSet' = ParkedSet
  BY DEF ParkedSet, Parked
<1> QED BY <1>1, FewerLive DEF HandoffInv, SlotInv, LiveSet, ParkedSet

LEMMA LeaveKeeps ==
  ASSUME HandoffInv, LiveSet' \subseteq LiveSet, NEW q \in Polls, Parked(q), Leave(q)
  PROVE  SlotInv' /\ poll' \in [Polls -> Nat \cup {NoTicket}]
         /\ \A o \in Polls : poll'[o] = IF o = q THEN NoTicket ELSE poll[o]
<1>1. /\ poll' \in [Polls -> Nat \cup {NoTicket}]
      /\ \A o \in Polls : poll'[o] = IF o = q THEN NoTicket ELSE poll[o]
  BY DEF Leave, HandoffInv, HandoffTypes
<1>2. ParkedSet' = ParkedSet \ {q} /\ q \in ParkedSet /\ IsFiniteSet(ParkedSet)
  BY <1>1, SetsFinite DEF ParkedSet, Parked, HandoffInv
<1>3. Cardinality(ParkedSet') = Cardinality(ParkedSet) - 1 /\ Cardinality(ParkedSet) # 0
  BY <1>2, FS_RemoveElement, FS_EmptySet
<1>4. waiters \in Nat /\ waiters = Cardinality(ParkedSet)
  BY DEF HandoffInv, SlotInv, ParkedSet
<1>5. waiters' \in Nat /\ waiters' = Cardinality(ParkedSet')
  BY <1>3, <1>4 DEF Leave
<1> QED BY <1>1, <1>5, FewerLive DEF SlotInv, LiveSet, ParkedSet

LEMMA CreateStep ==
  ASSUME HandoffInv, HfIdTypes, NEW b \in Browsers, NEW l \in DOMAIN login,
         RoomForTicket, CreateTicket(b, l)
  PROVE  HandoffInv' /\ HandoffsStay /\ NoneResolved /\ Len(handoff') \in DOMAIN handoff'
<1> DEFINE n == Len(handoff) + 1
           rec == [status |-> "pending", login |-> l, who |-> NoOne]
<1>1. /\ handoff \in Seq(HandoffRecords) /\ given \in Seq(Seq(People)) /\ Len(given) = Len(handoff)
      /\ login' = login /\ poll' = poll /\ waiters' = waiters
  BY DEF HandoffInv, HandoffTypes, CreateTicket, hfidVars
<1>2. rec \in HandoffRecords /\ rec.status = "pending" /\ rec.login = l
  <2>1. l \in Nat
    BY ElementOf DEF HfIdTypes
  <2> QED BY <2>1 DEF HandoffRecords
<1>3. handoff' = Append(handoff, rec) /\ given' = Append(given, <<>>)
      /\ cookie' = [cookie EXCEPT ![b] = Len(handoff')]
  BY DEF CreateTicket
<1> HIDE DEF rec
<1>4. /\ handoff' \in Seq(HandoffRecords) /\ DOMAIN handoff' = DOMAIN handoff \cup {n}
      /\ n \notin DOMAIN handoff /\ handoff'[n] = rec /\ Len(handoff') = n
      /\ \A h \in DOMAIN handoff : handoff'[h] = handoff[h]
  BY <1>1, <1>2, <1>3, AppendIs
<1>5. given' \in Seq(Seq(People)) /\ Len(given') = n /\ n \in Nat
  <2>1. <<>> \in Seq(People)
    OBVIOUS
  <2> QED BY <1>1, <1>3, <2>1, AppendIs
<1> HIDE DEF n
<1>6. cookie' \in [Browsers -> Nat \cup {NoTicket}]
      /\ \A o \in Browsers : cookie'[o] = IF o = b THEN n ELSE cookie[o]
  BY <1>3, <1>4, <1>5 DEF HandoffInv, HandoffTypes
<1>7. HandoffTypes'
  BY <1>1, <1>4, <1>5, <1>6 DEF HandoffInv, HandoffTypes
<1>8. HandoffLinks'
  BY <1>1, <1>2, <1>4, <1>6 DEF HandoffInv, HandoffLinks
<1>9. SlotInv'
  <2>1. LiveSet' = LiveSet \cup {n} /\ n \notin LiveSet
    BY <1>2, <1>4 DEF LiveSet, Live
  <2>2. IsFiniteSet(LiveSet) /\ Cardinality(LiveSet) < MaxTickets /\ Cardinality(LiveSet) \in Nat
    BY SetsFinite, FS_CardinalityType DEF HandoffInv, RoomForTicket, LiveSet
  <2>3. Cardinality(LiveSet') <= MaxTickets
    <3>1. Cardinality(LiveSet') = Cardinality(LiveSet) + 1
      BY <2>1, <2>2, FS_AddElement
    <3> QED BY <2>2, <3>1, HandoffAssumption
  <2>4. ParkedSet' = ParkedSet
    BY <1>1 DEF ParkedSet, Parked
  <2> QED BY <1>1, <2>3, <2>4 DEF HandoffInv, SlotInv, LiveSet, ParkedSet
<1> QED
  BY <1>2, <1>4, <1>7, <1>8, <1>9 DEF HandoffInv, HandoffsStay, NoneResolved

LEMMA ResolveStep ==
  ASSUME HandoffInv, NEW h \in DOMAIN handoff, NEW p \in People, NEW same \in BOOLEAN,
         ResolveTicket(h, p, same)
  PROVE  /\ HandoffInv' /\ HandoffsStay
         /\ \A g \in DOMAIN handoff' : g # h => handoff'[g] = handoff[g]
         /\ handoff'[h] = handoff[h] \/ handoff'[h].who = p
         /\ DOMAIN handoff' = DOMAIN handoff
<1>1. /\ handoff \in Seq(HandoffRecords)
      /\ UNCHANGED <<login, poll, cookie, waiters, given>>
  BY DEF HandoffInv, HandoffTypes, ResolveTicket, hfidVars
<1>2. CASE handoff' = handoff
  <2>1. LiveSet' = LiveSet
    BY <1>2 DEF LiveSet, Live
  <2>2. SlotInv'
    BY <1>1, <2>1, SlotsKeep
  <2> QED BY <1>1, <1>2, <2>2 DEF HandoffInv, HandoffTypes, HandoffLinks, HandoffsStay
<1>3. CASE handoff' # handoff
  <2>1. handoff[h].status = "pending" /\ handoff' = Answered(handoff, h, "resolved", p)
    BY <1>3 DEF ResolveTicket, Answered
  <2>2. /\ handoff' \in Seq(HandoffRecords) /\ DOMAIN handoff' = DOMAIN handoff
        /\ Len(handoff') = Len(handoff) /\ handoff'[h].who = p
        /\ \A j \in DOMAIN handoff : handoff'[j].login = handoff[j].login
        /\ \A j \in DOMAIN handoff : j # h => handoff'[j] = handoff[j]
    <3>1. PICK e \in HandoffRecords :
            /\ Changed(HandoffRecords, handoff, h, e, handoff')
            /\ e.who = p /\ e.login = handoff[h].login
      BY <1>1, <2>1, HandoffAnswered
    <3> QED BY <3>1 DEF Changed
  <2>3. LiveSet' \subseteq LiveSet
    BY <2>1, <2>2 DEF LiveSet, Live
  <2>4. SlotInv'
    BY <1>1, <2>3, SlotsKeep
  <2> QED BY <1>1, <2>2, <2>4 DEF HandoffInv, HandoffTypes, HandoffLinks, HandoffsStay
<1> QED BY <1>2, <1>3

LEMMA HandoffLapseStep ==
  ASSUME HandoffInv, NEW h \in DOMAIN handoff, HandoffLapses(h)
  PROVE  HandoffInv' /\ HandoffsStay /\ NoneResolved /\ DOMAIN handoff' = DOMAIN handoff
         /\ \A g \in DOMAIN handoff : g # h => handoff'[g] = handoff[g]
         /\ handoff'[h].status = "lapsed"
<1>1. /\ handoff \in Seq(HandoffRecords) /\ handoff' = Moved(handoff, h, "lapsed")
      /\ UNCHANGED <<login, poll, cookie, waiters, given>>
  BY DEF HandoffInv, HandoffTypes, HandoffLapses, hfidVars, Moved
<1>2. /\ handoff' \in Seq(HandoffRecords) /\ DOMAIN handoff' = DOMAIN handoff
      /\ Len(handoff') = Len(handoff) /\ handoff'[h].status = "lapsed"
      /\ \A j \in DOMAIN handoff : handoff'[j].login = handoff[j].login
      /\ \A j \in DOMAIN handoff : j # h => handoff'[j] = handoff[j]
  <2>1. PICK e \in HandoffRecords :
          /\ Changed(HandoffRecords, handoff, h, e, handoff')
          /\ e.status = "lapsed" /\ e.login = handoff[h].login
    BY <1>1, HandoffMoves
  <2> QED BY <2>1 DEF Changed
<1>3. LiveSet' \subseteq LiveSet
  BY <1>2 DEF LiveSet, Live
<1>4. SlotInv'
  BY <1>1, <1>3, SlotsKeep
<1> QED
  BY <1>1, <1>2, <1>4 DEF HandoffInv, HandoffTypes, HandoffLinks, HandoffsStay, NoneResolved

ResolvedKnown ==
  \A h \in DOMAIN handoff : handoff[h].status = "resolved" => handoff[h].who \in People

\* A poll that takes its ticket: the part of Collect outside HF ID.
LEMMA TakeStep ==
  ASSUME HandoffInv, ResolvedKnown, NEW q \in Polls, Take(q), Leave(q), UNCHANGED cookie, DOMAIN login' = DOMAIN login
  PROVE  /\ HandoffInv' /\ HandoffsStay /\ NoneResolved /\ DOMAIN handoff' = DOMAIN handoff
         /\ poll[q] \in DOMAIN handoff /\ handoff[poll[q]].status = "resolved"
         /\ handoff'[poll[q]].status = "taken"
         /\ \A g \in DOMAIN handoff : g # poll[q] => handoff'[g] = handoff[g]
<1> DEFINE h == poll[q]
<1>1. h \in DOMAIN handoff /\ handoff \in Seq(HandoffRecords) /\ given \in Seq(Seq(People))
      /\ Len(given) = Len(handoff) /\ Parked(q) /\ handoff[h].status = "resolved"
  BY DEF Take, Parked, HandoffInv, HandoffLinks, HandoffTypes
<1>2. /\ handoff' = Moved(handoff, h, "taken")
      /\ given' = [given EXCEPT ![h] = Append(given[h], handoff[h].who)]
  BY DEF Take, Moved
<1> HIDE DEF h
<1>3. /\ handoff' \in Seq(HandoffRecords) /\ DOMAIN handoff' = DOMAIN handoff
      /\ Len(handoff') = Len(handoff) /\ handoff'[h].status = "taken" /\ handoff'[h].who = handoff[h].who
      /\ \A j \in DOMAIN handoff : handoff'[j].login = handoff[j].login
      /\ \A j \in DOMAIN handoff : j # h => handoff'[j] = handoff[j]
  <2>1. PICK e \in HandoffRecords :
          /\ Changed(HandoffRecords, handoff, h, e, handoff')
          /\ e.status = "taken" /\ e.who = handoff[h].who /\ e.login = handoff[h].login
    BY <1>1, <1>2, HandoffMoves
  <2> QED BY <2>1 DEF Changed
<1>4. LiveSet' \subseteq LiveSet
  BY <1>3 DEF LiveSet, Live
<1>5. /\ SlotInv' /\ poll' \in [Polls -> Nat \cup {NoTicket}]
      /\ \A o \in Polls : poll'[o] = IF o = q THEN NoTicket ELSE poll[o]
  BY <1>1, <1>4, LeaveKeeps
<1>6. HandoffLinks'
  BY <1>3, <1>5 DEF HandoffInv, HandoffLinks
<1>7. NoneResolved
  BY <1>1, <1>3 DEF NoneResolved
<1>8. given' \in Seq(Seq(People)) /\ Len(given') = Len(given)
  <2>1. handoff[h].who \in People
    BY <1>1 DEF ResolvedKnown
  <2>2. given[h] \in Seq(People) /\ h \in DOMAIN given
    BY <1>1, ElementOf
  <2>3. Append(given[h], handoff[h].who) \in Seq(People)
    BY <2>1, <2>2, AppendIs
  <2> QED BY <1>1, <1>2, <2>2, <2>3, UpdateIs
<1>9. HandoffTypes'
  BY <1>1, <1>3, <1>5, <1>8 DEF HandoffInv, HandoffTypes
<1> QED BY <1>1, <1>3, <1>5, <1>6, <1>7, <1>9 DEF HandoffInv, HandoffsStay, h

LEMMA TimeOutStep ==
  ASSUME HandoffInv, NEW q \in Polls, WaitTimesOut(q)
  PROVE  HandoffInv' /\ handoff' = handoff
<1>1. Parked(q) /\ Leave(q) /\ UNCHANGED <<login, handoff, cookie, given>>
  BY DEF WaitTimesOut, hfidVars
<1>2. LiveSet' \subseteq LiveSet
  BY <1>1 DEF LiveSet, Live
<1>3. /\ SlotInv' /\ poll' \in [Polls -> Nat \cup {NoTicket}]
      /\ \A o \in Polls : poll'[o] = IF o = q THEN NoTicket ELSE poll[o]
  BY <1>1, <1>2, LeaveKeeps
<1> QED BY <1>1, <1>3 DEF HandoffInv, HandoffTypes, HandoffLinks

LEMMA StartWaitStep ==
  ASSUME HandoffInv, NEW b \in Browsers, StartWait(b)
  PROVE  HandoffInv' /\ handoff' = handoff
<1> DEFINE h == cookie[b]  q == FirstFree
<1>1. /\ q \in Polls /\ ~Parked(q)
      /\ h # NoTicket /\ h \in DOMAIN handoff /\ h \in Nat
      /\ waiters' = waiters + 1 /\ poll' = [poll EXCEPT ![q] = h]
      /\ UNCHANGED <<login, handoff, cookie, given>>
  <2>1. \E o \in Polls : ~Parked(o)
    BY DEF StartWait
  <2>2. q \in Polls /\ ~Parked(q)
    BY <2>1 DEF FirstFree
  <2>3. h # NoTicket /\ h \in DOMAIN handoff
    BY DEF StartWait, HandoffInv, HandoffLinks
  <2>4. h \in Nat
    BY <2>3, ElementOf DEF HandoffInv, HandoffTypes
  <2> QED BY <2>2, <2>3, <2>4 DEF StartWait, hfidVars
<1> HIDE DEF h, q
<1>2. /\ poll' \in [Polls -> Nat \cup {NoTicket}]
      /\ \A o \in Polls : poll'[o] = IF o = q THEN h ELSE poll[o]
  BY <1>1 DEF HandoffInv, HandoffTypes
<1>3. ParkedSet' = ParkedSet \cup {q} /\ q \notin ParkedSet /\ IsFiniteSet(ParkedSet)
  BY <1>1, <1>2, SetsFinite DEF ParkedSet, Parked, HandoffInv
<1>4. Cardinality(ParkedSet') = Cardinality(ParkedSet) + 1
  BY <1>3, FS_AddElement
<1>5. LiveSet' \subseteq LiveSet
  BY <1>1 DEF LiveSet, Live
<1>6. SlotInv'
  BY <1>1, <1>4, <1>5, FewerLive DEF HandoffInv, SlotInv, LiveSet, ParkedSet
<1>7. HandoffTypes'
  BY <1>1, <1>2 DEF HandoffInv, HandoffTypes
<1>8. HandoffLinks'
  BY <1>1, <1>2 DEF HandoffInv, HandoffLinks
<1> QED BY <1>1, <1>6, <1>7, <1>8 DEF HandoffInv

\* Steps elsewhere leave the hand-offs good.
LEMMA HandoffFrame ==
  ASSUME HandoffInv, UNCHANGED handoffVars, DOMAIN login \subseteq DOMAIN login'
  PROVE  HandoffInv' /\ HandoffsStay /\ NoneResolved /\ handoff' = handoff
<1>1. UNCHANGED <<handoff, cookie, poll, waiters, given>>
  BY DEF handoffVars
<1>2. LiveSet' \subseteq LiveSet
  BY <1>1 DEF LiveSet, Live
<1>3. SlotInv'
  BY <1>1, <1>2, SlotsKeep
<1> QED
  BY <1>1, <1>3 DEF HandoffInv, HandoffTypes, HandoffLinks, HandoffsStay, NoneResolved

-----------------------------------------------------------------------------
(* Who came back from LINE. *)

\* The callbacks that are over stay as they are.
StateStays ==
  /\ DOMAIN state \subseteq DOMAIN state'
  /\ \A s \in DOMAIN state : state[s].status = "over" => state'[s] = state[s]

LEMMA BackStays ==
  ASSUME StateInv, StateStays, HandoffsStay
  PROVE  /\ \A h, p : CameWith(h, p) => CameWith(h, p)'
         /\ \A l : CameBackFor(l) \subseteq CameBackFor(l)'
<1>1. \A h, p : CameWith(h, p) => CameWith(h, p)'
  BY DEF CameWith, StateStays
<1>2. ASSUME NEW l, NEW p \in CameBackFor(l) PROVE p \in CameBackFor(l)'
  <2>1. PICK s \in DOMAIN state :
          /\ state[s].status = "over" /\ state[s].who = p
          /\ \/ state[s].kind = "oidc" /\ state[s].on = l
             \/ state[s].kind = "handoff" /\ handoff[state[s].on].login = l
    BY <1>2 DEF CameBackFor
  <2>2. s \in DOMAIN state' /\ state'[s] = state[s]
    BY <2>1 DEF StateStays
  <2>3. state[s].kind = "handoff" => handoff'[state[s].on].login = handoff[state[s].on].login
    BY <2>1 DEF StateInv, HandoffsStay
  <2> QED BY <2>1, <2>2, <2>3 DEF CameBackFor
<1> QED BY <1>1, <1>2

LEMMA CameWithIsBack ==
  ASSUME NEW h, NEW p, CameWith(h, p)
  PROVE  p \in CameBackFor(handoff[h].login)
  BY DEF CameWith, CameBackFor

\* A hand-off that is resolved now was so before, or has come back with a callback.
AnswersAreReturns ==
  \A h \in DOMAIN handoff' : handoff'[h].status \in {"resolved", "taken"} =>
    \/ /\ h \in DOMAIN handoff /\ handoff[h].status \in {"resolved", "taken"}
       /\ handoff'[h].who = handoff[h].who
    \/ (handoff[h].who \in People /\ CameWith(h, handoff[h].who))'

NewCodesAreReturns ==
  \A c \in DOMAIN code' : c \notin DOMAIN code => (code[c].who \in CameBackFor(code[c].login))'

LEMMA ReturnKeeps ==
  ASSUME StateInv, StateStays, HandoffsStay, ReturnInv, CodesStay, AnswersAreReturns, NewCodesAreReturns
  PROVE  ReturnInv'
<1>0. /\ \A h, p : CameWith(h, p) => CameWith(h, p)'
      /\ \A l : CameBackFor(l) \subseteq CameBackFor(l)'
  BY BackStays
<1>1. ASSUME NEW h \in DOMAIN handoff', handoff'[h].status \in {"resolved", "taken"}
      PROVE  (handoff[h].who \in People /\ CameWith(h, handoff[h].who))'
  <2>1. CASE /\ h \in DOMAIN handoff /\ handoff[h].status \in {"resolved", "taken"}
             /\ handoff'[h].who = handoff[h].who
    <3>1. PICK p \in People : p = handoff[h].who /\ CameWith(h, p)
      BY <2>1 DEF ReturnInv
    <3>2. CameWith(h, p)' /\ p = handoff'[h].who
      BY <1>0, <2>1, <3>1
    <3> QED BY <3>2 DEF CameWith
  <2> QED BY <1>1, <2>1 DEF AnswersAreReturns
<1>2. ASSUME NEW c \in DOMAIN code' PROVE (code[c].who \in CameBackFor(code[c].login))'
  <2>1. CASE c \in DOMAIN code
    <3>1. code'[c].login = code[c].login /\ code'[c].who = code[c].who
      BY <2>1 DEF CodesStay
    <3>2. PICK l : l = code[c].login /\ code[c].who \in CameBackFor(l)
      BY <2>1 DEF ReturnInv
    <3>3. code'[c].who \in CameBackFor(l)' /\ l = code'[c].login
      BY <1>0, <3>1, <3>2
    <3> QED BY <3>3 DEF CameBackFor
  <2> QED BY <1>2, <2>1 DEF NewCodesAreReturns
<1> QED BY <1>1, <1>2 DEF ReturnInv

\* New and old domains, as the callbacks see them.
DomainsGrow ==
  /\ DOMAIN login \subseteq DOMAIN login' /\ DOMAIN handoff \subseteq DOMAIN handoff'
  /\ DOMAIN elevate \subseteq DOMAIN elevate'

LEMMA StateFrame ==
  ASSUME StateInv, state' = state, DomainsGrow
  PROVE  StateInv' /\ StateStays
  BY DEF StateInv, DomainsGrow, StateStays

LEMMA BeginsStep ==
  ASSUME StateInv, DomainsGrow, NEW kind \in {"oidc", "handoff", "elevate"}, NEW on \in Nat,
         Begins(kind, on),
         kind = "oidc" => on \in DOMAIN login', kind = "handoff" => on \in DOMAIN handoff',
         kind = "elevate" => on \in DOMAIN elevate'
  PROVE  StateInv' /\ StateStays
<1> DEFINE n == Len(state) + 1
           rec == [status |-> "issued", kind |-> kind, on |-> on, who |-> NoOne]
<1>1. state \in Seq(StateRecords) /\ state' = Append(state, rec)
  BY DEF StateInv, Begins
<1>2. rec \in StateRecords /\ rec.status = "issued" /\ rec.kind = kind /\ rec.on = on
  BY DEF StateRecords
<1> HIDE DEF rec
<1>3. /\ state' \in Seq(StateRecords) /\ DOMAIN state' = DOMAIN state \cup {n}
      /\ n \notin DOMAIN state /\ state'[n] = rec /\ \A s \in DOMAIN state : state'[s] = state[s]
  BY <1>1, <1>2, AppendIs
<1> HIDE DEF n
<1> QED BY <1>2, <1>3 DEF StateInv, DomainsGrow, StateStays

\* A callback goes on to another status: issued or exchanging before.
LEMMA StateMovesStep ==
  ASSUME StateInv, DomainsGrow, NEW s \in DOMAIN state, state[s].status # "over",
         NEW v \in {"lapsed", "over"}, state' = Moved(state, s, v),
         v = "over" => state[s].who \in People
  PROVE  /\ StateInv' /\ StateStays /\ s \in DOMAIN state'
         /\ state'[s].status = v /\ state'[s].kind = state[s].kind
         /\ state'[s].on = state[s].on /\ state'[s].who = state[s].who
<1>1. state \in Seq(StateRecords) /\ v \in {"issued", "exchanging", "lapsed", "over"}
  BY DEF StateInv
<1>2. PICK e \in StateRecords :
        /\ Changed(StateRecords, state, s, e, state') /\ e.status = v
        /\ e.kind = state[s].kind /\ e.on = state[s].on /\ e.who = state[s].who
  BY <1>1, StateMoves
<1> QED BY <1>2 DEF Changed, StateInv, DomainsGrow, StateStays

LEMMA CallbackStep ==
  ASSUME StateInv, DomainsGrow, NEW s \in DOMAIN state, state[s].status = "issued",
         NEW p \in People, state' = Answered(state, s, "exchanging", p)
  PROVE  StateInv' /\ StateStays
<1>1. state \in Seq(StateRecords) /\ p \in People \cup {NoOne}
  BY DEF StateInv
<1>2. PICK e \in StateRecords :
        /\ Changed(StateRecords, state, s, e, state') /\ e.status = "exchanging"
        /\ e.kind = state[s].kind /\ e.on = state[s].on /\ e.who = p
  BY <1>1, StateAnswered
<1> QED BY <1>2 DEF Changed, StateInv, DomainsGrow, StateStays

-----------------------------------------------------------------------------
(* The stations. *)

ClaimRecords == [reader : Readers, kind : Apps \cup {"self"}, live : BOOLEAN]

\* The kiosk's tickets keep their place, and have an owner when authorized.
ElevatesGood ==
  /\ elevate' \in Seq(ElevateRecords) /\ asserted' \in Seq(Seq(People \cup {NoBody}))
  /\ Len(asserted') = Len(elevate') /\ DOMAIN elevate \subseteq DOMAIN elevate'
  /\ \A e \in DOMAIN elevate' : elevate'[e].status = "authorized" => elevate'[e].who \in People

LEMMA ElevatesStay ==
  ASSUME StationInv, UNCHANGED <<elevate, asserted>>
  PROVE  ElevatesGood
  BY DEF StationInv, StationTypes, StationLinks, ElevatesGood

\* A poll that comes or goes.
LEMMA WatchSet ==
  ASSUME StationInv, ElevatesGood, NEW q \in StationPolls, NEW w \in WatchRecords \cup {NotWaiting},
         w # NotWaiting => IF w.kind = "elevate" THEN w.on \in DOMAIN elevate' ELSE w.on \in Readers,
         watch' = [watch EXCEPT ![q] = w]
  PROVE  watch' \in [StationPolls -> WatchRecords \cup {NotWaiting}] /\ StationLinks'
<1>1. /\ watch' \in [StationPolls -> WatchRecords \cup {NotWaiting}]
      /\ \A o \in StationPolls : watch'[o] = IF o = q THEN w ELSE watch[o]
  BY DEF StationInv, StationTypes
<1> QED BY <1>1 DEF StationInv, StationLinks, ElevatesGood

LEMMA WatchStays ==
  ASSUME StationInv, ElevatesGood, watch' = watch
  PROVE  watch' \in [StationPolls -> WatchRecords \cup {NotWaiting}] /\ StationLinks'
  BY DEF StationInv, StationTypes, StationLinks, ElevatesGood

LEMMA TapsStay ==
  ASSUME StationInv, UNCHANGED <<tap, taps, signedIn>>
  PROVE  TapInv' /\ tap' \in [Readers -> TapRecords \cup {NoTap}] /\ taps' \in Nat
         /\ signedIn' \in Seq(SignInRecords)
  BY DEF StationInv, StationTypes, TapInv

\* Only the polls and the kiosk's tickets change.
LEMMA OnlyWatch ==
  ASSUME StationInv, UNCHANGED <<tap, taps, claim, signedIn>>, ElevatesGood,
         watch' \in [StationPolls -> WatchRecords \cup {NotWaiting}], StationLinks'
  PROVE  StationInv'
  BY TapsStay DEF StationInv, StationTypes, ElevatesGood

LEMMA ElevateUpdate ==
  ASSUME StationInv, NEW e \in DOMAIN elevate, NEW rec \in ElevateRecords,
         Changed(ElevateRecords, elevate, e, rec, elevate'),
         rec.status = "authorized" => rec.who \in People,
         asserted' \in Seq(Seq(People \cup {NoBody})), Len(asserted') = Len(asserted)
  PROVE  ElevatesGood
  BY DEF StationInv, StationTypes, StationLinks, ElevatesGood, Changed

LEMMA ContinueElevateStep ==
  ASSUME StationInv, NEW e \in DOMAIN elevate, NEW p \in People, ContinueElevate(e, p)
  PROVE  StationInv' /\ DOMAIN elevate \subseteq DOMAIN elevate'
<1>1. elevate \in Seq(ElevateRecords) /\ UNCHANGED <<tap, taps, claim, watch, signedIn, asserted>>
  BY DEF StationInv, StationTypes, ContinueElevate
<1>2. ElevatesGood
  <2>1. CASE elevate' = elevate
    BY <1>1, <2>1, ElevatesStay
  <2>2. CASE elevate' = Answered(elevate, e, "authorized", p)
    <3>1. PICK rec \in ElevateRecords :
            Changed(ElevateRecords, elevate, e, rec, elevate') /\ rec.who = p
      BY <1>1, <2>2, ElevateAnswered
    <3> QED BY <1>1, <3>1, ElevateUpdate DEF StationInv, StationTypes
  <2>3. CASE elevate' = Moved(elevate, e, "denied")
    <3>1. PICK rec \in ElevateRecords :
            Changed(ElevateRecords, elevate, e, rec, elevate') /\ rec.status = "denied"
      BY <1>1, <2>3, ElevateMoves
    <3> QED BY <1>1, <3>1, ElevateUpdate DEF StationInv, StationTypes
  <2> QED BY <2>1, <2>2, <2>3 DEF ContinueElevate, Answered, Moved
<1> QED BY <1>1, <1>2, WatchStays, OnlyWatch DEF ElevatesGood

LEMMA ScanStep ==
  ASSUME StationInv, StaffTypes, NEW r \in Readers, NEW p \in People, ScanCard(r, p)
  PROVE  StationInv' /\ DOMAIN elevate \subseteq DOMAIN elevate'
<1> DEFINE rec == [id |-> taps + 1, who |-> p, apps |-> staff[p].apps]
<1>1. /\ taps \in Nat /\ taps' = taps + 1 /\ tap \in [Readers -> TapRecords \cup {NoTap}]
      /\ tap' = [tap EXCEPT ![r] = rec] /\ UNCHANGED <<claim, elevate, watch, signedIn, asserted>>
  BY DEF ScanCard, StationInv, StationTypes
<1>2. rec \in TapRecords /\ rec.id = taps + 1
  BY <1>1 DEF TapRecords, StaffTypes, Entries
<1> HIDE DEF rec
<1>3. /\ tap' \in [Readers -> TapRecords \cup {NoTap}]
      /\ \A o \in Readers : tap'[o] = IF o = r THEN rec ELSE tap[o]
  BY <1>1, <1>2
<1>4. /\ \A o \in Readers : tap[o] # NoTap => tap[o].id \in Nat /\ tap[o].id <= taps
      /\ \A i \in DOMAIN signedIn : signedIn[i].tap \in Nat /\ signedIn[i].tap <= taps
  <2>1. \A o \in Readers : tap[o] # NoTap => tap[o].id \in Nat
    BY <1>1 DEF TapRecords
  <2>2. \A i \in DOMAIN signedIn : signedIn[i] \in SignInRecords
    BY ElementOf DEF StationInv, StationTypes
  <2>3. \A i \in DOMAIN signedIn : signedIn[i].tap \in Nat
    BY <2>2 DEF SignInRecords
  <2> QED BY <2>1, <2>3 DEF StationInv, TapInv
<1>5. TapInv'
  BY <1>1, <1>2, <1>3, <1>4 DEF StationInv, TapInv
<1>6. ElevatesGood
  BY <1>1, ElevatesStay
<1>7. StationLinks'
  BY <1>1, <1>6, WatchStays
<1> QED BY <1>1, <1>3, <1>5, <1>6, <1>7 DEF StationInv, StationTypes, ElevatesGood

LEMMA TapLapseStep ==
  ASSUME StationInv, NEW r \in Readers, TapLapses(r)
  PROVE  StationInv' /\ DOMAIN elevate \subseteq DOMAIN elevate'
<1>1. tap' = [tap EXCEPT ![r] = NoTap] /\ UNCHANGED <<taps, claim, elevate, watch, signedIn, asserted>>
  BY DEF TapLapses
<1>2. /\ tap' \in [Readers -> TapRecords \cup {NoTap}]
      /\ \A o \in Readers : tap'[o] = IF o = r THEN NoTap ELSE tap[o]
  BY <1>1 DEF StationInv, StationTypes
<1>3. TapInv'
  BY <1>1, <1>2 DEF StationInv, TapInv
<1> QED BY <1>1, <1>2, <1>3 DEF StationInv, StationTypes, StationLinks

LEMMA FetchTapStep ==
  ASSUME StationInv, NEW q \in StationPolls, FetchTap(q)
  PROVE  StationInv' /\ DOMAIN elevate \subseteq DOMAIN elevate'
<1> DEFINE r == watch[q].on  rec == [tap |-> tap[r].id, who |-> tap[r].who]
<1>1. /\ r \in Readers /\ tap[r] # NoTap /\ tap[r] \in TapRecords
      /\ tap' = [tap EXCEPT ![r] = NoTap] /\ watch' = [watch EXCEPT ![q] = NotWaiting]
      /\ UNCHANGED <<taps, claim, elevate, asserted>>
      /\ signedIn' = signedIn \/ signedIn' = Append(signedIn, rec)
  BY DEF FetchTap, StationInv, StationTypes, StationLinks
<1>2. signedIn \in Seq(SignInRecords) /\ rec \in SignInRecords /\ rec.tap = tap[r].id
  BY <1>1 DEF StationInv, StationTypes, TapRecords, SignInRecords
<1> HIDE DEF rec, r
<1>3. /\ tap' \in [Readers -> TapRecords \cup {NoTap}]
      /\ \A o \in Readers : tap'[o] = IF o = r THEN NoTap ELSE tap[o]
  BY <1>1 DEF StationInv, StationTypes
<1>4. signedIn' \in Seq(SignInRecords) /\ TapInv'
  <2>1. CASE signedIn' = signedIn
    BY <1>1, <1>2, <1>3, <2>1 DEF StationInv, TapInv
  <2>2. CASE signedIn' = Append(signedIn, rec)
    <3> DEFINE n == Len(signedIn) + 1
    <3>1. /\ signedIn' \in Seq(SignInRecords) /\ DOMAIN signedIn' = DOMAIN signedIn \cup {n}
          /\ n \notin DOMAIN signedIn /\ signedIn'[n] = rec
          /\ \A i \in DOMAIN signedIn : signedIn'[i] = signedIn[i]
      BY <1>2, <2>2, AppendIs
    <3> HIDE DEF n
    <3> QED BY <1>1, <1>2, <1>3, <3>1 DEF StationInv, TapInv
  <2> QED BY <1>1, <2>1, <2>2
<1>5. ElevatesGood
  BY <1>1, ElevatesStay
<1>6. watch' \in [StationPolls -> WatchRecords \cup {NotWaiting}] /\ StationLinks'
  BY <1>1, <1>5, WatchSet
<1> QED BY <1>1, <1>3, <1>4, <1>5, <1>6 DEF StationInv, StationTypes, ElevatesGood

LEMMA FetchElevateStep ==
  ASSUME StationInv, NEW q \in StationPolls, FetchElevate(q)
  PROVE  StationInv' /\ DOMAIN elevate \subseteq DOMAIN elevate'
<1> DEFINE e == watch[q].on  a == IF elevate[e].status = "authorized" THEN elevate[e].who ELSE NoBody
<1>1. /\ e \in DOMAIN elevate /\ elevate' = Moved(elevate, e, "taken")
      /\ asserted' = [asserted EXCEPT ![e] = Append(asserted[e], a)]
      /\ watch' = [watch EXCEPT ![q] = NotWaiting] /\ UNCHANGED <<tap, taps, claim, signedIn>>
      /\ a \in People \cup {NoBody}
  BY DEF FetchElevate, StationInv, StationLinks, Moved
<1>2. elevate \in Seq(ElevateRecords) /\ asserted \in Seq(Seq(People \cup {NoBody}))
      /\ Len(asserted) = Len(elevate)
  BY DEF StationInv, StationTypes
<1> HIDE DEF e, a
<1>3. asserted' \in Seq(Seq(People \cup {NoBody})) /\ Len(asserted') = Len(asserted)
  <2>1. asserted[e] \in Seq(People \cup {NoBody}) /\ e \in DOMAIN asserted
    BY <1>1, <1>2, ElementOf
  <2>2. Append(asserted[e], a) \in Seq(People \cup {NoBody})
    BY <1>1, <2>1, AppendIs
  <2> QED BY <1>1, <1>2, <2>1, <2>2, UpdateIs
<1>4. PICK rec \in ElevateRecords :
        Changed(ElevateRecords, elevate, e, rec, elevate') /\ rec.status = "taken"
  BY <1>1, <1>2, ElevateMoves
<1>5. ElevatesGood
  BY <1>1, <1>3, <1>4, ElevateUpdate
<1> QED BY <1>1, <1>5, WatchSet, OnlyWatch DEF ElevatesGood

LEMMA StationStep ==
  ASSUME StationInv, StaffTypes, StationNext
  PROVE  StationInv' /\ DOMAIN elevate \subseteq DOMAIN elevate'
<1>1. CASE \E r \in Readers : TapLapses(r) \/ \E p \in People : ScanCard(r, p)
  BY <1>1, TapLapseStep, ScanStep
<1>2. CASE \E q \in StationPolls : FetchTap(q) \/ FetchElevate(q)
  BY <1>2, FetchTapStep, FetchElevateStep
<1>3. ASSUME UNCHANGED <<tap, taps, elevate, watch, signedIn, asserted>>, claim' \in Seq(ClaimRecords)
      PROVE  StationInv' /\ DOMAIN elevate \subseteq DOMAIN elevate'
  BY <1>3 DEF StationInv, StationTypes, StationLinks, TapInv, ClaimRecords
<1>4. claim \in Seq(ClaimRecords) /\ elevate \in Seq(ElevateRecords)
  BY DEF StationInv, StationTypes, ClaimRecords
<1>5. ASSUME NEW r \in Readers, NEW kind \in Apps \cup {"self"}, MakeClaim(r, kind)
      PROVE  StationInv' /\ DOMAIN elevate \subseteq DOMAIN elevate'
  <2>1. [reader |-> r, kind |-> kind, live |-> TRUE] \in ClaimRecords
    BY DEF ClaimRecords
  <2>2. claim' \in Seq(ClaimRecords)
    BY <1>4, <1>5, <2>1, AppendIs DEF MakeClaim
  <2> QED BY <1>3, <1>5, <2>2 DEF MakeClaim
<1>6. ASSUME NEW k \in DOMAIN claim, ClaimLapses(k)
      PROVE  StationInv' /\ DOMAIN elevate \subseteq DOMAIN elevate'
  <2> DEFINE no == FALSE
  <2>1. no \in BOOLEAN /\ claim' = [claim EXCEPT ![k].live = no]
    BY <1>6 DEF ClaimLapses
  <2> HIDE DEF no
  <2>2. PICK c : c = [claim[k] EXCEPT !.live = no]
    OBVIOUS
  <2>3. claim[k] \in ClaimRecords
    BY <1>4
  <2>4. c \in ClaimRecords
    BY <2>1, <2>2, <2>3 DEF ClaimRecords
  <2>5. claim' = [claim EXCEPT ![k] = c]
    BY <2>1, <2>2
  <2>6. claim' \in Seq(ClaimRecords)
    BY <1>4, <2>4, <2>5, UpdateIs
  <2> QED BY <1>3, <1>6, <2>6 DEF ClaimLapses
<1>7. ASSUME NEW k \in DOMAIN claim, NEW q \in StationPolls, WatchReader(q, k)
      PROVE  StationInv' /\ DOMAIN elevate \subseteq DOMAIN elevate'
  <2> DEFINE w == [kind |-> claim[k].kind, on |-> claim[k].reader]
  <2>1. claim[k] \in ClaimRecords
    BY <1>4
  <2>2. w \in WatchRecords /\ w.kind # "elevate" /\ w.on \in Readers
    BY <2>1, StationAssumption DEF ClaimRecords, WatchRecords
  <2>3. watch' = [watch EXCEPT ![q] = w] /\ UNCHANGED <<tap, taps, claim, elevate, signedIn, asserted>>
    BY <1>7 DEF WatchReader
  <2> HIDE DEF w
  <2>4. ElevatesGood
    BY <2>3, ElevatesStay
  <2> QED BY <2>2, <2>3, <2>4, WatchSet, OnlyWatch DEF ElevatesGood
<1>8. ASSUME NEW app \in Apps, StartElevate(app)
      PROVE  StationInv' /\ DOMAIN elevate \subseteq DOMAIN elevate'
  <2> DEFINE rec == [status |-> "pending", app |-> app, who |-> NoBody]
  <2>1. /\ elevate' = Append(elevate, rec) /\ asserted' = Append(asserted, <<>>)
        /\ UNCHANGED <<tap, taps, claim, watch, signedIn>>
    BY <1>8 DEF StartElevate
  <2>2. rec \in ElevateRecords /\ rec.status = "pending"
    BY DEF ElevateRecords
  <2> HIDE DEF rec
  <2>3. <<>> \in Seq(People \cup {NoBody})
    OBVIOUS
  <2>4. asserted' \in Seq(Seq(People \cup {NoBody})) /\ Len(asserted') = Len(asserted) + 1
    BY <2>1, <2>3, AppendIs DEF StationInv, StationTypes
  <2>5. ElevatesGood
    BY <1>4, <2>1, <2>2, <2>4, AppendIs DEF StationInv, StationTypes, StationLinks, ElevatesGood
  <2> QED BY <2>1, <2>5, WatchStays, OnlyWatch DEF ElevatesGood
<1>9. ASSUME NEW e \in DOMAIN elevate, ElevateLapses(e)
      PROVE  StationInv' /\ DOMAIN elevate \subseteq DOMAIN elevate'
  <2>1. elevate' = Moved(elevate, e, "lapsed") /\ UNCHANGED <<tap, taps, claim, watch, signedIn, asserted>>
    BY <1>9 DEF ElevateLapses, Moved
  <2>2. PICK rec \in ElevateRecords :
          Changed(ElevateRecords, elevate, e, rec, elevate') /\ rec.status = "lapsed"
    BY <1>4, <2>1, ElevateMoves
  <2>3. ElevatesGood
    BY <2>1, <2>2, ElevateUpdate DEF StationInv, StationTypes
  <2> QED BY <2>1, <2>3, WatchStays, OnlyWatch DEF ElevatesGood
<1>10. ASSUME NEW e \in DOMAIN elevate, NEW q \in StationPolls, WatchElevate(q, e)
      PROVE  StationInv' /\ DOMAIN elevate \subseteq DOMAIN elevate'
  <2> DEFINE w == [kind |-> "elevate", on |-> e]
  <2>1. e \in Nat
    BY <1>4, ElementOf
  <2>2. w \in WatchRecords /\ w.kind = "elevate" /\ w.on = e
    BY <2>1 DEF WatchRecords
  <2>3. watch' = [watch EXCEPT ![q] = w] /\ UNCHANGED <<tap, taps, claim, elevate, signedIn, asserted>>
    BY <1>10 DEF WatchElevate
  <2> HIDE DEF w
  <2>4. ElevatesGood
    BY <2>3, ElevatesStay
  <2> QED BY <2>2, <2>3, <2>4, WatchSet, OnlyWatch DEF ElevatesGood
<1>11. ASSUME NEW q \in StationPolls, WatchTimesOut(q)
      PROVE  StationInv' /\ DOMAIN elevate \subseteq DOMAIN elevate'
  <2>1. watch' = [watch EXCEPT ![q] = NotWaiting] /\ UNCHANGED <<tap, taps, claim, elevate, signedIn, asserted>>
    BY <1>11 DEF WatchTimesOut
  <2>2. ElevatesGood
    BY <2>1, ElevatesStay
  <2> QED BY <2>1, <2>2, WatchSet, OnlyWatch DEF ElevatesGood
<1> QED
  BY <1>1, <1>2, <1>5, <1>6, <1>7, <1>8, <1>9, <1>10, <1>11 DEF StationNext

-----------------------------------------------------------------------------
(* The steps of the whole. *)

\* What a step has to show.
Kept ==
  /\ HfIdInv' /\ CodesStay /\ HandoffInv' /\ HandoffsStay /\ StateInv' /\ StateStays
  /\ StationInv' /\ StaffTypes'

LEMMA KeptIsEnough ==
  ASSUME SignInInv, Kept, AnswersAreReturns, NewCodesAreReturns
  PROVE  SignInInv'
<1>1. ReturnInv'
  BY ReturnKeeps DEF SignInInv, Kept
<1> QED BY <1>1 DEF SignInInv, Kept, HfIdInv, HandoffInv

LEMMA PartsOf ==
  ASSUME SignInInv
  PROVE  HfIdInv /\ HandoffInv /\ StateInv /\ StationInv /\ StaffTypes /\ ReturnInv /\ ResolvedKnown
  BY DEF SignInInv, HfIdInv, HandoffInv, ReturnInv, ResolvedKnown

LEMMA StationFrame ==
  ASSUME StationInv, UNCHANGED stationVars
  PROVE  StationInv' /\ elevate' = elevate
  BY DEF StationInv, StationTypes, StationLinks, TapInv, stationVars

LEMMA HfIdFrame ==
  ASSUME HfIdInv, UNCHANGED hfidVars
  PROVE  HfIdInv' /\ CodesStay /\ code' = code /\ login' = login
  BY DEF HfIdInv, HfIdTypes, CodeInv, TokenInv, CodesStay, hfidVars

\* The steps outside the callbacks, of which none answers a hand-off.
LEMMA QuietStep ==
  ASSUME SignInInv, Kept, NoneResolved, DOMAIN code' = DOMAIN code
  PROVE  SignInInv'
BY KeptIsEnough DEF NoneResolved, AnswersAreReturns, NewCodesAreReturns

LEMMA BeginStep ==
  ASSUME SignInInv, LineNext,
         \/ \E l \in DOMAIN login : LoginDirectly(l)
         \/ \E e \in DOMAIN elevate : LoginForKiosk(e)
         \/ \E s \in DOMAIN state : (\E p \in People : Callback(s, p)) \/ StateLapses(s) \/ ExchangeFails(s)
  PROVE  SignInInv'
<1>1. UNCHANGED <<directoryVars, stationVars, hfidVars, handoffVars>>
  BY DEF LoginDirectly, LoginForKiosk, Callback, StateLapses, ExchangeFails, Others
<1>2. HfIdInv' /\ CodesStay /\ code' = code /\ login' = login
  BY <1>1, HfIdFrame, PartsOf
<1>3. HandoffInv' /\ HandoffsStay /\ NoneResolved /\ handoff' = handoff
  BY <1>1, <1>2, HandoffFrame, PartsOf
<1>4. StationInv' /\ elevate' = elevate /\ StaffTypes'
  BY <1>1, StationFrame, PartsOf DEF StaffTypes, directoryVars
<1>5. DomainsGrow
  BY <1>2, <1>3, <1>4 DEF DomainsGrow
<1>6. StateInv' /\ StateStays
  <2>1. ASSUME NEW l \in DOMAIN login, LoginDirectly(l) PROVE StateInv' /\ StateStays
    <3>1. l \in Nat
      BY ElementOf, PartsOf DEF HfIdInv, HfIdTypes
    <3> QED BY <1>2, <1>5, <2>1, <3>1, BeginsStep, PartsOf DEF LoginDirectly
  <2>2. ASSUME NEW e \in DOMAIN elevate, LoginForKiosk(e) PROVE StateInv' /\ StateStays
    <3>1. e \in Nat
      BY ElementOf, PartsOf DEF StationInv, StationTypes
    <3> QED BY <1>4, <1>5, <2>2, <3>1, BeginsStep, PartsOf DEF LoginForKiosk
  <2>3. ASSUME NEW s \in DOMAIN state, NEW p \in People, Callback(s, p) PROVE StateInv' /\ StateStays
    <3>1. state[s].status = "issued" /\ state' = Answered(state, s, "exchanging", p)
      BY <2>3 DEF Callback, Answered
    <3> QED BY <1>5, <3>1, CallbackStep, PartsOf
  <2>4. ASSUME NEW s \in DOMAIN state, StateLapses(s) \/ ExchangeFails(s) PROVE StateInv' /\ StateStays
    <3>1. state[s].status # "over" /\ state' = Moved(state, s, "lapsed")
      BY <2>4 DEF StateLapses, ExchangeFails, Moved
    <3> QED BY <1>5, <3>1, StateMovesStep, PartsOf
  <2> QED BY <2>1, <2>2, <2>3, <2>4
<1> QED BY <1>2, <1>3, <1>4, <1>6, QuietStep DEF Kept

LEMMA ByHandoffStep ==
  ASSUME SignInInv, NEW b \in Browsers, NEW l \in DOMAIN login, LoginByHandoff(b, l)
  PROVE  SignInInv'
<1>1. UNCHANGED <<directoryVars, stationVars, hfidVars>> /\ RoomForTicket /\ CreateTicket(b, l)
  BY DEF LoginByHandoff, Others, CreateTicket
<1>2. HfIdInv' /\ CodesStay /\ code' = code /\ login' = login
  BY <1>1, HfIdFrame, PartsOf
<1>3. HandoffInv' /\ HandoffsStay /\ NoneResolved /\ Len(handoff') \in DOMAIN handoff'
  BY <1>1, CreateStep, PartsOf DEF HfIdInv
<1>4. StationInv' /\ elevate' = elevate /\ StaffTypes'
  BY <1>1, StationFrame, PartsOf DEF StaffTypes, directoryVars
<1>5. DomainsGrow
  BY <1>2, <1>3, <1>4 DEF DomainsGrow, HandoffsStay
<1>6. PICK n \in Nat : n = Len(handoff')
  BY <1>3, ElementOf DEF HandoffInv, HandoffTypes
<1>7. Begins("handoff", n) /\ n \in DOMAIN handoff'
  BY <1>3, <1>6 DEF LoginByHandoff
<1>8. StateInv' /\ StateStays
  BY <1>5, <1>7, BeginsStep, PartsOf
<1> QED BY <1>2, <1>3, <1>4, <1>8, QuietStep DEF Kept

\* The callback passes on whom LINE named.
LEMMA ContinueStep ==
  ASSUME SignInInv, NEW s \in DOMAIN state, Continue(s)
  PROVE  SignInInv'
<1>0. PICK p, on : p = state[s].who /\ on = state[s].on
  OBVIOUS
<1>1. /\ state[s].status = "exchanging" /\ state' = Moved(state, s, "over")
      /\ p \in People /\ state \in Seq(StateRecords) /\ StaffTypes'
  BY <1>0, PartsOf DEF Continue, StateInv, Moved, StaffTypes, directoryVars
<1>2. ASSUME DomainsGrow
      PROVE  /\ StateInv' /\ StateStays /\ s \in DOMAIN state' /\ state'[s].status = "over"
             /\ state'[s].kind = state[s].kind /\ state'[s].on = on /\ state'[s].who = p
  BY <1>0, <1>1, <1>2, StateMovesStep, PartsOf
<1>3. CASE state[s].kind = "oidc"
  <2>1. ContinueOidc(on, p) /\ UNCHANGED <<handoffVars, stationVars>> /\ on \in DOMAIN login
    BY <1>0, <1>3, PartsOf DEF Continue, StateInv
  <2>2. /\ HfIdInv' /\ CodesStay /\ DOMAIN login' = DOMAIN login
        /\ \A c \in DOMAIN code' : c \notin DOMAIN code => code'[c].login = on /\ code'[c].who = p
    BY <1>1, <2>1, OidcStep, PartsOf
  <2>3. HandoffInv' /\ HandoffsStay /\ NoneResolved /\ handoff' = handoff
    BY <2>1, <2>2, HandoffFrame, PartsOf
  <2>4. StationInv' /\ elevate' = elevate
    BY <2>1, StationFrame, PartsOf
  <2>5. DomainsGrow
    BY <2>2, <2>3, <2>4 DEF DomainsGrow
  <2>6. NewCodesAreReturns
    <3>1. ASSUME NEW c \in DOMAIN code', c \notin DOMAIN code
          PROVE  (code[c].who \in CameBackFor(code[c].login))'
      <4>1. code'[c].login = on /\ code'[c].who = p
        BY <2>2, <3>1
      <4>2. s \in DOMAIN state' /\ state'[s].status = "over" /\ state'[s].kind = "oidc"
            /\ state'[s].on = code'[c].login /\ state'[s].who = code'[c].who
        BY <1>2, <1>3, <2>5, <4>1
      <4> QED BY <4>2 DEF CameBackFor
    <3> QED BY <3>1 DEF NewCodesAreReturns
  <2>7. AnswersAreReturns
    BY <2>3 DEF NoneResolved, AnswersAreReturns
  <2> QED BY <1>1, <1>2, <2>2, <2>3, <2>4, <2>5, <2>6, <2>7, KeptIsEnough DEF Kept
<1>4. CASE state[s].kind = "handoff"
  <2>1. PICK same \in BOOLEAN : ResolveTicket(on, p, same)
    BY <1>0, <1>4 DEF Continue
  <2>2. on \in DOMAIN handoff /\ UNCHANGED <<hfidVars, stationVars>>
    BY <1>0, <1>4, <2>1, PartsOf DEF Continue, StateInv, ResolveTicket
  <2>3. HfIdInv' /\ CodesStay /\ code' = code /\ login' = login
    BY <2>2, HfIdFrame, PartsOf
  <2>4. /\ HandoffInv' /\ HandoffsStay /\ DOMAIN handoff' = DOMAIN handoff
        /\ \A g \in DOMAIN handoff' : g # on => handoff'[g] = handoff[g]
        /\ handoff'[on] = handoff[on] \/ handoff'[on].who = p
    BY <1>1, <2>1, <2>2, ResolveStep, PartsOf
  <2>5. StationInv' /\ elevate' = elevate
    BY <2>2, StationFrame, PartsOf
  <2>6. DomainsGrow
    BY <2>3, <2>4, <2>5 DEF DomainsGrow
  <2>7. AnswersAreReturns
    <3>1. CameWith(on, p)'
      BY <1>2, <1>4, <2>6 DEF CameWith
    <3>2. ASSUME handoff'[on].who = p PROVE (handoff[on].who \in People /\ CameWith(on, handoff[on].who))'
      BY <1>1, <3>1, <3>2 DEF CameWith
    <3> QED BY <2>4, <3>2 DEF AnswersAreReturns
  <2>8. NewCodesAreReturns
    BY <2>3 DEF NewCodesAreReturns
  <2> QED BY <1>1, <1>2, <2>3, <2>4, <2>5, <2>6, <2>7, <2>8, KeptIsEnough DEF Kept
<1>5. CASE state[s].kind = "elevate"
  <2>1. ContinueElevate(on, p) /\ UNCHANGED <<hfidVars, handoffVars>> /\ on \in DOMAIN elevate
    BY <1>0, <1>5, PartsOf DEF Continue, StateInv
  <2>2. HfIdInv' /\ CodesStay /\ code' = code /\ login' = login
    BY <2>1, HfIdFrame, PartsOf
  <2>3. HandoffInv' /\ HandoffsStay /\ NoneResolved /\ handoff' = handoff
    BY <2>1, <2>2, HandoffFrame, PartsOf
  <2>4. StationInv' /\ DOMAIN elevate \subseteq DOMAIN elevate'
    BY <1>1, <2>1, ContinueElevateStep, PartsOf
  <2>5. DomainsGrow
    BY <2>2, <2>3, <2>4 DEF DomainsGrow
  <2> QED BY <1>1, <1>2, <2>2, <2>3, <2>4, <2>5, QuietStep DEF Kept
<1>6. state[s].kind \in {"oidc", "handoff", "elevate"}
  <2>1. state[s] \in StateRecords
    BY <1>1, ElementOf
  <2> QED BY <2>1 DEF StateRecords
<1> QED BY <1>3, <1>4, <1>5, <1>6

LEMMA PollStep ==
  ASSUME SignInInv, PollNext, Others, UNCHANGED state
  PROVE  SignInInv'
<1>1. StationInv' /\ elevate' = elevate /\ StaffTypes'
  BY StationFrame, PartsOf DEF Others, StaffTypes, directoryVars
<1>2. ASSUME HfIdInv', CodesStay, DOMAIN login' = DOMAIN login, HandoffInv', HandoffsStay, NoneResolved,
             DOMAIN handoff' = DOMAIN handoff
      PROVE  StateInv' /\ Kept
  <2>1. DomainsGrow
    BY <1>1, <1>2 DEF DomainsGrow
  <2> QED BY <1>1, <1>2, <2>1, StateFrame, PartsOf DEF Kept
<1>3. ASSUME NEW q \in Polls, Collect(q) PROVE SignInInv'
  <2> DEFINE h == poll[q]
  <2>1. /\ Take(q) /\ Leave(q) /\ UNCHANGED cookie
        /\ h \in DOMAIN handoff /\ handoff[h].status = "resolved"
        /\ ContinueOidc(handoff[h].login, handoff[h].who) \/ ContinueOidcFails(handoff[h].login)
    BY <1>3, PartsOf DEF Collect, Take, Parked, HandoffInv, HandoffLinks
  <2>2. PICK l \in DOMAIN login, p \in People : l = handoff[h].login /\ p = handoff[h].who
    BY <2>1, PartsOf DEF HandoffInv, HandoffLinks, ResolvedKnown
  <2>3. ContinueOidc(l, p) \/ ContinueOidcFails(l)
    BY <2>1, <2>2
  <2>4. /\ HfIdInv' /\ CodesStay /\ DOMAIN login' = DOMAIN login
        /\ \A c \in DOMAIN code' : c \notin DOMAIN code => code'[c].login = l /\ code'[c].who = p
    BY <2>3, OidcStep, OidcFailsStep, PartsOf
  <2>5. HandoffInv' /\ HandoffsStay /\ NoneResolved /\ DOMAIN handoff' = DOMAIN handoff
    BY <2>1, <2>4, TakeStep, PartsOf
  <2>6. Kept
    BY <1>2, <2>4, <2>5
  <2>7. p \in CameBackFor(l)
    BY <2>1, <2>2, PartsOf, CameWithIsBack DEF ReturnInv
  <2>8. NewCodesAreReturns
    <3>1. p \in CameBackFor(l)'
      BY <2>6, <2>7, BackStays, PartsOf DEF Kept
    <3>2. ASSUME NEW c \in DOMAIN code', c \notin DOMAIN code
          PROVE  (code[c].who \in CameBackFor(code[c].login))'
      <4>1. code'[c].login = l /\ code'[c].who = p
        BY <2>4, <3>2
      <4> QED BY <3>1, <4>1 DEF CameBackFor
    <3> QED BY <3>2 DEF NewCodesAreReturns
  <2> QED BY <2>5, <2>6, <2>8, KeptIsEnough DEF NoneResolved, AnswersAreReturns
<1>4. ASSUME NEW h \in DOMAIN handoff, HandoffLapses(h) PROVE SignInInv'
  <2>1. HfIdInv' /\ CodesStay /\ code' = code /\ login' = login
    BY <1>4, HfIdFrame, PartsOf DEF HandoffLapses
  <2>2. HandoffInv' /\ HandoffsStay /\ NoneResolved /\ DOMAIN handoff' = DOMAIN handoff
    BY <1>4, HandoffLapseStep, PartsOf
  <2> QED BY <1>2, <2>1, <2>2, QuietStep
<1>5. ASSUME \/ \E q \in Polls : WaitTimesOut(q)
             \/ \E b \in Browsers : StartWait(b)
      PROVE  SignInInv'
  <2>1. HfIdInv' /\ CodesStay /\ code' = code /\ login' = login
    BY <1>5, HfIdFrame, PartsOf DEF WaitTimesOut, StartWait
  <2>2. HandoffInv' /\ handoff' = handoff
    BY <1>5, TimeOutStep, StartWaitStep, PartsOf
  <2>3. HandoffsStay /\ NoneResolved
    BY <2>2 DEF HandoffsStay, NoneResolved
  <2> QED BY <1>2, <2>1, <2>2, <2>3, QuietStep
<1> QED BY <1>3, <1>4, <1>5 DEF PollNext

LEMMA OtherStep ==
  ASSUME SignInInv,
         \/ HfIdNext /\ Others /\ UNCHANGED <<handoffVars, state>>
         \/ StationNext /\ UNCHANGED <<directoryVars, hfidVars, handoffVars, state>>
         \/ (\E p \in People : AdminChanges(p)) /\ UNCHANGED <<hfidVars, handoffVars, stationVars, state>>
  PROVE  SignInInv'
<1>1. HfIdInv' /\ CodesStay /\ DOMAIN code' = DOMAIN code /\ DOMAIN login \subseteq DOMAIN login'
  BY HfIdStep, HfIdFrame, PartsOf
<1>2. HandoffInv' /\ HandoffsStay /\ NoneResolved /\ handoff' = handoff
  BY <1>1, HandoffFrame, PartsOf
<1>3. StationInv' /\ DOMAIN elevate \subseteq DOMAIN elevate'
  BY StationStep, StationFrame, PartsOf DEF Others
<1>4. StaffTypes'
  <2>1. CASE staff' = staff
    BY <2>1, PartsOf DEF StaffTypes
  <2>2. ASSUME NEW p \in People, AdminChanges(p) PROVE StaffTypes'
    <3>1. staff \in [People -> Entries] /\ staff[p] \in Entries
      BY PartsOf DEF StaffTypes
    <3>2. PICK e \in Entries : staff' = [staff EXCEPT ![p] = e]
      <4>1. ASSUME NEW standing \in Standings, staff' = [staff EXCEPT ![p].standing = standing]
            PROVE  \E e \in Entries : staff' = [staff EXCEPT ![p] = e]
        <5>1. PICK e : e = [staff[p] EXCEPT !.standing = standing]
          OBVIOUS
        <5>2. e \in Entries
          BY <3>1, <5>1 DEF Entries
        <5> QED BY <4>1, <5>1, <5>2
      <4>2. ASSUME NEW apps \in SUBSET Apps, staff' = [staff EXCEPT ![p].apps = apps]
            PROVE  \E e \in Entries : staff' = [staff EXCEPT ![p] = e]
        <5>1. PICK e : e = [staff[p] EXCEPT !.apps = apps]
          OBVIOUS
        <5>2. e \in Entries
          BY <3>1, <5>1 DEF Entries
        <5> QED BY <4>2, <5>1, <5>2
      <4> QED BY <2>2, <4>1, <4>2 DEF AdminChanges
    <3> QED BY <3>1, <3>2 DEF StaffTypes
  <2> QED BY <2>1, <2>2 DEF Others, directoryVars
<1>5. DomainsGrow /\ state' = state
  BY <1>1, <1>2, <1>3 DEF DomainsGrow
<1>6. StateInv' /\ StateStays
  BY <1>5, StateFrame, PartsOf
<1> QED BY <1>1, <1>2, <1>3, <1>4, <1>6, QuietStep DEF Kept

LEMMA InitHolds == Init => SignInInv
<1> SUFFICES ASSUME Init PROVE SignInInv
  OBVIOUS
<1> USE DEF Init, DirectoryInit, HfIdInit, HandoffInit, StationInit
<1>1. StaffTypes /\ HfIdTypes /\ HandoffTypes /\ HandoffLinks
  BY DirectoryAssumption DEF StaffTypes, HfIdTypes, HandoffTypes, HandoffLinks
<1>2. SlotInv
  <2>1. \A q \in Polls : ~Parked(q)
    BY DEF Parked
  <2>2. ParkedSet = {} /\ LiveSet = {}
    BY <2>1 DEF ParkedSet, LiveSet
  <2>3. Cardinality(ParkedSet) = 0 /\ Cardinality(LiveSet) = 0 /\ waiters = 0
    BY <2>2, FS_EmptySet
  <2> QED BY ONLY <2>3, HandoffAssumption DEF SlotInv, ParkedSet, LiveSet
<1>3. StateInv /\ CodeInv /\ TokenInv /\ ReturnInv
  BY DEF StateInv, CodeInv, TokenInv, ReturnInv
<1>4. StationInv
  BY DEF StationInv, StationTypes, StationLinks, TapInv
<1> QED BY <1>1, <1>2, <1>3, <1>4 DEF SignInInv

LEMMA StutterKeeps ==
  ASSUME SignInInv, UNCHANGED vars
  PROVE  SignInInv'
<1>1. UNCHANGED <<directoryVars, stationVars, hfidVars, handoffVars, state>>
  BY DEF vars
<1>2. HfIdInv' /\ CodesStay /\ code' = code /\ login' = login
  BY <1>1, HfIdFrame, PartsOf
<1>3. HandoffInv' /\ HandoffsStay /\ NoneResolved /\ handoff' = handoff
  BY <1>1, <1>2, HandoffFrame, PartsOf
<1>4. StationInv' /\ elevate' = elevate /\ StaffTypes'
  BY <1>1, StationFrame, PartsOf DEF StaffTypes, directoryVars
<1>5. StateInv' /\ StateStays
  BY <1>1, <1>2, <1>3, <1>4, StateFrame, PartsOf DEF DomainsGrow
<1> QED BY <1>2, <1>3, <1>4, <1>5, QuietStep DEF Kept

LEMMA SignInInvHolds == Spec => []SignInInv
<1>1. Init => SignInInv
  BY InitHolds
<1>2. SignInInv /\ [Next]_vars => SignInInv'
  <2> SUFFICES ASSUME SignInInv, [Next]_vars PROVE SignInInv'
    OBVIOUS
  <2>1. CASE LineNext
    BY <2>1, BeginStep, ByHandoffStep, ContinueStep DEF LineNext
  <2>2. CASE PollNext /\ Others /\ UNCHANGED state
    BY <2>2, PollStep
  <2>3. CASE UNCHANGED vars
    BY <2>3, StutterKeeps
  <2> QED BY <2>1, <2>2, <2>3, OtherStep DEF Next
<1> QED BY <1>1, <1>2, PTL DEF Spec

\* However many polls come, time out, fail or are lost, the slots in use are
\* those of the parked polls, and the store never holds more than its limit
\* (line_handoff_store.py, line_handoff_wait).
THEOREM SlotsStayCounted == Spec => []SlotsAreCounted
<1>1. SignInInv => SlotsAreCounted
  <2> SUFFICES ASSUME SignInInv PROVE SlotsAreCounted
    OBVIOUS
  <2>1. HfIdTypeOK
    BY DEF SignInInv, HfIdTypes, HfIdTypeOK, LoginStates, CodeRecords, TokenRecords
  <2>2. HandoffTypeOK
    <3>1. handoff \in Seq(HandoffRecords) /\ \A h \in DOMAIN handoff : handoff[h].login \in DOMAIN login
      BY DEF SignInInv, HandoffTypes, HandoffLinks
    <3> DEFINE R == [status : {"pending", "resolved", "taken", "lapsed"},
                     login : DOMAIN login, who : People \cup {NoOne}]
    <3>2. \A h \in DOMAIN handoff : handoff[h] \in R
      <4>1. ASSUME NEW h \in DOMAIN handoff PROVE handoff[h] \in R
        <5>1. handoff[h] \in HandoffRecords /\ handoff[h].login \in DOMAIN login
          BY <3>1, ElementOf
        <5> QED BY <5>1 DEF HandoffRecords
      <4> QED BY <4>1
    <3>3. handoff \in Seq(R)
      BY <3>1, <3>2, Retyped
    <3> QED BY <3>3 DEF SignInInv, HandoffTypes, HandoffLinks, HandoffTypeOK
  <2> QED BY <2>1, <2>2 DEF SignInInv, SlotInv, SlotsAreCounted
<1> QED BY <1>1, SignInInvHolds, PTL

\* One session for each sign-in, of a person who came back from LINE for it,
\* and one for each tap of a card (line_auth.py, oidc_service.py, reader.py).
THEOREM SessionsStaySingle == Spec => []OneSessionPerSignIn
<1>1. SignInInv => OneSessionPerSignIn
  BY DEF SignInInv, CodeInv, TokenInv, ReturnInv, StationInv, TapInv, OneSessionPerSignIn
<1> QED BY <1>1, SignInInvHolds, PTL

-----------------------------------------------------------------------------
(* Three stores of one-time tickets: a step changes one ticket at most. *)

\* What may happen to a ticket and to the counts of its answers.
TicketStep(A, o, n, d, e) ==
  \/ n = o /\ e = d
  \/ o = "unused" /\ n = "pending" /\ e = d
  \/ o \in {"unused", "pending"} /\ n \in A /\ e = d
  \/ o \in A /\ n = "gone" /\ e = [d EXCEPT ![o] = @ + 1]
  \/ o # "unused" /\ n = "gone" /\ e = d

LEMMA UpdateAt ==
  ASSUME NEW S, NEW F, NEW G, F = [x \in S |-> F[x]], G = [x \in S |-> G[x]],
         NEW i, \A x \in S : x # i => G[x] = F[x]
  PROVE  /\ i \in S => G = [F EXCEPT ![i] = G[i]]
         /\ i \notin S \/ G[i] = F[i] => G = F
  OBVIOUS

LEMMA OneMore ==
  ASSUME NEW A, NEW w \in A, NEW F, NEW G, F = [p \in A |-> F[p]], G = [p \in A |-> G[p]],
         \A p \in A : G[p] = IF p = w THEN F[p] + 1 ELSE F[p]
  PROVE  G = [F EXCEPT ![w] = @ + 1]
  OBVIOUS

\* What may happen to a store.
StoreNext(A, F, G, D, E) ==
  \/ G = F /\ E = D
  \/ \E t \in Ids :
       \/ F[t] = "unused" /\ G = [F EXCEPT ![t] = "pending"] /\ E = D
       \/ F[t] \in A /\ G = [F EXCEPT ![t] = "gone"] /\ E = [D EXCEPT ![t][F[t]] = @ + 1]
       \/ F[t] # "unused" /\ G = [F EXCEPT ![t] = "gone"] /\ E = D
       \/ \E a \in A : F[t] \in {"unused", "pending"} /\ G = [F EXCEPT ![t] = a] /\ E = D

LEMMA StoreStep ==
  ASSUME NEW A, NEW F, NEW G, NEW D, NEW E,
         F = [x \in Ids |-> F[x]], G = [x \in Ids |-> G[x]],
         D = [x \in Ids |-> D[x]], E = [x \in Ids |-> E[x]],
         NEW i, \A x \in Ids : x # i => G[x] = F[x] /\ E[x] = D[x],
         i \in Ids => TicketStep(A, F[i], G[i], D[i], E[i])
  PROVE  StoreNext(A, F, G, D, E)
<1>1. CASE i \notin Ids
  BY <1>1, UpdateAt DEF StoreNext
<1>2. CASE i \in Ids
  <2>1. G = [F EXCEPT ![i] = G[i]] /\ (G[i] = F[i] => G = F)
    BY <1>2, UpdateAt
  <2>2. E = [D EXCEPT ![i] = E[i]] /\ (E[i] = D[i] => E = D)
    BY <1>2, UpdateAt
  <2>3. CASE E[i] = D[i]
    BY <1>2, <2>1, <2>2, <2>3 DEF TicketStep, StoreNext
  <2>4. CASE F[i] \in A /\ G[i] = "gone" /\ E[i] = [D[i] EXCEPT ![F[i]] = @ + 1]
    <3>1. E = [D EXCEPT ![i][F[i]] = @ + 1]
      BY <2>2, <2>4
    <3> QED BY <1>2, <2>1, <2>4, <3>1 DEF StoreNext
  <2> QED BY <1>2, <2>3, <2>4 DEF TicketStep
<1> QED BY <1>1, <1>2

LEMMA HandoffStore ==
  ASSUME NEW i, \A x \in Ids : x # i => HandoffOf(x)' = HandoffOf(x)
                            /\ \A p \in People : HandedOver(given, x, p)' = HandedOver(given, x, p),
         i \in Ids => TicketStep(People, HandoffOf(i), HandoffOf(i)',
                        [p \in People |-> HandedOver(given, i, p)],
                        [p \in People |-> HandedOver(given, i, p)]')
  PROVE  [HandoffTickets!Next]_(HandoffTickets!vars)
<1>1. PICK F, G, D, E :
        /\ F = [h \in Ids |-> HandoffOf(h)] /\ G = [h \in Ids |-> HandoffOf(h)]'
        /\ D = [h \in Ids |-> [p \in People |-> HandedOver(given, h, p)]]
        /\ E = [h \in Ids |-> [p \in People |-> HandedOver(given, h, p)]]'
  OBVIOUS
<1>2. /\ F = [x \in Ids |-> F[x]] /\ G = [x \in Ids |-> G[x]]
      /\ D = [x \in Ids |-> D[x]] /\ E = [x \in Ids |-> E[x]]
  BY <1>1
<1>3. \A x \in Ids : x # i => G[x] = F[x] /\ E[x] = D[x]
  BY <1>1
<1>4. i \in Ids => TicketStep(People, F[i], G[i], D[i], E[i])
  BY <1>1
<1>5. StoreNext(People, F, G, D, E)
  BY <1>2, <1>3, <1>4, StoreStep
<1> QED
  BY <1>1, <1>5 DEF StoreNext, HandoffTickets!Next, HandoffTickets!vars, HandoffTickets!Open, HandoffTickets!Become,
       HandoffTickets!Answer, HandoffTickets!HandOver, HandoffTickets!Lapse

LEMMA ElevateStore ==
  ASSUME NEW i, \A x \in Ids : x # i => ElevateOf(x)' = ElevateOf(x)
                            /\ \A p \in People \cup {NoBody} : HandedOver(asserted, x, p)' = HandedOver(asserted, x, p),
         i \in Ids => TicketStep(People \cup {NoBody}, ElevateOf(i), ElevateOf(i)',
                        [p \in People \cup {NoBody} |-> HandedOver(asserted, i, p)],
                        [p \in People \cup {NoBody} |-> HandedOver(asserted, i, p)]')
  PROVE  [ElevateTickets!Next]_(ElevateTickets!vars)
<1>1. PICK F, G, D, E :
        /\ F = [e \in Ids |-> ElevateOf(e)] /\ G = [e \in Ids |-> ElevateOf(e)]'
        /\ D = [e \in Ids |-> [p \in People \cup {NoBody} |-> HandedOver(asserted, e, p)]]
        /\ E = [e \in Ids |-> [p \in People \cup {NoBody} |-> HandedOver(asserted, e, p)]]'
  OBVIOUS
<1>2. /\ F = [x \in Ids |-> F[x]] /\ G = [x \in Ids |-> G[x]]
      /\ D = [x \in Ids |-> D[x]] /\ E = [x \in Ids |-> E[x]]
  BY <1>1
<1>3. \A x \in Ids : x # i => G[x] = F[x] /\ E[x] = D[x]
  BY <1>1
<1>4. i \in Ids => TicketStep(People \cup {NoBody}, F[i], G[i], D[i], E[i])
  BY <1>1
<1>5. StoreNext(People \cup {NoBody}, F, G, D, E)
  BY <1>2, <1>3, <1>4, StoreStep
<1> QED
  BY <1>1, <1>5 DEF StoreNext, ElevateTickets!Next, ElevateTickets!vars, ElevateTickets!Open, ElevateTickets!Become,
       ElevateTickets!Answer, ElevateTickets!HandOver, ElevateTickets!Lapse

LEMMA CodeStore ==
  ASSUME NEW i, \A x \in Ids : x # i => CodeOf(x)' = CodeOf(x)
                            /\ \A p \in People : TokensOf(x, p)' = TokensOf(x, p),
         i \in Ids => TicketStep(People, CodeOf(i), CodeOf(i)',
                        [p \in People |-> TokensOf(i, p)],
                        [p \in People |-> TokensOf(i, p)]')
  PROVE  [CodeTickets!Next]_(CodeTickets!vars)
<1>1. PICK F, G, D, E :
        /\ F = [c \in Ids |-> CodeOf(c)] /\ G = [c \in Ids |-> CodeOf(c)]'
        /\ D = [c \in Ids |-> [p \in People |-> TokensOf(c, p)]]
        /\ E = [c \in Ids |-> [p \in People |-> TokensOf(c, p)]]'
  OBVIOUS
<1>2. /\ F = [x \in Ids |-> F[x]] /\ G = [x \in Ids |-> G[x]]
      /\ D = [x \in Ids |-> D[x]] /\ E = [x \in Ids |-> E[x]]
  BY <1>1
<1>3. \A x \in Ids : x # i => G[x] = F[x] /\ E[x] = D[x]
  BY <1>1
<1>4. i \in Ids => TicketStep(People, F[i], G[i], D[i], E[i])
  BY <1>1
<1>5. StoreNext(People, F, G, D, E)
  BY <1>2, <1>3, <1>4, StoreStep
<1> QED
  BY <1>1, <1>5 DEF StoreNext, CodeTickets!Next, CodeTickets!vars, CodeTickets!Open, CodeTickets!Become,
       CodeTickets!Answer, CodeTickets!HandOver, CodeTickets!Lapse

\* Appending an element adds one to the count of it, and to no other.
CountIn(s, a) == Cardinality({n \in DOMAIN s : s[n] = a})

LEMMA CountAppend ==
  ASSUME NEW T, NEW s \in Seq(T), NEW e \in T, NEW a
  PROVE  /\ CountIn(s, a) \in Nat
         /\ CountIn(Append(s, e), a) = IF a = e THEN CountIn(s, a) + 1 ELSE CountIn(s, a)
<1> DEFINE old == {n \in DOMAIN s : s[n] = a}  k == Len(s) + 1
           new == {n \in DOMAIN Append(s, e) : Append(s, e)[n] = a}
<1>1. IsFiniteSet(DOMAIN s)
  BY ElementOf, FS_Interval
<1>2. old \in SUBSET DOMAIN s
  OBVIOUS
<1>3. IsFiniteSet(old) /\ Cardinality(old) \in Nat
  BY <1>1, <1>2, FS_Subset, FS_CardinalityType
<1>4. k \notin old /\ new = IF a = e THEN old \cup {k} ELSE old
  BY AppendIs
<1> HIDE DEF old, new, k
<1>5. a = e => Cardinality(new) = Cardinality(old) + 1
  BY <1>3, <1>4, FS_AddElement
<1>6. CountIn(s, a) = Cardinality(old) /\ CountIn(Append(s, e), a) = Cardinality(new)
  BY DEF CountIn, old, new
<1> QED BY <1>3, <1>4, <1>5, <1>6

LEMMA HandoffStoreFrame ==
  ASSUME UNCHANGED <<handoff, given>>
  PROVE  [HandoffTickets!Next]_(HandoffTickets!vars)
BY HandoffStore DEF HandoffOf, HandedOver, TicketStep

LEMMA ElevateStoreFrame ==
  ASSUME UNCHANGED <<elevate, asserted>>
  PROVE  [ElevateTickets!Next]_(ElevateTickets!vars)
BY ElevateStore DEF ElevateOf, HandedOver, TicketStep

LEMMA CodeStoreFrame ==
  ASSUME UNCHANGED <<code, token>>
  PROVE  [CodeTickets!Next]_(CodeTickets!vars)
BY CodeStore DEF CodeOf, TokensOf, TicketStep

\* The hand-offs.
LEMMA CreateOpens ==
  ASSUME SignInInv, NEW b \in Browsers, NEW l \in DOMAIN login, CreateTicket(b, l)
  PROVE  [HandoffTickets!Next]_(HandoffTickets!vars)
<1>0. PICK n : n = Len(handoff) + 1
  OBVIOUS
<1> DEFINE rec == [status |-> "pending", login |-> l, who |-> NoOne]
<1>1. /\ handoff \in Seq(HandoffRecords) /\ given \in Seq(Seq(People)) /\ Len(given) = Len(handoff)
      /\ handoff' = Append(handoff, rec) /\ given' = Append(given, <<>>)
  BY DEF SignInInv, HandoffTypes, CreateTicket
<1>2. rec \in HandoffRecords /\ rec.status = "pending"
  <2>1. l \in Nat
    BY ElementOf DEF SignInInv, HfIdTypes
  <2> QED BY <2>1 DEF HandoffRecords
<1> HIDE DEF rec
<1>3. /\ DOMAIN handoff' = DOMAIN handoff \cup {n} /\ n \notin DOMAIN handoff
      /\ handoff'[n] = rec /\ \A h \in DOMAIN handoff : handoff'[h] = handoff[h]
  BY <1>0, <1>1, <1>2, AppendIs
<1>4. /\ DOMAIN given' = DOMAIN given \cup {n} /\ n \notin DOMAIN given
      /\ given'[n] = <<>> /\ \A h \in DOMAIN given : given'[h] = given[h]
  <2>1. <<>> \in Seq(People)
    OBVIOUS
  <2> QED BY <1>0, <1>1, <2>1, AppendIs
<1>5. \A x \in Ids : x # n => HandoffOf(x)' = HandoffOf(x)
                         /\ \A p \in People : HandedOver(given, x, p)' = HandedOver(given, x, p)
  BY <1>3, <1>4 DEF HandoffOf, HandedOver
<1>6. HandoffOf(n) = "unused" /\ HandoffOf(n)' = "pending"
  BY <1>2, <1>3 DEF HandoffOf
<1>7. \A p \in People : HandedOver(given, n, p)' = HandedOver(given, n, p)
  <2>1. ASSUME NEW p \in People PROVE HandedOver(given, n, p)' = HandedOver(given, n, p)
    <3>1. HandedOver(given, n, p) = 0
      BY <1>4 DEF HandedOver
    <3>2. {k \in DOMAIN given'[n] : given'[n][k] = p} = {}
      BY <1>4
    <3>3. HandedOver(given, n, p)' = 0
      BY <1>4, <3>2, FS_EmptySet DEF HandedOver
    <3> QED BY <3>1, <3>3
  <2> QED BY <2>1
<1> QED BY <1>5, <1>6, <1>7, HandoffStore DEF TicketStep

\* A ticket changes, and nothing is handed over.
LEMMA HandoffTurns ==
  ASSUME ResolvedKnown, NEW h \in DOMAIN handoff, DOMAIN handoff' = DOMAIN handoff,
         \A g \in DOMAIN handoff : g # h => handoff'[g] = handoff[g], given' = given,
         \/ handoff'[h] = handoff[h]
         \/ handoff[h].status = "pending" /\ handoff'[h].status = "resolved" /\ handoff'[h].who \in People
         \/ handoff'[h].status = "lapsed"
  PROVE  [HandoffTickets!Next]_(HandoffTickets!vars)
<1>1. \A x \in Ids : x # h => HandoffOf(x)' = HandoffOf(x)
                         /\ \A p \in People : HandedOver(given, x, p)' = HandedOver(given, x, p)
  BY DEF HandoffOf, HandedOver
<1>2. [p \in People |-> HandedOver(given, h, p)]' = [p \in People |-> HandedOver(given, h, p)]
  BY DEF HandedOver
<1>3. \/ HandoffOf(h)' = HandoffOf(h)
      \/ HandoffOf(h) = "pending" /\ HandoffOf(h)' \in People
      \/ HandoffOf(h) # "unused" /\ HandoffOf(h)' = "gone"
  <2>1. HandoffOf(h) # "unused"
    BY TicketAssumption DEF HandoffOf, ResolvedKnown
  <2> QED BY <2>1 DEF HandoffOf
<1> QED BY <1>1, <1>2, <1>3, HandoffStore DEF TicketStep

LEMMA TakeHandsOver ==
  ASSUME SignInInv, NEW q \in Polls, Take(q)
  PROVE  [HandoffTickets!Next]_(HandoffTickets!vars)
<1>0. PICK h, w : h = poll[q] /\ w = handoff[h].who
  OBVIOUS
<1>1. /\ h \in DOMAIN handoff /\ handoff \in Seq(HandoffRecords) /\ handoff[h].status = "resolved"
      /\ given \in Seq(Seq(People)) /\ Len(given) = Len(handoff)
      /\ handoff' = Moved(handoff, h, "taken") /\ given' = [given EXCEPT ![h] = Append(given[h], w)]
  BY <1>0 DEF SignInInv, HandoffTypes, HandoffLinks, Take, Parked, Moved
<1>2. w \in People
  BY <1>0, <1>1, PartsOf DEF ResolvedKnown
<1>3. PICK e \in HandoffRecords : Changed(HandoffRecords, handoff, h, e, handoff') /\ e.status = "taken"
  BY <1>1, HandoffMoves
<1>4. given[h] \in Seq(People) /\ h \in DOMAIN given
  BY <1>1, ElementOf
<1>5. Append(given[h], w) \in Seq(People)
  BY <1>2, <1>4, AppendIs
<1>6. DOMAIN given' = DOMAIN given /\ given'[h] = Append(given[h], w)
      /\ \A g \in DOMAIN given : g # h => given'[g] = given[g]
  BY <1>1, <1>4, <1>5, UpdateIs
<1>7. \A x \in Ids : x # h => HandoffOf(x)' = HandoffOf(x)
                         /\ \A p \in People : HandedOver(given, x, p)' = HandedOver(given, x, p)
  BY <1>3, <1>6 DEF HandoffOf, HandedOver, Changed
<1>8. HandoffOf(h) = w /\ HandoffOf(h)' = "gone"
  BY <1>0, <1>1, <1>3 DEF HandoffOf, Changed
<1>9. \A p \in People : HandedOver(given, h, p)' = IF p = w THEN HandedOver(given, h, p) + 1
                                  ELSE HandedOver(given, h, p)
  <2>1. \A p : HandedOver(given, h, p) = CountIn(given[h], p) /\ HandedOver(given, h, p)' = CountIn(given'[h], p)
    BY <1>4, <1>6 DEF HandedOver, CountIn
  <2>2. \A p : CountIn(Append(given[h], w), p) = IF p = w THEN CountIn(given[h], p) + 1 ELSE CountIn(given[h], p)
    BY <1>2, <1>4, CountAppend
  <2> QED BY <1>6, <2>1, <2>2
<1>10. [p \in People |-> HandedOver(given, h, p)]' =
         [[p \in People |-> HandedOver(given, h, p)] EXCEPT ![w] = @ + 1]
  BY <1>2, <1>9
<1> QED BY <1>2, <1>7, <1>8, <1>10, HandoffStore DEF TicketStep

LEMMA HandoffSteps ==
  ASSUME SignInInv, Next
  PROVE  [HandoffTickets!Next]_(HandoffTickets!vars)
<1>1. CASE UNCHANGED handoffVars
  BY <1>1, HandoffStoreFrame DEF handoffVars
<1>2. ASSUME NEW b \in Browsers, NEW l \in DOMAIN login, LoginByHandoff(b, l)
      PROVE  [HandoffTickets!Next]_(HandoffTickets!vars)
  BY <1>2, CreateOpens DEF LoginByHandoff
<1>3. ASSUME NEW h \in DOMAIN handoff, NEW p \in People, NEW same \in BOOLEAN, ResolveTicket(h, p, same)
      PROVE  [HandoffTickets!Next]_(HandoffTickets!vars)
  <2>1. given' = given /\ handoff \in Seq(HandoffRecords) /\ ResolvedKnown
    BY <1>3, PartsOf DEF ResolveTicket, SignInInv, HandoffTypes
  <2>2. CASE handoff' = handoff
    BY <2>1, <2>2, HandoffStoreFrame
  <2>3. CASE handoff[h].status = "pending" /\ handoff' = Answered(handoff, h, "resolved", p)
    <3>1. PICK e \in HandoffRecords :
            Changed(HandoffRecords, handoff, h, e, handoff') /\ e.status = "resolved" /\ e.who = p
      BY <2>1, <2>3, HandoffAnswered
    <3> QED BY <2>1, <2>3, <3>1, HandoffTurns DEF Changed
  <2> QED BY <1>3, <2>2, <2>3 DEF ResolveTicket, Answered
<1>4. ASSUME NEW s \in DOMAIN state, Continue(s)
      PROVE  [HandoffTickets!Next]_(HandoffTickets!vars)
  <2>1. PICK p, on : p = state[s].who /\ on = state[s].on
    OBVIOUS
  <2>2. p \in People /\ state[s].kind \in {"oidc", "handoff", "elevate"}
    <3>1. state[s] \in StateRecords
      BY ElementOf, PartsOf DEF StateInv
    <3> QED BY <1>4, <2>1, <3>1, PartsOf DEF StateInv, StateRecords, Continue
  <2>3. CASE state[s].kind = "handoff"
    <3>1. on \in DOMAIN handoff
      BY <2>1, <2>3, PartsOf DEF StateInv
    <3>2. PICK same \in BOOLEAN : ResolveTicket(on, p, same)
      BY <1>4, <2>1, <2>3 DEF Continue
    <3> QED BY <1>3, <2>2, <3>1, <3>2
  <2>4. CASE state[s].kind # "handoff"
    BY <1>1, <1>4, <2>2, <2>4 DEF Continue
  <2> QED BY <2>3, <2>4
<1>5. ASSUME NEW h \in DOMAIN handoff, HandoffLapses(h)
      PROVE  [HandoffTickets!Next]_(HandoffTickets!vars)
  <2>1. /\ handoff' = Moved(handoff, h, "lapsed") /\ given' = given
        /\ handoff \in Seq(HandoffRecords) /\ ResolvedKnown
    BY <1>5, PartsOf DEF HandoffLapses, Moved, SignInInv, HandoffTypes
  <2>2. PICK e \in HandoffRecords : Changed(HandoffRecords, handoff, h, e, handoff') /\ e.status = "lapsed"
    BY <2>1, HandoffMoves
  <2> QED BY <2>1, <2>2, HandoffTurns DEF Changed
<1>6. ASSUME NEW q \in Polls, Collect(q) \/ WaitTimesOut(q)
      PROVE  [HandoffTickets!Next]_(HandoffTickets!vars)
  BY <1>6, TakeHandsOver, HandoffStoreFrame DEF Collect, WaitTimesOut
<1>7. ASSUME NEW b \in Browsers, StartWait(b)
      PROVE  [HandoffTickets!Next]_(HandoffTickets!vars)
  BY <1>7, HandoffStoreFrame DEF StartWait
<1>8. CASE LineNext
  BY <1>1, <1>2, <1>4, <1>8
     DEF LineNext, LoginDirectly, LoginForKiosk, Callback, StateLapses, ExchangeFails
<1>9. CASE PollNext
  BY <1>5, <1>6, <1>7, <1>9 DEF PollNext
<1> QED BY <1>1, <1>8, <1>9 DEF Next

\* The kiosk's tickets.
LEMMA ElevateTurns ==
  ASSUME StationLinks, NEW e \in DOMAIN elevate, DOMAIN elevate' = DOMAIN elevate,
         \A x \in DOMAIN elevate : x # e => elevate'[x] = elevate[x], asserted' = asserted,
         \/ elevate'[e] = elevate[e]
         \/ /\ elevate[e].status = "pending"
            /\ \/ elevate'[e].status = "authorized" /\ elevate'[e].who \in People
               \/ elevate'[e].status = "denied"
         \/ elevate'[e].status = "lapsed"
  PROVE  [ElevateTickets!Next]_(ElevateTickets!vars)
<1>1. \A x \in Ids : x # e => ElevateOf(x)' = ElevateOf(x)
        /\ \A p \in People \cup {NoBody} : HandedOver(asserted, x, p)' = HandedOver(asserted, x, p)
  BY DEF ElevateOf, HandedOver
<1>2. [p \in People \cup {NoBody} |-> HandedOver(asserted, e, p)]'
        = [p \in People \cup {NoBody} |-> HandedOver(asserted, e, p)]
  BY DEF HandedOver
<1>3. \/ ElevateOf(e)' = ElevateOf(e)
      \/ ElevateOf(e) = "pending" /\ ElevateOf(e)' \in People \cup {NoBody}
      \/ ElevateOf(e) # "unused" /\ ElevateOf(e)' = "gone"
  <2>1. ElevateOf(e) # "unused"
    BY TicketAssumption DEF ElevateOf, StationLinks
  <2> QED BY <2>1 DEF ElevateOf
<1> QED BY <1>1, <1>2, <1>3, ElevateStore DEF TicketStep

LEMMA StartOpens ==
  ASSUME SignInInv, NEW app \in Apps, StartElevate(app)
  PROVE  [ElevateTickets!Next]_(ElevateTickets!vars)
<1>0. PICK n : n = Len(elevate) + 1
  OBVIOUS
<1> DEFINE rec == [status |-> "pending", app |-> app, who |-> NoBody]  A == People \cup {NoBody}
<1>1. /\ elevate \in Seq(ElevateRecords) /\ asserted \in Seq(Seq(A)) /\ Len(asserted) = Len(elevate)
      /\ elevate' = Append(elevate, rec) /\ asserted' = Append(asserted, <<>>)
  BY DEF SignInInv, StationInv, StationTypes, StartElevate
<1>2. rec \in ElevateRecords /\ rec.status = "pending"
  BY DEF ElevateRecords
<1> HIDE DEF rec
<1>3. /\ DOMAIN elevate' = DOMAIN elevate \cup {n} /\ n \notin DOMAIN elevate
      /\ elevate'[n] = rec /\ \A e \in DOMAIN elevate : elevate'[e] = elevate[e]
  BY <1>0, <1>1, <1>2, AppendIs
<1>4. /\ DOMAIN asserted' = DOMAIN asserted \cup {n} /\ n \notin DOMAIN asserted
      /\ asserted'[n] = <<>> /\ \A e \in DOMAIN asserted : asserted'[e] = asserted[e]
  <2>1. <<>> \in Seq(A)
    OBVIOUS
  <2> QED BY <1>0, <1>1, <2>1, AppendIs
<1>5. \A x \in Ids : x # n => ElevateOf(x)' = ElevateOf(x)
                         /\ \A p \in A : HandedOver(asserted, x, p)' = HandedOver(asserted, x, p)
  BY <1>3, <1>4 DEF ElevateOf, HandedOver
<1>6. ElevateOf(n) = "unused" /\ ElevateOf(n)' = "pending"
  BY <1>2, <1>3 DEF ElevateOf
<1>7. \A p \in A : HandedOver(asserted, n, p)' = HandedOver(asserted, n, p)
  <2>1. ASSUME NEW p \in A PROVE HandedOver(asserted, n, p)' = HandedOver(asserted, n, p)
    <3>1. HandedOver(asserted, n, p) = 0
      BY <1>4 DEF HandedOver
    <3>2. {k \in DOMAIN asserted'[n] : asserted'[n][k] = p} = {}
      BY <1>4
    <3>3. HandedOver(asserted, n, p)' = 0
      BY <1>4, <3>2, FS_EmptySet DEF HandedOver
    <3> QED BY <3>1, <3>3
  <2> QED BY <2>1
<1> QED BY <1>5, <1>6, <1>7, ElevateStore DEF TicketStep

LEMMA FetchHandsOver ==
  ASSUME SignInInv, NEW q \in StationPolls, FetchElevate(q)
  PROVE  [ElevateTickets!Next]_(ElevateTickets!vars)
<1> DEFINE A == People \cup {NoBody}
<1>0. PICK e, w : e = watch[q].on /\ w = IF elevate[e].status = "authorized" THEN elevate[e].who ELSE NoBody
  OBVIOUS
<1>1. /\ e \in DOMAIN elevate /\ elevate \in Seq(ElevateRecords)
      /\ elevate[e].status \in {"authorized", "denied"}
      /\ asserted \in Seq(Seq(A)) /\ Len(asserted) = Len(elevate) /\ w \in A
      /\ elevate' = Moved(elevate, e, "taken") /\ asserted' = [asserted EXCEPT ![e] = Append(asserted[e], w)]
  BY <1>0 DEF SignInInv, StationInv, StationTypes, StationLinks, FetchElevate, Moved
<1>3. PICK r \in ElevateRecords : Changed(ElevateRecords, elevate, e, r, elevate') /\ r.status = "taken"
  BY <1>1, ElevateMoves
<1>4. asserted[e] \in Seq(A) /\ e \in DOMAIN asserted
  BY <1>1, ElementOf
<1>5. Append(asserted[e], w) \in Seq(A)
  BY <1>1, <1>4, AppendIs
<1>6. DOMAIN asserted' = DOMAIN asserted /\ asserted'[e] = Append(asserted[e], w)
      /\ \A x \in DOMAIN asserted : x # e => asserted'[x] = asserted[x]
  BY <1>1, <1>4, <1>5, UpdateIs
<1>7. \A x \in Ids : x # e => ElevateOf(x)' = ElevateOf(x)
                         /\ \A p \in A : HandedOver(asserted, x, p)' = HandedOver(asserted, x, p)
  BY <1>3, <1>6 DEF ElevateOf, HandedOver, Changed
<1>8. ElevateOf(e) = w /\ ElevateOf(e)' = "gone"
  BY <1>0, <1>1, <1>3 DEF ElevateOf, Changed
<1>9. \A p \in A : HandedOver(asserted, e, p)' = IF p = w THEN HandedOver(asserted, e, p) + 1
                                  ELSE HandedOver(asserted, e, p)
  <2>1. \A p : HandedOver(asserted, e, p) = CountIn(asserted[e], p) /\ HandedOver(asserted, e, p)' = CountIn(asserted'[e], p)
    BY <1>4, <1>6 DEF HandedOver, CountIn
  <2>2. \A p : CountIn(Append(asserted[e], w), p) = IF p = w THEN CountIn(asserted[e], p) + 1 ELSE CountIn(asserted[e], p)
    <3>1. asserted[e] \in Seq(A) /\ w \in A
      BY <1>1, <1>4
    <3> HIDE DEF A
    <3> QED BY <3>1, CountAppend
  <2>3. asserted'[e] = Append(asserted[e], w)
    BY <1>6
  <2> HIDE DEF A
  <2> QED BY <2>1, <2>2, <2>3
<1>10. [p \in A |-> HandedOver(asserted, e, p)]' =
         [[p \in A |-> HandedOver(asserted, e, p)] EXCEPT ![w] = @ + 1]
  <2>1. PICK F, G : /\ F = [p \in A |-> HandedOver(asserted, e, p)]
                    /\ G = [p \in A |-> HandedOver(asserted, e, p)]'
    OBVIOUS
  <2>2. w \in A
    BY <1>1
  <2> HIDE DEF A
  <2>3. /\ F = [p \in A |-> F[p]] /\ G = [p \in A |-> G[p]]
        /\ \A p \in A : G[p] = IF p = w THEN F[p] + 1 ELSE F[p]
    BY <1>9, <2>1 DEF A
  <2> QED BY <2>1, <2>2, <2>3, OneMore
<1>11. TicketStep(A, ElevateOf(e), ElevateOf(e)',
                  [p \in A |-> HandedOver(asserted, e, p)],
                  [p \in A |-> HandedOver(asserted, e, p)]')
  <2>1. PICK F, G : /\ F = [p \in A |-> HandedOver(asserted, e, p)]
                    /\ G = [p \in A |-> HandedOver(asserted, e, p)]'
    OBVIOUS
  <2>2. w \in A /\ ElevateOf(e) = w /\ ElevateOf(e)' = "gone" /\ G = [F EXCEPT ![w] = @ + 1]
    BY <1>1, <1>8, <1>10, <2>1
  <2> HIDE DEF A
  <2>3. TicketStep(A, ElevateOf(e), ElevateOf(e)', F, G)
    BY <2>2 DEF TicketStep
  <2> QED BY <2>1, <2>3
<1> QED BY <1>7, <1>11, ElevateStore

LEMMA ElevateSteps ==
  ASSUME SignInInv, Next
  PROVE  [ElevateTickets!Next]_(ElevateTickets!vars)
<1>0. elevate \in Seq(ElevateRecords) /\ StationLinks
  BY DEF SignInInv, StationInv, StationTypes
<1>1. CASE UNCHANGED <<elevate, asserted>>
  BY <1>1, ElevateStoreFrame
<1>2. ASSUME NEW s \in DOMAIN state, Continue(s)
      PROVE  [ElevateTickets!Next]_(ElevateTickets!vars)
  <2>1. PICK p, e : p = state[s].who /\ e = state[s].on
    OBVIOUS
  <2>2. p \in People /\ state[s].kind \in {"oidc", "handoff", "elevate"}
    <3>1. state[s] \in StateRecords
      BY ElementOf, PartsOf DEF StateInv
    <3> QED BY <1>2, <2>1, <3>1, PartsOf DEF StateInv, StateRecords, Continue
  <2>3. CASE state[s].kind # "elevate"
    BY <1>1, <1>2, <2>2, <2>3 DEF Continue, stationVars
  <2>4. CASE state[s].kind = "elevate"
    <3>1. e \in DOMAIN elevate /\ ContinueElevate(e, p)
      BY <1>2, <2>1, <2>4, PartsOf DEF StateInv, Continue
    <3>2. asserted' = asserted
      BY <3>1 DEF ContinueElevate
    <3>3. CASE elevate' = elevate
      BY <1>1, <3>2, <3>3
    <3>4. CASE elevate[e].status = "pending" /\ elevate' = Answered(elevate, e, "authorized", p)
      <4>1. PICK r \in ElevateRecords :
              Changed(ElevateRecords, elevate, e, r, elevate') /\ r.status = "authorized" /\ r.who = p
        BY <1>0, <2>2, <3>1, <3>4, ElevateAnswered
      <4> QED BY <1>0, <2>2, <3>1, <3>2, <3>4, <4>1, ElevateTurns DEF Changed
    <3>5. CASE elevate[e].status = "pending" /\ elevate' = Moved(elevate, e, "denied")
      <4>1. PICK r \in ElevateRecords :
              Changed(ElevateRecords, elevate, e, r, elevate') /\ r.status = "denied"
        BY <1>0, <3>1, <3>5, ElevateMoves
      <4> QED BY <1>0, <3>1, <3>2, <3>5, <4>1, ElevateTurns DEF Changed
    <3> QED BY <3>1, <3>3, <3>4, <3>5 DEF ContinueElevate, Answerable, Answered, Moved
  <2> QED BY <2>3, <2>4
<1>3. ASSUME NEW e \in DOMAIN elevate, ElevateLapses(e)
      PROVE  [ElevateTickets!Next]_(ElevateTickets!vars)
  <2>1. elevate' = Moved(elevate, e, "lapsed") /\ asserted' = asserted
    BY <1>3 DEF ElevateLapses, Moved
  <2>2. PICK r \in ElevateRecords : Changed(ElevateRecords, elevate, e, r, elevate') /\ r.status = "lapsed"
    BY <1>0, <2>1, ElevateMoves
  <2> QED BY <1>0, <2>1, <2>2, ElevateTurns DEF Changed
<1>4. CASE StationNext
  BY <1>1, <1>3, <1>4, StartOpens, FetchHandsOver DEF StationNext, TapLapses, ScanCard, MakeClaim,
     ClaimLapses, WatchReader, WatchElevate, FetchTap, WatchTimesOut
<1>5. CASE LineNext
  BY <1>1, <1>2, <1>5 DEF LineNext, LoginDirectly, LoginByHandoff, LoginForKiosk, Callback, StateLapses,
     ExchangeFails, Others, stationVars
<1> QED BY <1>1, <1>4, <1>5 DEF Next, Others, stationVars

\* The authorization codes.
LEMMA OidcAnswers ==
  ASSUME SignInInv, NEW l \in DOMAIN login, NEW p \in People, ContinueOidc(l, p)
  PROVE  [CodeTickets!Next]_(CodeTickets!vars)
<1>0. PICK n : n = Len(code) + 1
  OBVIOUS
<1>1. /\ \A c \in DOMAIN code' : c \notin DOMAIN code => code'[c].login = l /\ code'[c].who = p
      /\ \/ code' = code
         \/ /\ DOMAIN code' = DOMAIN code \cup {n} /\ n \notin DOMAIN code
            /\ code'[n].status = "issued"
            /\ \A c \in DOMAIN code : code'[c] = code[c]
  BY <1>0, OidcStep, PartsOf
<1>2. token' = token
  BY DEF ContinueOidc
<1>3. CASE code' = code
  BY <1>2, <1>3, CodeStoreFrame
<1>4. CASE code' # code
  <2>1. \A x \in Ids : x # n => CodeOf(x)' = CodeOf(x) /\ \A a \in People : TokensOf(x, a)' = TokensOf(x, a)
    BY <1>1, <1>2, <1>4 DEF CodeOf, TokensOf
  <2>2. CodeOf(n) = "unused" /\ CodeOf(n)' = p
    BY <1>1, <1>4 DEF CodeOf
  <2>3. [a \in People |-> TokensOf(n, a)]' = [a \in People |-> TokensOf(n, a)]
    BY <1>2 DEF TokensOf
  <2> QED BY <2>1, <2>2, <2>3, CodeStore DEF TicketStep
<1> QED BY <1>3, <1>4

\* A code is over: used without a token, or lapsed.
LEMMA CodeEnds ==
  ASSUME HfIdTypes, NEW c \in DOMAIN code, NEW v \in {"used", "lapsed"}, code' = Moved(code, c, v),
         token' = token
  PROVE  [CodeTickets!Next]_(CodeTickets!vars)
<1>1. PICK e \in CodeRecords : Changed(CodeRecords, code, c, e, code') /\ e.status = v
  BY CodeMoves DEF HfIdTypes
<1>2. \A x \in Ids : x # c => CodeOf(x)' = CodeOf(x) /\ \A a \in People : TokensOf(x, a)' = TokensOf(x, a)
  BY <1>1 DEF CodeOf, TokensOf, Changed
<1>3. CodeOf(c) # "unused" /\ CodeOf(c)' = "gone"
  <2>1. code[c] \in CodeRecords
    BY ElementOf DEF HfIdTypes
  <2>2. code[c].who \in People
    BY <2>1 DEF CodeRecords
  <2> QED BY <1>1, <2>2, TicketAssumption DEF CodeOf, Changed
<1>4. [a \in People |-> TokensOf(c, a)]' = [a \in People |-> TokensOf(c, a)]
  BY DEF TokensOf
<1> QED BY <1>2, <1>3, <1>4, CodeStore DEF TicketStep

LEMMA RedeemHandsOver ==
  ASSUME SignInInv, NEW c \in DOMAIN code, NEW sound \in BOOLEAN, RedeemCode(c, sound)
  PROVE  [CodeTickets!Next]_(CodeTickets!vars)
<1>0. PICK k, w : k = Len(token) + 1 /\ w = code[c].who
  OBVIOUS
<1>1. /\ code \in Seq(CodeRecords) /\ token \in Seq(TokenRecords) /\ code[c] \in CodeRecords /\ c \in Nat
      /\ code[c].status = "issued" /\ code' = Moved(code, c, "used")
  BY ElementOf DEF SignInInv, HfIdTypes, RedeemCode, Moved
<1>2. CASE token' = token
  BY <1>1, <1>2, CodeEnds DEF SignInInv
<1>3. CASE token' # token
  <2> DEFINE rec == Claims(c)
  <2>1. token' = Append(token, rec)
    BY <1>3 DEF RedeemCode
  <2>2. rec \in TokenRecords /\ rec.code = c /\ rec.who = w /\ w \in People
    BY <1>0, <1>1 DEF Claims, TokenRecords, CodeRecords
  <2> HIDE DEF rec
  <2>3. /\ DOMAIN token' = DOMAIN token \cup {k} /\ k \notin DOMAIN token
        /\ token'[k] = rec /\ \A t \in DOMAIN token : token'[t] = token[t]
    BY <1>0, <1>1, <2>1, <2>2, AppendIs
  <2>4. PICK e \in CodeRecords : Changed(CodeRecords, code, c, e, code') /\ e.status = "used"
    BY <1>1, CodeMoves
  <2>5. ASSUME NEW x, NEW a
        PROVE  TokensOf(x, a)' = IF x = c /\ a = w THEN TokensOf(x, a) + 1 ELSE TokensOf(x, a)
    <3> DEFINE old == {t \in DOMAIN token : token[t].code = x /\ token[t].who = a}
               new == {t \in DOMAIN token' : token'[t].code = x /\ token'[t].who = a}
    <3>1. IsFiniteSet(DOMAIN token)
      BY <1>1, ElementOf, FS_Interval
    <3>2. old \in SUBSET DOMAIN token
      OBVIOUS
    <3>3. IsFiniteSet(old)
      BY <3>1, <3>2, FS_Subset
    <3>4. k \notin old /\ new = IF x = c /\ a = w THEN old \cup {k} ELSE old
      BY <2>2, <2>3
    <3>5. TokensOf(x, a) = Cardinality(old) /\ TokensOf(x, a)' = Cardinality(new)
      BY DEF TokensOf
    <3> HIDE DEF old, new
    <3> QED BY <3>3, <3>4, <3>5, FS_AddElement
  <2>6. \A x \in Ids : x # c => CodeOf(x)' = CodeOf(x) /\ \A a \in People : TokensOf(x, a)' = TokensOf(x, a)
    BY <2>4, <2>5 DEF CodeOf, Changed
  <2>7. CodeOf(c) = w /\ CodeOf(c)' = "gone"
    BY <1>0, <1>1, <2>4 DEF CodeOf, Changed
  <2>8. [a \in People |-> TokensOf(c, a)]' = [[a \in People |-> TokensOf(c, a)] EXCEPT ![w] = @ + 1]
    <3>1. \A a \in People : TokensOf(c, a)' = IF a = w THEN TokensOf(c, a) + 1 ELSE TokensOf(c, a)
      BY <2>5
    <3>2. PICK F, G : /\ F = [a \in People |-> TokensOf(c, a)]
                      /\ G = [a \in People |-> TokensOf(c, a)]'
      OBVIOUS
    <3>3. /\ F = [a \in People |-> F[a]] /\ G = [a \in People |-> G[a]]
          /\ \A a \in People : G[a] = IF a = w THEN F[a] + 1 ELSE F[a]
      BY <3>1, <3>2
    <3> QED BY <2>2, <3>2, <3>3, OneMore
  <2>9. TicketStep(People, CodeOf(c), CodeOf(c)', [a \in People |-> TokensOf(c, a)],
                   [a \in People |-> TokensOf(c, a)]')
    <3>1. PICK F, G : /\ F = [a \in People |-> TokensOf(c, a)]
                      /\ G = [a \in People |-> TokensOf(c, a)]'
      OBVIOUS
    <3>2. w \in People /\ CodeOf(c) = w /\ CodeOf(c)' = "gone" /\ G = [F EXCEPT ![w] = @ + 1]
      BY <2>2, <2>7, <2>8, <3>1
    <3>3. TicketStep(People, CodeOf(c), CodeOf(c)', F, G)
      BY <3>2 DEF TicketStep
    <3> QED BY <3>1, <3>3
  <2> QED BY <2>6, <2>9, CodeStore
<1> QED BY <1>2, <1>3

LEMMA CodeSteps ==
  ASSUME SignInInv, Next
  PROVE  [CodeTickets!Next]_(CodeTickets!vars)
<1>1. CASE UNCHANGED <<code, token>>
  BY <1>1, CodeStoreFrame
<1>2. ASSUME NEW s \in DOMAIN state, Continue(s)
      PROVE  [CodeTickets!Next]_(CodeTickets!vars)
  <2>1. PICK p, l : p = state[s].who /\ l = state[s].on
    OBVIOUS
  <2>2. p \in People /\ state[s].kind \in {"oidc", "handoff", "elevate"}
    <3>1. state[s] \in StateRecords
      BY ElementOf, PartsOf DEF StateInv
    <3> QED BY <1>2, <2>1, <3>1, PartsOf DEF StateInv, StateRecords, Continue
  <2>3. CASE state[s].kind # "oidc"
    BY <1>1, <1>2, <2>2, <2>3 DEF Continue, ResolveTicket, hfidVars
  <2>4. CASE state[s].kind = "oidc"
    <3>1. l \in DOMAIN login /\ ContinueOidc(l, p)
      BY <1>2, <2>1, <2>4, PartsOf DEF StateInv, Continue
    <3> QED BY <2>2, <3>1, OidcAnswers
  <2> QED BY <2>3, <2>4
<1>3. ASSUME NEW q \in Polls, Collect(q)
      PROVE  [CodeTickets!Next]_(CodeTickets!vars)
  <2>1. poll[q] \in DOMAIN handoff /\ handoff[poll[q]].status = "resolved"
    BY <1>3, PartsOf DEF Collect, Take, Parked, HandoffInv, HandoffLinks
  <2>2. PICK l \in DOMAIN login, p \in People : l = handoff[poll[q]].login /\ p = handoff[poll[q]].who
    BY <2>1, PartsOf DEF HandoffInv, HandoffLinks, ResolvedKnown
  <2>3. ContinueOidc(l, p) \/ ContinueOidcFails(l)
    BY <1>3, <2>2 DEF Collect
  <2> QED BY <2>3, OidcAnswers, CodeStoreFrame DEF ContinueOidcFails
<1>4. ASSUME NEW c \in DOMAIN code, CodeLapses(c)
      PROVE  [CodeTickets!Next]_(CodeTickets!vars)
  <2>1. code' = Moved(code, c, "lapsed") /\ token' = token
    BY <1>4 DEF CodeLapses, Moved
  <2> QED BY <2>1, CodeEnds DEF SignInInv
<1>5. CASE HfIdNext
  BY <1>1, <1>4, <1>5, RedeemHandsOver DEF HfIdNext, Authorize, LoginLapses
<1>6. CASE PollNext
  BY <1>1, <1>3, <1>6 DEF PollNext, HandoffLapses, WaitTimesOut, StartWait, hfidVars
<1>7. CASE LineNext
  BY <1>1, <1>2, <1>7 DEF LineNext, LoginDirectly, LoginByHandoff, LoginForKiosk, Callback, StateLapses,
     ExchangeFails, CreateTicket, hfidVars
<1> QED BY <1>1, <1>5, <1>6, <1>7 DEF Next, hfidVars

LEMMA StoresBegin ==
  ASSUME Init
  PROVE  HandoffTickets!Init /\ ElevateTickets!Init /\ CodeTickets!Init
<1>1. handoff = <<>> /\ given = <<>> /\ elevate = <<>> /\ asserted = <<>> /\ code = <<>> /\ token = <<>>
  BY DEF Init, HandoffInit, StationInit, HfIdInit
<1>2. \A h \in Ids : HandoffOf(h) = "unused" /\ \A p : HandedOver(given, h, p) = 0
  BY <1>1 DEF HandoffOf, HandedOver
<1>3. \A e \in Ids : ElevateOf(e) = "unused" /\ \A p : HandedOver(asserted, e, p) = 0
  BY <1>1 DEF ElevateOf, HandedOver
<1>4. \A c \in Ids : CodeOf(c) = "unused" /\ \A p : TokensOf(c, p) = 0
  <2>1. \A c, p : {t \in DOMAIN token : token[t].code = c /\ token[t].who = p} = {}
    BY <1>1
  <2> QED BY <1>1, <2>1, FS_EmptySet DEF CodeOf, TokensOf
<1> QED BY <1>2, <1>3, <1>4 DEF HandoffTickets!Init, ElevateTickets!Init, CodeTickets!Init

LEMMA StoresStutter ==
  ASSUME UNCHANGED vars
  PROVE  /\ [HandoffTickets!Next]_(HandoffTickets!vars) /\ [ElevateTickets!Next]_(ElevateTickets!vars)
         /\ [CodeTickets!Next]_(CodeTickets!vars)
BY HandoffStoreFrame, ElevateStoreFrame, CodeStoreFrame DEF vars, handoffVars, stationVars, hfidVars

\* The hand-off tickets, the tickets of the kiosk and the authorization codes
\* implement OneTimeTicket: one answer, handed over once (line_handoff_store.py,
\* reader.py, oidc_service.py).
THEOREM TicketsStayOneTime == Spec => TicketsAreOneTime
<1>1. Init => HandoffTickets!Init /\ ElevateTickets!Init /\ CodeTickets!Init
  BY StoresBegin
<1>2. SignInInv /\ [Next]_vars => /\ [HandoffTickets!Next]_(HandoffTickets!vars)
                                  /\ [ElevateTickets!Next]_(ElevateTickets!vars)
                                  /\ [CodeTickets!Next]_(CodeTickets!vars)
  BY HandoffSteps, ElevateSteps, CodeSteps, StoresStutter
<1> QED
  BY <1>1, <1>2, SignInInvHolds, PTL
     DEF Spec, TicketsAreOneTime, HandoffTickets!Spec, ElevateTickets!Spec, CodeTickets!Spec

=============================================================================
