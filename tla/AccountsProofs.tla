---------------------------- MODULE AccountsProofs ----------------------------
(***************************************************************************)
(* Machine-checked proofs about Accounts, for any number of accounts,      *)
(* confirmation screens, touches and lost calls.                           *)
(***************************************************************************)
EXTENDS Accounts, TLAPS

(* A process that has ended has no calls, no pushed screen and no thread.  *)
EndedIsEmpty == ~up => calls = {} /\ top = "entrance" /\ pc = Unborn

(* What the device believes of an address, or is about to be told, is so:  *)
(* a confirmed address stays confirmed.                                    *)
SeenSound ==
  /\ \A a \in Accounts : seen[a] => verified[a]
  /\ \A k \in calls : k.phase = "verified" => verified[k.account]

(* Nothing is to be deleted; a sign-in and a creation are not on their way *)
(* while the confirmation screen waits, and only the form on the screen    *)
(* has a creation.                                                         *)
PatientCall(k) ==
  /\ k.kind # "delete"
  /\ k.kind = "signIn" => top = "entrance"
  /\ k.kind = "create" => top # "confirm"
  /\ k.screen = "form" => k.kind = "create" /\ top = "registration"

PatientCalls ==
  /\ \A k \in calls : PatientCall(k)
  /\ \A j, k \in calls : j.kind = "create" /\ k.kind = "create" => j = k

(* The confirmation screen is the only one that polls, has not been        *)
(* stopped and waits for the signed-in user.                               *)
PatientScreen ==
  /\ top # "entrance" => root = "entrance"
  /\ screen # NoScreen => top = "confirm"
  /\ top = "confirm" => screen \in Screens /\ ~stop[screen] /\ current # Nobody

Polling == {"test", "user", "exit", "enter"}

PatientThread ==
  \A c \in Screens :
    /\ pc[c] # "delete"
    /\ pc[c] \in Polling => screen = c
    /\ top = "confirm" /\ screen = c => pc[c] \in Polling
    /\ pc[c] = "new" => ~stop[c]
    /\ pc[c] \in {"exit", "enter"} => verified[current]

PatientData == trapped = {} /\ \A a \in Accounts : status[a] # "deleted"

PatientState == PatientCalls /\ PatientScreen /\ PatientThread /\ PatientData

Patient == ~wandered => PatientState

AccountInv == TypeOK /\ EndedIsEmpty /\ SeenSound /\ Patient

-----------------------------------------------------------------------------
(***************************************************************************)
(* Calls.                                                                  *)
(***************************************************************************)
LEMMA CallFields ==
  ASSUME NEW k \in Calls
  PROVE  /\ k.kind \in {"create", "signIn", "reload", "confirm", "delete"}
         /\ k.account \in Accounts /\ k.screen \in Screens \cup {NoScreen, "form"}
         /\ k.phase \in {"sent", "failed", "done", "verified"}
BY DEF Calls

LEMMA NewCall ==
  ASSUME NEW kind \in {"create", "signIn", "reload", "confirm", "delete"}, NEW a \in Accounts,
         NEW c \in Screens \cup {NoScreen, "form"}
  PROVE  /\ CallFrom(kind, a, c) \in Calls /\ Call(kind, a) \in Calls
         /\ CallFrom(kind, a, c).kind = kind /\ CallFrom(kind, a, c).screen = c
         /\ CallFrom(kind, a, c).phase = "sent"
         /\ Call(kind, a).kind = kind /\ Call(kind, a).screen = NoScreen
         /\ Call(kind, a).phase = "sent"
BY DEF CallFrom, Call, Calls

LEMMA AnsweredCall ==
  ASSUME NEW k \in Calls, NEW phase \in {"sent", "failed", "done", "verified"}
  PROVE  LET j == [k EXCEPT !.phase = phase]
         IN  /\ j \in Calls /\ j.kind = k.kind /\ j.account = k.account
             /\ j.screen = k.screen /\ j.phase = phase
BY DEF Calls

LEMMA FormlessCall ==
  ASSUME NEW k \in Calls
  PROVE  LET j == [k EXCEPT !.screen = NoScreen]
         IN  /\ j \in Calls /\ j.kind = k.kind /\ j.account = k.account
             /\ j.screen = NoScreen /\ j.phase = k.phase
BY DEF Calls

(* Where a call of FormGone comes from. *)
LEMMA FormGoneCall ==
  ASSUME calls \subseteq Calls, NEW j \in FormGone
  PROVE  /\ j \in Calls /\ j.screen # "form"
         /\ \E k \in calls : /\ j = IF k.screen = "form" THEN [k EXCEPT !.screen = NoScreen] ELSE k
                             /\ j.kind = k.kind /\ j.account = k.account /\ j.phase = k.phase
<1>1. PICK k \in calls : j = IF k.screen = "form" THEN [k EXCEPT !.screen = NoScreen] ELSE k
  BY DEF FormGone
<1>2. k \in Calls /\ NoScreen # "form"
  BY AccountsAssumption
<1> QED
  BY <1>1, <1>2, FormlessCall

LEMMA DeleteCalls ==
  ASSUME NEW c, NEW u \in Accounts \cup {Nobody}
  PROVE  /\ deleteUser(c, u) \subseteq Calls
         /\ \A k \in deleteUser(c, u) : k.phase = "sent"
<1>1. CASE going[c] \/ u = Nobody
  BY <1>1 DEF deleteUser
<1>2. CASE ~(going[c] \/ u = Nobody)
  <2>1. Call("delete", u) \in Calls /\ Call("delete", u).phase = "sent"
    BY <1>2, NewCall
  <2> QED
    BY <1>2, <2>1 DEF deleteUser
<1> QED
  BY <1>1, <1>2

-----------------------------------------------------------------------------
(***************************************************************************)
(* Types.                                                                  *)
(***************************************************************************)
LEMMA EndProcessTypes ==
  ASSUME TypeOK, NEW sites \in SUBSET {"poll", "confirm", "resend"}, EndProcess(sites),
         touches' \in 0 .. MaxTouches, lost' \in 0 .. MaxLost
  PROVE  TypeOK'
BY DEF EndProcess, TypeOK, Idle, Unborn, server

LEMMA InstallTabsTypes ==
  ASSUME TypeOK, NEW u \in Accounts \cup {Nobody}, NEW before \in SUBSET Calls,
         InstallTabs(u, before)
  PROVE  /\ root' = "tabs" /\ top' = "entrance" /\ screen' = NoScreen
         /\ dbUser' \in Accounts \cup {Nobody, "unmade"}
         /\ stop' \in [Screens -> BOOLEAN] /\ calls' \subseteq Calls
         /\ \A k \in calls' : k \in before \/ k.phase = "sent"
<1>1. CASE screen = NoScreen
  BY <1>1 DEF InstallTabs, UserOf, TypeOK
<1>2. CASE screen # NoScreen
  <2>1. deleteUser(screen, u) \subseteq Calls /\ \A k \in deleteUser(screen, u) : k.phase = "sent"
    BY DeleteCalls
  <2>2. Disappear(screen, u, before)
    BY <1>2 DEF InstallTabs
  <2>3. /\ stop' \in [Screens -> BOOLEAN] /\ calls' \subseteq Calls
        /\ \A k \in calls' : k \in before \/ k.phase = "sent"
    BY <2>1, <2>2 DEF Disappear, TypeOK
  <2> QED
    BY <2>3 DEF InstallTabs, UserOf, TypeOK
<1> QED
  BY <1>1, <1>2

LEMMA FormGoneTypes ==
  ASSUME TypeOK
  PROVE  FormGone \subseteq Calls
BY FormGoneCall DEF TypeOK

LEMMA PollTypes ==
  ASSUME TypeOK, NEW c \in Screens, Poll(c), UNCHANGED budgets
  PROVE  TypeOK'
<1> touches' \in 0 .. MaxTouches /\ lost' \in 0 .. MaxLost
  BY DEF TypeOK, budgets
<1>1. CASE PollTest(c)
  BY <1>1 DEF PollTest, TypeOK, server, device, window, history
<1>2. CASE PollUser(c)
  <2>1. CASE EndProcess({"poll"})
    BY <2>1, EndProcessTypes
  <2>2. CASE current # Nobody /\ ~EndProcess({"poll"})
    <3>1. Call("reload", current) \in Calls
      BY <2>2, NewCall DEF TypeOK
    <3>2. calls' \subseteq Calls /\ pc' \in [Screens -> {"new", "test", "user", "exit", "enter",
                                                         "delete", "done"}]
      BY <1>2, <2>2, <3>1 DEF PollUser, PollReloads, TypeOK
    <3> QED
      BY <1>2, <2>2, <3>2 DEF PollUser, TypeOK, server, device, window, history
  <2> QED
    BY <1>2, <2>1, <2>2 DEF PollUser
<1>3. CASE PollExit(c)
  BY <1>3 DEF PollExit, TypeOK, server, device, window, history
<1>4. CASE PollDelete(c)
  <2>1. calls' \subseteq Calls
    BY <1>4, DeleteCalls DEF PollDelete, TypeOK
  <2> QED
    BY <1>4, <2>1 DEF PollDelete, TypeOK, server, device, window, history
<1>5. CASE PollEnter(c)
  <2>1. /\ root' = "tabs" /\ top' = "entrance" /\ screen' = NoScreen
        /\ dbUser' \in Accounts \cup {Nobody, "unmade"}
        /\ stop' \in [Screens -> BOOLEAN] /\ calls' \subseteq Calls
    BY <1>5, FormGoneTypes, InstallTabsTypes DEF PollEnter, TypeOK
  <2> QED
    BY <1>5, <2>1 DEF PollEnter, TypeOK, server, history
<1> QED
  BY <1>1, <1>2, <1>3, <1>4, <1>5 DEF Poll

LEMMA UserTypes ==
  ASSUME TypeOK, User
  PROVE  TypeOK'
<1> touches' \in 0 .. MaxTouches /\ lost' \in 0 .. MaxLost
  BY AccountsAssumption DEF User, TypeOK
<1>1. CASE OpenRegistration
  BY <1>1 DEF OpenRegistration, TypeOK, server, device, thread
<1>2. CASE LeaveRegistration
  BY <1>2, FormGoneTypes DEF LeaveRegistration, TypeOK, server, device, thread, history
<1>3. CASE confirmEmail
  <2>1. CASE EndProcess({"confirm"})
    BY <2>1, EndProcessTypes
  <2>2. CASE current # Nobody /\ ~EndProcess({"confirm"})
    <3>1. CallFrom("confirm", current, screen) \in Calls
      BY <2>2, NewCall DEF TypeOK
    <3> QED
      BY <1>3, <2>2, <3>1 DEF confirmEmail, TypeOK, server, device, window, thread, history
  <2> QED
    BY <1>3, <2>1, <2>2 DEF confirmEmail
<1>4. CASE resendVerificationEmail \/ Kill
  BY <1>4, EndProcessTypes DEF resendVerificationEmail, Kill
<1>5. CASE logOut
  BY <1>5 DEF logOut, TypeOK, server, thread, history
<1>6. ASSUME NEW a \in Accounts, Register(a) \/ SignIn(a)
      PROVE  TypeOK'
  <2>1. CallFrom("create", a, "form") \in Calls /\ Call("signIn", a) \in Calls
    BY NewCall
  <2> QED
    BY <1>6, <2>1 DEF Register, SignIn, TypeOK, server, device, window, thread, history
<1>7. ASSUME NEW a \in Accounts, FollowLink(a)
      PROVE  TypeOK'
  BY <1>7 DEF FollowLink, TypeOK, device, window, thread, history
<1>8. ASSUME NEW b \in BOOLEAN, LeaveConfirmation(b)
      PROVE  TypeOK'
  <2>1. deleteUser(screen, current) \subseteq Calls
    BY DeleteCalls DEF TypeOK
  <2>2. calls' \subseteq Calls /\ stop' \in [Screens -> BOOLEAN]
    BY <1>8, <2>1 DEF LeaveConfirmation, Disappear, TypeOK
  <2> QED
    BY <1>8, <2>2 DEF LeaveConfirmation, TypeOK, server, device
<1> QED
  BY <1>1, <1>2, <1>3, <1>4, <1>5, <1>6, <1>7, <1>8 DEF User

LEMMA CallTypes ==
  ASSUME TypeOK, NEW k \in calls, Serve(k) \/ Refuse(k) \/ Lose(k) \/ Complete(k),
         touches' \in 0 .. MaxTouches, lost' \in 0 .. MaxLost
  PROVE  TypeOK'
<1>0. k \in Calls /\ k.account \in Accounts
  BY CallFields DEF TypeOK
<1>1. \A phase \in {"sent", "failed", "done", "verified"} : Answered(k, phase) \subseteq Calls
  <2> TAKE phase \in {"sent", "failed", "done", "verified"}
  <2>1. [k EXCEPT !.phase = phase] \in Calls
    BY <1>0, AnsweredCall
  <2> QED
    BY <2>1 DEF Answered, TypeOK
<1>2. CASE Serve(k) \/ Lose(k)
  <2>1. status' \in [Accounts -> {"none", "live", "deleted"}] /\ calls' \subseteq Calls
    BY <1>0, <1>1, <1>2 DEF Serve, Lose, Execute, TypeOK
  <2> QED
    BY <1>2, <2>1 DEF Serve, Lose, TypeOK, device, window, thread, history
<1>3. CASE Refuse(k)
  BY <1>1, <1>3 DEF Refuse, TypeOK, server, device, window, thread, history
<1>4. CASE Failed(k)
  BY <1>4 DEF Failed, TypeOK, server, device, window, thread, history
<1>5. CASE Created(k)
  <2>1. /\ pc' \in [Screens -> {"new", "test", "user", "exit", "enter", "delete", "done"}]
        /\ top' \in {"entrance", "registration", "confirm"} /\ screen' \in Screens \cup {NoScreen}
    BY <1>5 DEF Created, TypeOK
  <2> QED
    BY <1>0, <1>5, <2>1 DEF Created, Known, TypeOK, server, history
<1>6. CASE SignedIn(k)
  <2>1. FormGone \ {k} \in SUBSET Calls
    BY FormGoneTypes
  <2>2. /\ root' = "tabs" /\ top' = "entrance" /\ screen' = NoScreen
        /\ dbUser' \in Accounts \cup {Nobody, "unmade"}
        /\ stop' \in [Screens -> BOOLEAN] /\ calls' \subseteq Calls
    BY <1>0, <1>6, <2>1, InstallTabsTypes DEF SignedIn
  <2> QED
    BY <1>0, <1>6, <2>2 DEF SignedIn, Known, TypeOK, server, history
<1>7. CASE Reloaded(k) \/ ConfirmReloaded(k)
  <2>1. /\ seen' \in [Accounts -> BOOLEAN] /\ calls' \subseteq Calls
        /\ UNCHANGED <<server, current, dbUser, up, window, stop, pc, history>>
    BY <1>0, <1>7 DEF Reloaded, ConfirmReloaded, Known, TypeOK, thread
  <2>2. going' \in [Screens -> BOOLEAN]
    <3>1. CASE Reloaded(k)
      BY <3>1 DEF Reloaded, thread, TypeOK
    <3>2. CASE ConfirmReloaded(k)
      <4>1. going' = [going EXCEPT ![k.screen] = going[k.screen] \/ k.phase = "verified"]
        BY <3>2 DEF ConfirmReloaded
      <4>2. \A c \in Screens :
              going'[c] = IF c = k.screen THEN going[c] \/ k.phase = "verified" ELSE going[c]
        BY <4>1 DEF TypeOK
      <4>3. going' = [c \in Screens |-> going'[c]]
        BY <4>1 DEF TypeOK
      <4>4. \A c \in Screens : going'[c] \in BOOLEAN
        BY <4>2 DEF TypeOK
      <4> QED
        BY <4>3, <4>4
    <3> QED
      BY <1>7, <3>1, <3>2
  <2> QED
    BY <2>1, <2>2 DEF TypeOK, server, window, history
<1>8. CASE Deleted(k)
  BY <1>8 DEF Deleted, TypeOK, server, window, thread, history
<1> QED
  BY <1>2, <1>3, <1>4, <1>5, <1>6, <1>7, <1>8 DEF Complete

LEMMA TypesStep == TypeOK /\ [Next]_vars => TypeOK'
<1> SUFFICES ASSUME TypeOK, [Next]_vars PROVE TypeOK'
  OBVIOUS
<1>1. CASE System
  <2> touches' \in 0 .. MaxTouches /\ lost' \in 0 .. MaxLost
    BY <1>1 DEF System, budgets, TypeOK
  <2>1. CASE Launch
    BY <1>1, <2>1 DEF Launch, UserOf, TypeOK, System, server, thread, history, budgets
  <2> QED
    BY <1>1, <2>1, PollTypes, CallTypes DEF System
<1>2. CASE Fault
  <2>1. touches' \in 0 .. MaxTouches /\ lost' \in 0 .. MaxLost
    BY <1>2, AccountsAssumption DEF Fault, TypeOK
  <2> QED
    BY <1>2, <2>1, CallTypes DEF Fault
<1>3. CASE UNCHANGED vars
  BY <1>3 DEF vars, TypeOK
<1> QED
  BY <1>1, <1>2, <1>3, UserTypes DEF Next

LEMMA TypesInit == Init => TypeOK
<1> SUFFICES ASSUME Init PROVE TypeOK
  OBVIOUS
<1>1. 0 \in 0 .. MaxTouches /\ 0 \in 0 .. MaxLost
  BY AccountsAssumption
<1>2. /\ Idle \in [Screens -> BOOLEAN]
      /\ Unborn \in [Screens -> {"new", "test", "user", "exit", "enter", "delete", "done"}]
  BY DEF Idle, Unborn
<1>3. /\ status \in [Accounts -> {"none", "live", "deleted"}]
      /\ verified \in [Accounts -> BOOLEAN] /\ seen \in [Accounts -> BOOLEAN]
  BY DEF Init
<1> QED
  BY <1>1, <1>2, <1>3 DEF Init, TypeOK

-----------------------------------------------------------------------------
(***************************************************************************)
(* What survives the end of the process, and what the device believes.     *)
(***************************************************************************)
LEMMA EndedStep ==
  ASSUME TypeOK, EndedIsEmpty, [Next]_vars
  PROVE  EndedIsEmpty'
<1>0. ASSUME ~up PROVE ~\E c \in Screens : Poll(c)
  BY <1>0 DEF EndedIsEmpty, Poll, PollTest, PollUser, PollExit, PollDelete, PollEnter, Unborn
<1>1. CASE User
  <2>1. UNCHANGED <<up, calls, top, pc>> \/ up \/ up'
    BY <1>1 DEF User, OpenRegistration, LeaveRegistration, confirmEmail, resendVerificationEmail,
                logOut, Kill, Register, SignIn, FollowLink, LeaveConfirmation, AtEntrance,
                window, thread
  <2>2. UNCHANGED up \/ \E sites : EndProcess(sites)
    BY <1>1 DEF User, OpenRegistration, LeaveRegistration, confirmEmail, resendVerificationEmail,
                logOut, Kill, Register, SignIn, FollowLink, LeaveConfirmation
  <2> QED
    BY <2>1, <2>2 DEF EndedIsEmpty, EndProcess
<1>2. CASE System \/ Fault
  <2>1. CASE Launch
    BY <2>1 DEF Launch, EndedIsEmpty
  <2>2. ASSUME NEW c \in Screens, Poll(c) PROVE EndedIsEmpty'
    <3>1. up
      BY <1>0, <2>2
    <3>2. UNCHANGED up \/ EndProcess({"poll"})
      BY <2>2 DEF Poll, PollTest, PollUser, PollExit, PollDelete, PollEnter
    <3> QED
      BY <3>1, <3>2 DEF EndedIsEmpty, EndProcess
  <2>3. ASSUME NEW k \in calls, Serve(k) \/ Refuse(k) \/ Lose(k) \/ Complete(k)
        PROVE  EndedIsEmpty'
    <3>1. up /\ UNCHANGED up
      BY <2>3 DEF EndedIsEmpty, Serve, Refuse, Lose, Complete, Failed, Created, SignedIn,
                  Reloaded, ConfirmReloaded, Deleted
    <3> QED
      BY <3>1 DEF EndedIsEmpty
  <2> QED
    BY <1>2, <2>1, <2>2, <2>3 DEF System, Fault
<1>3. CASE UNCHANGED vars
  BY <1>3 DEF vars, EndedIsEmpty
<1> QED
  BY <1>1, <1>2, <1>3 DEF Next

(* A step that tells the device nothing new. *)
LEMMA SeenKept ==
  ASSUME SeenSound, UNCHANGED seen, \A a \in Accounts : verified[a] => verified'[a],
         \A k \in calls' : k.phase = "verified" =>
           \E j \in calls : j.phase = "verified" /\ j.account = k.account,
         calls \subseteq Calls
  PROVE  SeenSound'
BY CallFields DEF SeenSound

LEMMA SeenFormGone ==
  ASSUME TypeOK
  PROVE  \A k \in FormGone : \E j \in calls : j.phase = k.phase /\ j.account = k.account
BY FormGoneCall DEF TypeOK

LEMMA SeenPoll ==
  ASSUME TypeOK, SeenSound, NEW c \in Screens, Poll(c)
  PROVE  SeenSound'
<1> calls \subseteq Calls
  BY DEF TypeOK
<1>1. UNCHANGED <<verified, seen>>
  BY DEF Poll, PollTest, PollUser, PollExit, PollDelete, PollEnter, EndProcess, server, device
<1>2. CASE PollTest(c) \/ PollExit(c)
  BY <1>1, <1>2, SeenKept DEF PollTest, PollExit
<1>3. CASE PollUser(c)
  <2>1. CASE calls' = {}
    BY <1>1, <2>1, SeenKept
  <2>2. CASE calls' = calls
    BY <1>1, <2>2, SeenKept
  <2>3. CASE current # Nobody /\ calls' = calls \cup PollReloads
    <3>1. Call("reload", current).phase = "sent"
      BY <2>3, NewCall DEF TypeOK
    <3> QED
      BY <1>1, <2>3, <3>1, SeenKept DEF PollReloads
  <2> QED
    BY <1>3, <2>1, <2>2, <2>3 DEF PollUser, EndProcess
<1>4. CASE PollDelete(c)
  <2>1. \A k \in deleteUser(c, current) : k.phase = "sent"
    BY DeleteCalls DEF TypeOK
  <2>2. calls' = calls \cup deleteUser(c, current)
    BY <1>4 DEF PollDelete
  <2> QED
    BY <1>1, <2>1, <2>2, SeenKept
<1>5. CASE PollEnter(c)
  <2>1. \A k \in calls' : k \in FormGone \/ k.phase = "sent"
    BY <1>5, FormGoneTypes, InstallTabsTypes DEF PollEnter, TypeOK
  <2> QED
    BY <1>1, <2>1, SeenFormGone, SeenKept
<1> QED
  BY <1>2, <1>3, <1>4, <1>5 DEF Poll

LEMMA SeenUser ==
  ASSUME TypeOK, SeenSound, User
  PROVE  SeenSound'
<1> calls \subseteq Calls /\ current \in Accounts \cup {Nobody}
    /\ screen \in Screens \cup {NoScreen} /\ verified \in [Accounts -> BOOLEAN]
  BY DEF TypeOK
<1>1. CASE OpenRegistration \/ logOut
  BY <1>1, SeenKept DEF OpenRegistration, logOut, server, device
<1>2. CASE LeaveRegistration
  BY <1>2, SeenFormGone, SeenKept DEF LeaveRegistration, server, device
<1>3. ASSUME NEW sites, EndProcess(sites) PROVE SeenSound'
  BY <1>3, SeenKept DEF EndProcess, server
<1>4. CASE confirmEmail /\ current # Nobody /\ UNCHANGED <<server, device>>
  <2>1. CallFrom("confirm", current, screen).phase = "sent"
    BY <1>4, NewCall
  <2>2. calls' = calls \cup {CallFrom("confirm", current, screen)} \/ calls' = {}
    BY <1>4 DEF confirmEmail, EndProcess
  <2> QED
    BY <1>4, <2>1, <2>2, SeenKept DEF server, device
<1>5. ASSUME NEW a \in Accounts, Register(a) \/ SignIn(a) PROVE SeenSound'
  <2>1. CallFrom("create", a, "form").phase = "sent" /\ Call("signIn", a).phase = "sent"
    BY NewCall
  <2> QED
    BY <1>5, <2>1, SeenKept DEF Register, SignIn, server, device
<1>6. ASSUME NEW a \in Accounts, FollowLink(a) PROVE SeenSound'
  <2>1. verified' = [verified EXCEPT ![a] = TRUE] /\ UNCHANGED <<seen, calls>>
    BY <1>6 DEF FollowLink, device
  <2>2. \A b \in Accounts : verified[b] => verified'[b]
    BY <2>1
  <2> QED
    BY <2>1, <2>2, SeenKept
<1>7. ASSUME NEW b \in BOOLEAN, LeaveConfirmation(b) PROVE SeenSound'
  <2>1. \A k \in deleteUser(screen, current) : k.phase = "sent"
    BY DeleteCalls
  <2>2. calls' \subseteq calls \cup deleteUser(screen, current) /\ UNCHANGED <<verified, seen>>
    BY <1>7 DEF LeaveConfirmation, Disappear, server, device
  <2> QED
    BY <2>1, <2>2, SeenKept
<1> QED
  BY <1>1, <1>2, <1>3, <1>4, <1>5, <1>6, <1>7
     DEF User, confirmEmail, resendVerificationEmail, Kill

LEMMA SeenCall ==
  ASSUME TypeOK, SeenSound, NEW k \in calls, Serve(k) \/ Refuse(k) \/ Lose(k) \/ Complete(k)
  PROVE  SeenSound'
<1> calls \subseteq Calls /\ k \in Calls /\ k.account \in Accounts /\ UNCHANGED verified
  BY CallFields DEF TypeOK, Serve, Refuse, Lose, Complete, Failed, Created, SignedIn, Reloaded,
                    ConfirmReloaded, Deleted, server
<1>1. ASSUME NEW phase \in {"failed", "done", "verified"}, calls' = Answered(k, phase),
             phase = "verified" => verified[k.account], UNCHANGED seen
      PROVE  SeenSound'
  <2>1. [k EXCEPT !.phase = phase].account = k.account /\ [k EXCEPT !.phase = phase].phase = phase
    BY AnsweredCall
  <2> QED
    BY <1>1, <2>1 DEF Answered, SeenSound
<1>2. CASE Serve(k) \/ Refuse(k) \/ Lose(k)
  BY <1>1, <1>2 DEF Serve, Refuse, Lose, server, device
<1>3. CASE Failed(k) \/ Deleted(k)
  BY <1>3, SeenKept DEF Failed, Deleted, server, device
<1>4. ASSUME Known(k), \A j \in calls' : j.phase = "sent" \/
               \E i \in calls : i.phase = j.phase /\ i.account = j.account
      PROVE  SeenSound'
  <2>1. \A a \in Accounts : seen'[a] => verified[a]
    BY <1>4 DEF Known, SeenSound, TypeOK
  <2>2. \A j \in calls' : j.phase = "verified" => verified[j.account]
    BY <1>4 DEF SeenSound
  <2> QED
    BY <2>1, <2>2 DEF SeenSound
<1>5. CASE Created(k) \/ Reloaded(k) \/ ConfirmReloaded(k)
  BY <1>4, <1>5 DEF Created, Reloaded, ConfirmReloaded
<1>6. CASE SignedIn(k)
  <2>1. FormGone \ {k} \in SUBSET Calls
    BY FormGoneTypes
  <2>2. \A j \in calls' : j \in FormGone \/ j.phase = "sent"
    BY <1>6, <2>1, InstallTabsTypes DEF SignedIn
  <2> QED
    BY <1>4, <1>6, <2>2, SeenFormGone DEF SignedIn
<1> QED
  BY <1>2, <1>3, <1>5, <1>6 DEF Complete

LEMMA SeenStep ==
  ASSUME TypeOK, SeenSound, [Next]_vars
  PROVE  SeenSound'
<1>1. CASE Launch
  BY <1>1, SeenKept DEF Launch, server, TypeOK
<1>2. CASE UNCHANGED vars
  BY <1>2 DEF vars, SeenSound
<1> QED
  BY <1>1, <1>2, SeenUser, SeenPoll, SeenCall DEF Next, System, Fault

-----------------------------------------------------------------------------
(***************************************************************************)
(* The patient user: one lemma for what each kind of step does to calls.   *)
(***************************************************************************)
LEMMA CallsFewer ==
  ASSUME PatientCalls, calls' \subseteq calls, UNCHANGED top
  PROVE  PatientCalls'
BY DEF PatientCalls, PatientCall

LEMMA CallsFormGone ==
  ASSUME TypeOK, PatientCalls, calls' \subseteq FormGone, top' = "entrance"
  PROVE  PatientCalls'
<1> DEFINE image(k) == IF k.screen = "form" THEN [k EXCEPT !.screen = NoScreen] ELSE k
<1>1. \A j \in calls' : /\ j.screen # "form"
                        /\ \E k \in calls : j = image(k) /\ j.kind = k.kind
  BY FormGoneCall DEF TypeOK
<1> HIDE DEF image
<1>2. \A j \in calls' : PatientCall(j)'
  BY <1>1 DEF PatientCalls, PatientCall
<1>3. \A i, j \in calls' : i.kind = "create" /\ j.kind = "create" => i = j
  BY <1>1 DEF PatientCalls
<1> QED
  BY <1>2, <1>3 DEF PatientCalls

LEMMA CallsAnswered ==
  ASSUME TypeOK, PatientCalls, NEW k \in calls,
         NEW phase \in {"sent", "failed", "done", "verified"}, calls' = Answered(k, phase),
         UNCHANGED top
  PROVE  PatientCalls'
<1> DEFINE j == [k EXCEPT !.phase = phase]
<1>1. j.kind = k.kind /\ j.screen = k.screen
  BY AnsweredCall DEF TypeOK
<1>2. calls' = (calls \ {k}) \cup {j}
  BY DEF Answered
<1> HIDE DEF j
<1>3. \A i \in calls' : PatientCall(i)'
  BY <1>1, <1>2 DEF PatientCalls, PatientCall
<1>4. \A i, l \in calls' : i.kind = "create" /\ l.kind = "create" => i = l
  BY <1>1, <1>2 DEF PatientCalls
<1> QED
  BY <1>3, <1>4 DEF PatientCalls

LEMMA CallsMore ==
  ASSUME PatientCalls, NEW k, calls' = calls \cup {k}, UNCHANGED top,
         k.kind \in {"reload", "confirm"}, k.screen # "form"
  PROVE  PatientCalls'
<1>1. \A i \in calls' : PatientCall(i)'
  BY DEF PatientCalls, PatientCall
<1>2. \A i, l \in calls' : i.kind = "create" /\ l.kind = "create" => i = l
  BY DEF PatientCalls
<1> QED
  BY <1>1, <1>2 DEF PatientCalls

(* The tab bar replaces the entrance: the confirmation screen, if there is *)
(* one, disappears for the first time and deletes nothing.                 *)
LEMMA TabsInstalled ==
  ASSUME TypeOK, PatientState, NEW u, NEW before \in SUBSET FormGone, InstallTabs(u, before)
  PROVE  /\ PatientCalls' /\ PatientScreen' /\ top' = "entrance"
         /\ \A d \in Screens : d # screen => stop'[d] = stop[d]
<1>1. /\ calls' \subseteq before /\ root' = "tabs" /\ top' = "entrance" /\ screen' = NoScreen
      /\ \A d \in Screens : d # screen => stop'[d] = stop[d]
  <2>1. CASE screen = NoScreen
    BY <2>1 DEF InstallTabs
  <2>2. CASE screen # NoScreen
    <3>1. ~stop[screen]
      BY <2>2 DEF PatientState, PatientScreen
    <3> QED
      BY <2>2, <3>1 DEF InstallTabs, Disappear, TypeOK
  <2> QED
    BY <2>1, <2>2
<1>2. PatientCalls'
  BY <1>1, CallsFormGone DEF PatientState
<1> QED
  BY <1>1, <1>2 DEF PatientScreen

LEMMA EndProcessPatient ==
  ASSUME PatientState, EndProcess({})
  PROVE  PatientState'
<1>1. /\ calls' = {} /\ top' = "entrance" /\ screen' = NoScreen /\ pc' = Unborn /\ stop' = Idle
      /\ trapped' = trapped /\ status' = status
  BY DEF EndProcess, server
<1> QED
  BY <1>1 DEF PatientState, PatientCalls, PatientScreen, PatientThread, PatientData, Unborn, Idle, Polling

(* The thread of a patient user's screen runs on, with its user signed in. *)
LEMMA PollPatient ==
  ASSUME TypeOK, SeenSound, PatientState, NEW c \in Screens, Poll(c)
  PROVE  PatientState'
<1>0. pc[c] \in Polling /\ screen = c /\ top = "confirm" /\ ~stop[c] /\ current # Nobody
      /\ current \in Accounts /\ pc \in [Screens -> {"new", "test", "user", "exit", "enter",
                                                     "delete", "done"}]
  <2>1. pc[c] \in Polling
    BY DEF Poll, PollTest, PollUser, PollExit, PollDelete, PollEnter, Polling,
           PatientState, PatientThread
  <2>2. screen = c /\ screen # NoScreen
    BY <2>1, AccountsAssumption DEF PatientState, PatientThread
  <2> QED
    BY <2>1, <2>2 DEF PatientState, PatientScreen, TypeOK
<1>1. CASE PollTest(c)
  <2>1. /\ pc' = [pc EXCEPT ![c] = "user"]
        /\ UNCHANGED <<calls, top, root, screen, stop, current, verified, trapped, status>>
    BY <1>0, <1>1 DEF PollTest, server, device, window, history
  <2>2. PatientThread'
    BY <1>0, <2>1 DEF PatientState, PatientThread, Polling
  <2>3. PatientCalls'
    BY <2>1, CallsFewer DEF PatientState
  <2> QED
    BY <2>1, <2>2, <2>3 DEF PatientState, PatientScreen, PatientData
<1>2. CASE PollUser(c)
  <2>1. /\ UNCHANGED <<top, root, screen, stop, current, verified, trapped, status>>
        /\ \/ seen[current] /\ pc' = [pc EXCEPT ![c] = "exit"] /\ calls' = calls
           \/ pc' = [pc EXCEPT ![c] = "test"] /\ calls' = calls \cup {Call("reload", current)}
    BY <1>0, <1>2 DEF PollUser, PollReloads, server, device, window, history
  <2>2. PatientThread'
    BY <1>0, <2>1 DEF PatientState, PatientThread, Polling, SeenSound
  <2>3. Call("reload", current).kind = "reload" /\ Call("reload", current).screen # "form"
    BY <1>0, NewCall, AccountsAssumption
  <2>4. PatientCalls'
    BY <2>1, <2>3, CallsFewer, CallsMore DEF PatientState
  <2> QED
    BY <2>1, <2>2, <2>4 DEF PatientState, PatientScreen, PatientData
<1>3. CASE PollExit(c)
  <2>1. /\ pc' = [pc EXCEPT ![c] = "enter"] /\ pc[c] = "exit"
        /\ UNCHANGED <<calls, top, root, screen, stop, current, verified, trapped, status>>
    BY <1>0, <1>3 DEF PollExit, server, device, window, history
  <2>2. PatientThread'
    BY <1>0, <2>1 DEF PatientState, PatientThread, Polling
  <2>3. PatientCalls'
    BY <2>1, CallsFewer DEF PatientState
  <2> QED
    BY <2>1, <2>2, <2>3 DEF PatientState, PatientScreen, PatientData
<1>4. CASE PollDelete(c)
  BY <1>4 DEF PollDelete, PatientState, PatientThread
<1>5. CASE PollEnter(c)
  <2>1. /\ pc' = [pc EXCEPT ![c] = "done"] /\ InstallTabs(current, FormGone)
        /\ UNCHANGED <<current, verified, trapped, status>>
    BY <1>5 DEF PollEnter, server, history
  <2>2. /\ PatientCalls' /\ PatientScreen' /\ top' = "entrance"
        /\ \A d \in Screens : d # c => stop'[d] = stop[d]
    BY <1>0, <2>1, TabsInstalled
  <2>3. PatientThread'
    <3>1. ASSUME NEW d \in Screens, d # c PROVE pc[d] \notin Polling
      BY <1>0, <3>1 DEF PatientState, PatientThread
    <3> QED
      BY <1>0, <2>1, <2>2, <3>1 DEF PatientState, PatientThread, Polling
  <2> QED
    BY <2>1, <2>2, <2>3 DEF PatientState, PatientData
<1> QED
  BY <1>1, <1>2, <1>3, <1>4, <1>5 DEF Poll

(* No screen polls unless the confirmation screen is on top. *)
LEMMA OnlyConfirmPolls ==
  ASSUME PatientState, top # "confirm"
  PROVE  screen = NoScreen /\ \A c \in Screens : pc[c] \notin Polling
BY AccountsAssumption DEF PatientState, PatientScreen, PatientThread

LEMMA UserPatient ==
  ASSUME TypeOK, SeenSound, PatientState, User, ~wandered'
  PROVE  PatientState'
<1> current \in Accounts \cup {Nobody} /\ screen \in Screens \cup {NoScreen}
    /\ verified \in [Accounts -> BOOLEAN]
  BY DEF TypeOK
<1>1. CASE OpenRegistration
  <2>1. /\ top = "entrance" /\ root = "entrance" /\ top' = "registration"
        /\ \A k \in calls : k.kind # "signIn"
        /\ UNCHANGED <<calls, root, screen, stop, pc, current, verified, trapped, status>>
    BY <1>1 DEF OpenRegistration, AtEntrance, server, device, thread
  <2>2. screen = NoScreen /\ \A c \in Screens : pc[c] \notin Polling
    BY <2>1, OnlyConfirmPolls
  <2>3. PatientCalls'
    BY <2>1 DEF PatientState, PatientCalls, PatientCall
  <2> QED
    BY <2>1, <2>2, <2>3 DEF PatientState, PatientScreen, PatientThread, PatientData, Polling
<1>2. CASE LeaveRegistration
  <2>1. /\ top = "registration" /\ top' = "entrance" /\ calls' = FormGone
        /\ UNCHANGED <<root, screen, stop, pc, current, verified, trapped, status>>
    BY <1>2 DEF LeaveRegistration, server, device, thread, history
  <2>2. screen = NoScreen /\ \A c \in Screens : pc[c] \notin Polling
    BY <2>1, OnlyConfirmPolls
  <2>3. PatientCalls'
    BY <2>1, CallsFormGone DEF PatientState
  <2> QED
    BY <2>1, <2>2, <2>3 DEF PatientState, PatientScreen, PatientThread, PatientData, Polling
<1>3. CASE confirmEmail \/ resendVerificationEmail
  <2>1. top = "confirm" /\ current # Nobody /\ screen \in Screens
    BY <1>3 DEF confirmEmail, resendVerificationEmail, PatientState, PatientScreen
  <2>2. /\ calls' = calls \cup {CallFrom("confirm", current, screen)}
        /\ UNCHANGED <<top, root, screen, stop, pc, current, verified, trapped, status>>
    BY <1>3, <2>1 DEF confirmEmail, resendVerificationEmail, server, device, window, thread, history
  <2>3. CallFrom("confirm", current, screen).kind = "confirm"
        /\ CallFrom("confirm", current, screen).screen # "form"
    BY <2>1, NewCall, AccountsAssumption
  <2>4. PatientCalls'
    BY <2>2, <2>3, CallsMore DEF PatientState
  <2> QED
    BY <2>2, <2>4 DEF PatientState, PatientScreen, PatientThread, PatientData, Polling
<1>4. CASE Kill
  BY <1>4, EndProcessPatient DEF Kill
<1>5. CASE logOut
  <2>1. /\ top = "entrance" /\ root' = "entrance"
        /\ UNCHANGED <<calls, top, screen, stop, pc, verified, trapped, status>>
    BY <1>5 DEF logOut, PatientState, PatientScreen, server, thread, history
  <2>2. screen = NoScreen /\ \A c \in Screens : pc[c] \notin Polling
    BY <2>1, OnlyConfirmPolls
  <2>3. PatientCalls'
    BY <2>1, CallsFewer DEF PatientState
  <2> QED
    BY <2>1, <2>2, <2>3 DEF PatientState, PatientScreen, PatientThread, PatientData, Polling
<1>6. ASSUME NEW a \in Accounts, Register(a) PROVE PatientState'
  <2> DEFINE k == CallFrom("create", a, "form")
  <2>1. /\ top = "registration" /\ calls' = calls \cup {k} /\ \A j \in calls : j.kind # "create"
        /\ UNCHANGED <<top, root, screen, stop, pc, current, verified, trapped, status>>
    BY <1>6 DEF Register, server, device, window, thread, history
  <2>2. k.kind = "create" /\ k.screen = "form"
    BY NewCall
  <2> HIDE DEF k
  <2>3. PatientCalls'
    BY <2>1, <2>2 DEF PatientState, PatientCalls, PatientCall
  <2> QED
    BY <2>1, <2>3 DEF PatientState, PatientScreen, PatientThread, PatientData, Polling
<1>7. ASSUME NEW a \in Accounts, SignIn(a) PROVE PatientState'
  <2> DEFINE k == Call("signIn", a)
  <2>1. /\ top = "entrance" /\ calls' = calls \cup {k}
        /\ UNCHANGED <<top, root, screen, stop, pc, current, verified, trapped, status>>
    BY <1>7 DEF SignIn, server, device, window, thread, history
  <2>2. k.kind = "signIn" /\ k.screen # "form"
    BY NewCall, AccountsAssumption
  <2> HIDE DEF k
  <2>3. PatientCalls'
    BY <2>1, <2>2 DEF PatientState, PatientCalls, PatientCall
  <2> QED
    BY <2>1, <2>3 DEF PatientState, PatientScreen, PatientThread, PatientData, Polling
<1>8. ASSUME NEW a \in Accounts, FollowLink(a) PROVE PatientState'
  <2>1. /\ verified' = [verified EXCEPT ![a] = TRUE]
        /\ UNCHANGED <<calls, top, root, screen, stop, pc, current, trapped, status>>
    BY <1>8 DEF FollowLink, device, window, thread, history
  <2>2. verified[current] => verified'[current]
    BY <2>1, AccountsAssumption
  <2>3. PatientCalls'
    BY <2>1, CallsFewer DEF PatientState
  <2> QED
    BY <2>1, <2>2, <2>3 DEF PatientState, PatientScreen, PatientThread, PatientData, Polling
<1>9. ASSUME NEW b \in BOOLEAN, LeaveConfirmation(b) PROVE PatientState'
  BY <1>9 DEF LeaveConfirmation
<1> QED
  BY <1>1, <1>2, <1>3, <1>4, <1>5, <1>6, <1>7, <1>8, <1>9 DEF User

LEMMA CreatedPatient ==
  ASSUME TypeOK, PatientState, NEW k \in calls, Created(k)
  PROVE  PatientState'
<1>0. /\ k.kind = "create" /\ current' = k.account /\ calls' = calls \ {k}
      /\ k.account \in Accounts /\ current' # Nobody /\ top # "confirm"
      /\ UNCHANGED <<status, verified, root, stop, trapped>>
  BY CallFields, AccountsAssumption
     DEF Created, Succeeded, TypeOK, server, history, PatientState, PatientCalls, PatientCall
<1>1. screen = NoScreen /\ \A c \in Screens : pc[c] \notin Polling
  BY <1>0, OnlyConfirmPolls
<1>2. \A j \in calls' : j.kind # "create" /\ j.screen # "form"
  BY <1>0 DEF PatientState, PatientCalls, PatientCall
<1>3. CASE k.screen = "form"
  <2>1. top = "registration" /\ root = "entrance"
    BY <1>3 DEF PatientState, PatientCalls, PatientCall, PatientScreen
  <2>2. PICK c \in Screens : /\ pc[c] = "new" /\ pc' = [pc EXCEPT ![c] = "test"]
                             /\ top' = "confirm" /\ screen' = c
    BY <1>3 DEF Created
  <2>3. PatientCalls'
    BY <1>0, <1>2, <2>1 DEF PatientState, PatientCalls, PatientCall
  <2>4. PatientThread'
    BY <1>0, <1>1, <2>2 DEF PatientState, PatientThread, Polling, TypeOK
  <2>5. PatientScreen'
    BY <1>0, <2>1, <2>2 DEF PatientState, PatientThread, PatientScreen
  <2> QED
    BY <1>0, <2>3, <2>4, <2>5 DEF PatientState, PatientData
<1>4. CASE k.screen # "form"
  <2>1. UNCHANGED <<pc, top, screen>>
    BY <1>4 DEF Created
  <2>2. PatientCalls'
    BY <1>0, <2>1, CallsFewer DEF PatientState
  <2>3. PatientThread'
    BY <1>0, <1>1, <2>1 DEF PatientState, PatientThread, Polling
  <2>4. PatientScreen'
    BY <1>0, <2>1 DEF PatientState, PatientScreen
  <2> QED
    BY <1>0, <2>2, <2>3, <2>4 DEF PatientState, PatientData
<1> QED
  BY <1>3, <1>4

LEMMA CallPatient ==
  ASSUME TypeOK, PatientState, NEW k \in calls, Serve(k) \/ Refuse(k) \/ Lose(k) \/ Complete(k)
  PROVE  PatientState'
<1>0. k \in Calls /\ k.account \in Accounts /\ k.kind # "delete"
  BY CallFields DEF TypeOK, PatientState, PatientCalls, PatientCall
<1>1. ASSUME PatientCalls', PatientData',
             UNCHANGED <<verified, top, root, screen, stop, pc, current>>
      PROVE  PatientState'
  BY <1>1 DEF PatientState, PatientScreen, PatientThread
<1>2. CASE Serve(k) \/ Refuse(k) \/ Lose(k)
  <2>1. /\ UNCHANGED <<verified, top, root, screen, stop, pc, current, trapped>>
        /\ \E phase \in {"sent", "failed", "done", "verified"} : calls' = Answered(k, phase)
        /\ UNCHANGED status \/ Execute(k)
    BY <1>2 DEF Serve, Refuse, Lose, server, device, window, thread, history
  <2>2. PatientCalls'
    BY <2>1, CallsAnswered DEF PatientState
  <2>3. PatientData'
    BY <1>0, <2>1 DEF Execute, PatientState, PatientData, TypeOK
  <2> QED
    BY <1>1, <2>1, <2>2, <2>3
<1>3. CASE Failed(k) \/ Reloaded(k) \/ ConfirmReloaded(k)
  <2>1. /\ calls' = calls \ {k}
        /\ UNCHANGED <<verified, top, root, screen, stop, pc, current, trapped, status>>
    BY <1>3 DEF Failed, Reloaded, ConfirmReloaded, server, device, window, thread, history
  <2>2. PatientCalls'
    BY <2>1, CallsFewer DEF PatientState
  <2> QED
    BY <1>1, <2>1, <2>2 DEF PatientState, PatientData
<1>4. CASE Created(k)
  BY <1>4, CreatedPatient
<1>5. CASE SignedIn(k)
  <2>1. /\ k.kind = "signIn" /\ current' = k.account /\ InstallTabs(k.account, FormGone \ {k})
        /\ UNCHANGED <<status, verified, pc, trapped>>
    BY <1>5 DEF SignedIn, Succeeded, server, history
  <2>2. top = "entrance"
    BY <2>1 DEF PatientState, PatientCalls, PatientCall
  <2>3. screen = NoScreen /\ \A c \in Screens : pc[c] \notin Polling
    BY <2>2, OnlyConfirmPolls
  <2>4. /\ PatientCalls' /\ PatientScreen' /\ top' = "entrance"
        /\ \A d \in Screens : d # screen => stop'[d] = stop[d]
    <3>1. FormGone \ {k} \in SUBSET FormGone
      OBVIOUS
    <3> QED
      BY <2>1, <3>1, TabsInstalled
  <2>5. PatientThread'
    BY <2>1, <2>3, <2>4, AccountsAssumption DEF PatientState, PatientThread, Polling
  <2> QED
    BY <2>1, <2>4, <2>5 DEF PatientState, PatientData
<1>6. CASE Deleted(k)
  BY <1>0, <1>6 DEF Deleted, Succeeded
<1> QED
  BY <1>2, <1>3, <1>4, <1>5, <1>6 DEF Complete

LEMMA PatientStep ==
  ASSUME AccountInv, [Next]_vars
  PROVE  Patient'
<1> SUFFICES ASSUME ~wandered' PROVE PatientState'
  BY DEF Patient
<1>1. ~wandered /\ TypeOK /\ SeenSound /\ EndedIsEmpty /\ PatientState
  <2>1. wandered => wandered'
    BY DEF Next, User, System, Fault, OpenRegistration, LeaveRegistration, confirmEmail,
           resendVerificationEmail, logOut, Kill, Register, SignIn, FollowLink,
           LeaveConfirmation, Launch, Poll, PollTest, PollUser, PollExit, PollDelete, PollEnter,
           Serve, Refuse, Lose, Complete, Failed, Created, SignedIn, Reloaded, ConfirmReloaded,
           Deleted, EndProcess, history, vars
  <2> QED
    BY <2>1 DEF AccountInv, Patient
<1>2. CASE Launch
  <2>1. /\ top = "entrance" /\ calls = {}
        /\ UNCHANGED <<status, verified, top, screen, stop, pc, calls, current, trapped>>
    BY <1>1, <1>2 DEF Launch, EndedIsEmpty, server, thread, history
  <2> QED
    BY <1>1, <2>1 DEF PatientState, PatientCalls, PatientScreen, PatientThread, PatientData
<1>3. CASE UNCHANGED vars
  BY <1>1, <1>3 DEF vars, PatientState, PatientCalls, PatientCall, PatientScreen, PatientThread,
                    PatientData
<1> QED
  BY <1>1, <1>2, <1>3, UserPatient, PollPatient, CallPatient DEF Next, System, Fault

LEMMA AccountInductive ==
  Spec => []AccountInv
<1>1. Init => AccountInv
  <2> SUFFICES ASSUME Init PROVE AccountInv
    OBVIOUS
  <2>1. EndedIsEmpty /\ SeenSound
    BY DEF Init, EndedIsEmpty, SeenSound
  <2>2. PatientState
    BY DEF Init, PatientState, PatientCalls, PatientScreen, PatientThread, PatientData, Polling,
           Unborn, Idle
  <2> QED
    BY <2>1, <2>2, TypesInit DEF AccountInv, Patient
<1>2. AccountInv /\ [Next]_vars => AccountInv'
  BY TypesStep, EndedStep, SeenStep, PatientStep DEF AccountInv
<1> QED
  BY <1>1, <1>2, PTL DEF Spec

(* Every variable keeps its type. *)
THEOREM AccountTypes == Spec => []TypeOK
<1>1. AccountInv => TypeOK
  BY DEF AccountInv
<1> QED
  BY <1>1, AccountInductive, PTL

(* Who never goes back from the confirmation screen keeps the account and  *)
(* meets no failed force-unwrap, wherever the process is killed and        *)
(* whichever calls are lost.                                               *)
THEOREM PatientUserIsSafe == Spec => []PatientUserKeepsAccount
<1>1. AccountInv => PatientUserKeepsAccount
  BY DEF AccountInv, Patient, PatientState, PatientData, PatientUserKeepsAccount
<1> QED
  BY <1>1, AccountInductive, PTL

(* The polling thread lets in nobody but a signed-in user whose address is *)
(* confirmed.                                                              *)
THEOREM PollingAdmits == Spec => PollingAdmitsVerified
<1> DEFINE Admits ==
      \A c \in Screens :
        pc[c] = "enter" /\ pc'[c] = "done" /\ ~wandered => current # Nobody /\ verified[current]
<1>1. AccountInv => Admits
  BY AccountsAssumption
     DEF AccountInv, Patient, PatientState, PatientScreen, PatientThread, Polling
<1>2. AccountInv /\ [Next]_vars => [Admits]_vars
  BY <1>1
<1> HIDE DEF Admits
<1>3. Spec => [][Admits]_vars
  BY <1>2, AccountInductive, PTL DEF Spec
<1> QED
  BY <1>3 DEF PollingAdmitsVerified, Admits
=============================================================================
