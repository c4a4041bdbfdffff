------------------------------- MODULE Accounts -------------------------------
(***************************************************************************)
(* Signing in to the customer application: the entrance and registration   *)
(* forms, the screen that waits for the e-mail address to be confirmed     *)
(* while a background thread polls the account, logging out, and what      *)
(* survives the end of the process.                                        *)
(*                                                                         *)
(* Firebase Auth is external: a server that keeps accounts, a current user *)
(* the device remembers across launches, and asynchronous calls that the   *)
(* server may serve, refuse or lose before their completion runs on the    *)
(* main queue.                                                             *)
(***************************************************************************)
EXTENDS Integers

CONSTANTS
  Accounts,   \* the accounts the user makes; an address registered again after
              \* its account was deleted is another account
  Nobody,     \* Auth.auth().currentUser is nil
  Screens,    \* instances of EmailConfirmationViewController in one process
  NoScreen,
  MaxTouches, \* bound: what the user does, over all launches
  MaxLost,    \* bound: calls that fail, where faults are counted
  LostCost    \* 1 to count failed calls against MaxLost, 0 to allow any number

ASSUME AccountsAssumption ==
  /\ Nobody \notin Accounts
  /\ NoScreen \notin Screens \cup {"form"} /\ "form" \notin Screens
  /\ MaxTouches \in Nat /\ MaxLost \in Nat /\ LostCost \in {0, 1}

VARIABLES
  status,     \* server: whether an account exists
  verified,   \* server: its address is confirmed
  current,    \* device: the signed-in user
  seen,       \* device: isEmailVerified of the account's user object
  dbUser,     \* FirebaseHandler.shared.user, or "unmade" before its first use
  up,         \* the process runs
  root,       \* the root view controller of the window
  top,        \* the top of the entrance's navigation stack
  screen,     \* the confirmation screen on that stack
  stop,       \* per confirmation screen: stopAnimating
  going,      \* per confirmation screen: isGoingForward of its presenter
  pc,         \* per confirmation screen: where its polling thread is
  calls,      \* calls to Auth whose completion has not run
  trapped,    \* the force-unwraps that have failed so far
  wandered,   \* history: the user has left a confirmation screen, or opened
              \* the registration form with a sign-in on its way
  touches,
  lost

server == <<status, verified>>
device == <<current, seen, dbUser>>
window == <<root, top, screen>>
thread == <<stop, going, pc>>
history == <<trapped, wandered>>
budgets == <<touches, lost>>
vars == <<status, verified, current, seen, dbUser, up, root, top, screen, stop,
          going, pc, calls, trapped, wandered, touches, lost>>

-----------------------------------------------------------------------------
(* Values *)

(* A call: "reload" is the one of the polling thread, "confirm" the one of *)
(* the button.  A creation remembers whether its form is still on screen.  *)
Calls == [kind : {"create", "signIn", "reload", "confirm", "delete"},
          account : Accounts, screen : Screens \cup {NoScreen, "form"},
          phase : {"sent", "failed", "done", "verified"}]

CallFrom(k, a, c) == [kind |-> k, account |-> a, screen |-> c, phase |-> "sent"]
Call(k, a) == CallFrom(k, a, NoScreen)

TypeOK ==
  /\ status \in [Accounts -> {"none", "live", "deleted"}]
  /\ verified \in [Accounts -> BOOLEAN]
  /\ current \in Accounts \cup {Nobody}
  /\ seen \in [Accounts -> BOOLEAN]
  /\ dbUser \in Accounts \cup {Nobody, "unmade"}
  /\ up \in BOOLEAN
  /\ root \in {"entrance", "tabs"}
  /\ top \in {"entrance", "registration", "confirm"}
  /\ screen \in Screens \cup {NoScreen}
  /\ stop \in [Screens -> BOOLEAN]
  /\ going \in [Screens -> BOOLEAN]
  /\ pc \in [Screens -> {"new", "test", "user", "exit", "enter", "delete", "done"}]
  /\ calls \subseteq Calls
  /\ trapped \subseteq {"poll", "confirm", "resend"}
  /\ wandered \in BOOLEAN
  /\ touches \in 0 .. MaxTouches
  /\ lost \in 0 .. MaxLost

Idle == [c \in Screens |-> FALSE]
Unborn == [c \in Screens |-> "new"]

(* The application is started for the first time. *)
Init ==
  /\ status = [a \in Accounts |-> "none"]
  /\ verified = [a \in Accounts |-> FALSE]
  /\ current = Nobody
  /\ seen = [a \in Accounts |-> FALSE]
  /\ dbUser = "unmade"
  /\ up = TRUE
  /\ root = "entrance" /\ top = "entrance" /\ screen = NoScreen
  /\ stop = Idle /\ going = Idle /\ pc = Unborn
  /\ calls = {}
  /\ trapped = {} /\ wandered = FALSE
  /\ touches = 0 /\ lost = 0

-----------------------------------------------------------------------------
(* The process *)

(* Killed by the system or by a failed force-unwrap.  The current user is  *)
(* kept by the device, everything else dies; calls the server has not      *)
(* served may or may not have left the device.                             *)
EndProcess(sites) ==
  /\ up' = FALSE
  /\ root' = "entrance" /\ top' = "entrance" /\ screen' = NoScreen
  /\ stop' = Idle /\ going' = Idle /\ pc' = Unborn
  /\ calls' = {}
  /\ dbUser' = "unmade"
  /\ trapped' = trapped \cup sites
  /\ UNCHANGED <<server, current, seen, wandered>>

Kill == up /\ EndProcess({})

(* FirebaseHandler.shared is made on first use, by the first screen of the *)
(* tab bar, and reads the current user once.                               *)
UserOf(u) == IF dbUser = "unmade" THEN u ELSE dbUser

(* initialViewController: a remembered user goes straight to the tab bar.  *)
Launch ==
  /\ ~up /\ up' = TRUE
  /\ IF current = Nobody
     THEN UNCHANGED <<root, dbUser>>
     ELSE root' = "tabs" /\ dbUser' = UserOf(current)
  /\ UNCHANGED <<server, current, seen, top, screen, thread, calls, history>>

-----------------------------------------------------------------------------
(* The confirmation screen *)

(* deleteUser of presenter and interactor: unless the button has confirmed *)
(* the address, delete whoever is signed in now.                           *)
deleteUser(c, u) ==
  IF going[c] \/ u = Nobody THEN {} ELSE {Call("delete", u)}

(* Mutant: the first disappearance already deletes. *)
DisappearDeletes(c, u, before) ==
  /\ stop' = [stop EXCEPT ![c] = TRUE]
  /\ calls' = before \cup deleteUser(c, u)

(* viewWillDisappear, with u signed in and the calls before outstanding:   *)
(* the first time it stops the polling thread, later it deletes the user.  *)
Disappear(c, u, before) ==
  /\ stop' = [stop EXCEPT ![c] = TRUE]
  /\ calls' = before \cup (IF stop[c] THEN deleteUser(c, u) ELSE {})

(* The navigation stack goes away; a creation on its way loses its form. *)
FormGone == {IF k.screen = "form" THEN [k EXCEPT !.screen = NoScreen] ELSE k : k \in calls}

(* Coordinator.rootVC with a new tab bar, for the signed-in user u. *)
InstallTabs(u, before) ==
  /\ root' = "tabs" /\ top' = "entrance" /\ screen' = NoScreen
  /\ dbUser' = UserOf(u)
  /\ IF screen = NoScreen THEN stop' = stop /\ calls' = before
     ELSE Disappear(screen, u, before)

(* Mutant: the loop does not look at stopAnimating. *)
PollTestIgnoresStop(c) ==
  /\ pc[c] = "test"
  /\ pc' = [pc EXCEPT ![c] = "user"]
  /\ UNCHANGED <<server, device, up, window, stop, going, calls, history>>

(* The polling thread of viewDidLoad.  Its condition reads stopAnimating   *)
(* and then force-unwraps the current user, the code after the loop reads  *)
(* stopAnimating again: other threads act between these.                   *)
PollTest(c) ==
  /\ pc[c] = "test"
  /\ pc' = [pc EXCEPT ![c] = IF stop[c] THEN "exit" ELSE "user"]
  /\ UNCHANGED <<server, device, up, window, stop, going, calls, history>>

(* Mutant: the loop never asks the server. *)
PollReloadsNothing == {}

PollReloads == {Call("reload", current)}

(* Mutant: the loop ends after the first reload, confirmed or not. *)
PollUserOnce(c) ==
  /\ pc[c] = "user" /\ current # Nobody
  /\ pc' = [pc EXCEPT ![c] = "exit"] /\ calls' = calls \cup PollReloads
  /\ UNCHANGED <<server, device, up, window, stop, going, history>>

PollUser(c) ==
  /\ pc[c] = "user"
  /\ \/ current = Nobody /\ EndProcess({"poll"})
     \/ /\ current # Nobody
        /\ IF seen[current]
           THEN pc' = [pc EXCEPT ![c] = "exit"] /\ calls' = calls
           ELSE pc' = [pc EXCEPT ![c] = "test"] /\ calls' = calls \cup PollReloads
        /\ UNCHANGED <<server, device, up, window, stop, going, history>>

PollExit(c) ==
  /\ pc[c] = "exit"
  /\ pc' = [pc EXCEPT ![c] = IF stop[c] THEN "delete" ELSE "enter"]
  /\ UNCHANGED <<server, device, up, window, stop, going, calls, history>>

PollDelete(c) ==
  /\ pc[c] = "delete"
  /\ pc' = [pc EXCEPT ![c] = "done"]
  /\ calls' = calls \cup deleteUser(c, current)
  /\ UNCHANGED <<server, device, up, window, stop, going, history>>

(* The block the thread has put on the main queue. *)
PollEnter(c) ==
  /\ pc[c] = "enter"
  /\ pc' = [pc EXCEPT ![c] = "done"]
  /\ InstallTabs(current, FormGone)
  /\ UNCHANGED <<server, current, seen, up, going, history>>

Poll(c) == PollTest(c) \/ PollUser(c) \/ PollExit(c) \/ PollDelete(c) \/ PollEnter(c)

-----------------------------------------------------------------------------
(* Touches *)

AtEntrance == up /\ root = "entrance"

OpenRegistration ==
  /\ AtEntrance /\ top = "entrance"
  /\ top' = "registration"
  /\ wandered' = (wandered \/ \E k \in calls : k.kind = "signIn")
  /\ UNCHANGED <<server, device, up, root, screen, thread, calls, trapped>>

LeaveRegistration ==
  /\ AtEntrance /\ top = "registration"
  /\ top' = "entrance"
  /\ calls' = FormGone
  /\ UNCHANGED <<server, device, up, root, screen, thread, history>>

(* checkInfoAndCreateAccount with fields that pass the validator.  One     *)
(* creation at a time: a second tap sends the same address.                *)
Register(a) ==
  /\ AtEntrance /\ top = "registration"
  /\ status[a] = "none" /\ \A k \in calls : k.kind # "create"
  /\ calls' = calls \cup {CallFrom("create", a, "form")}
  /\ UNCHANGED <<server, device, up, window, thread, history>>

(* checkInfoAndEnter with fields that pass the validator. *)
SignIn(a) ==
  /\ AtEntrance /\ top = "entrance" /\ status[a] # "none"
  /\ calls' = calls \cup {Call("signIn", a)}
  /\ UNCHANGED <<server, device, up, window, thread, history>>

(* Back from the confirmation screen, by button or swipe.  A swipe that is *)
(* given up makes the screen disappear and appear again.                   *)
LeaveConfirmation(givenUp) ==
  /\ AtEntrance /\ top = "confirm"
  /\ Disappear(screen, current, calls)
  /\ IF givenUp THEN UNCHANGED <<top, screen>>
     ELSE top' = "registration" /\ screen' = NoScreen
  /\ wandered' = TRUE
  /\ UNCHANGED <<server, device, up, root, going, pc, trapped>>

(* The button "confirm": the presenter force-unwraps the current user. *)
confirmEmail ==
  /\ AtEntrance /\ top = "confirm"
  /\ \/ current = Nobody /\ EndProcess({"confirm"})
     \/ /\ current # Nobody
        /\ calls' = calls \cup {CallFrom("confirm", current, screen)}
        /\ UNCHANGED <<server, device, up, window, thread, history>>

(* The button "send again": the interactor force-unwraps the current user. *)
resendVerificationEmail ==
  /\ AtEntrance /\ top = "confirm"
  /\ current = Nobody /\ EndProcess({"resend"})

(* The link in the letter is opened, on any device. *)
FollowLink(a) ==
  /\ status[a] = "live" /\ ~verified[a]
  /\ verified' = [verified EXCEPT ![a] = TRUE]
  /\ UNCHANGED <<status, device, up, window, thread, calls, history>>

(* The profile tab signs out and builds a new entrance. *)
logOut ==
  /\ up /\ root = "tabs"
  /\ current' = Nobody
  /\ root' = "entrance"
  /\ UNCHANGED <<server, seen, dbUser, up, top, screen, thread, calls, history>>

-----------------------------------------------------------------------------
(* Calls to Auth *)

Answered(k, phase) == (calls \ {k}) \cup {[k EXCEPT !.phase = phase]}

(* The effect of a call on the server. *)
Execute(k) ==
  status' = IF k.kind = "create" THEN [status EXCEPT ![k.account] = "live"]
            ELSE IF k.kind = "delete" THEN [status EXCEPT ![k.account] = "deleted"]
            ELSE status

Servable(k) ==
  k.phase = "sent" /\ status[k.account] = (IF k.kind = "create" THEN "none" ELSE "live")

Serve(k) ==
  /\ k \in calls /\ Servable(k)
  /\ Execute(k)
  /\ calls' = Answered(k, IF verified[k.account] THEN "verified" ELSE "done")
  /\ UNCHANGED <<verified, device, up, window, thread, history>>

(* An account that does not exist. *)
Refuse(k) ==
  /\ k \in calls /\ k.phase = "sent" /\ ~Servable(k)
  /\ calls' = Answered(k, "failed")
  /\ UNCHANGED <<server, device, up, window, thread, history>>

(* The request or its answer is lost. *)
Lose(k) ==
  /\ k \in calls /\ Servable(k)
  /\ UNCHANGED status \/ Execute(k)
  /\ calls' = Answered(k, "failed")
  /\ UNCHANGED <<verified, device, up, window, thread, history>>

(* Every completion handler only reports an error. *)
Failed(k) ==
  /\ k \in calls /\ k.phase = "failed"
  /\ calls' = calls \ {k}
  /\ UNCHANGED <<server, device, up, window, thread, history>>

Succeeded(k, kind) == k \in calls /\ k.kind = kind /\ k.phase \in {"done", "verified"}

Known(k) == seen' = [seen EXCEPT ![k.account] = (k.phase = "verified")]

(* createNewAccount: the new user is signed in and, if its form is still   *)
(* there, a confirmation screen is pushed and starts to poll.              *)
Created(k) ==
  /\ Succeeded(k, "create")
  /\ current' = k.account /\ Known(k)
  /\ calls' = calls \ {k}
  /\ IF k.screen = "form"
     THEN \E c \in Screens :
            /\ pc[c] = "new" /\ pc' = [pc EXCEPT ![c] = "test"]
            /\ top' = "confirm" /\ screen' = c
     ELSE UNCHANGED <<pc, top, screen>>
  /\ UNCHANGED <<server, dbUser, up, root, stop, going, history>>

(* signInAccount: in, whether the address is confirmed or not. *)
SignedIn(k) ==
  /\ Succeeded(k, "signIn")
  /\ current' = k.account /\ Known(k)
  /\ InstallTabs(k.account, FormGone \ {k})
  /\ UNCHANGED <<server, up, going, pc, history>>

Reloaded(k) ==
  /\ Succeeded(k, "reload")
  /\ Known(k)
  /\ calls' = calls \ {k}
  /\ UNCHANGED <<server, current, dbUser, up, window, thread, history>>

(* completeActivation or failActivation. *)
ConfirmReloaded(k) ==
  /\ Succeeded(k, "confirm")
  /\ Known(k)
  /\ calls' = calls \ {k}
  /\ going' = [going EXCEPT ![k.screen] = @ \/ k.phase = "verified"]
  /\ UNCHANGED <<server, current, dbUser, up, window, stop, pc, history>>

(* The completion of delete signs out whoever is signed in by then. *)
Deleted(k) ==
  /\ Succeeded(k, "delete")
  /\ current' = Nobody
  /\ calls' = calls \ {k}
  /\ UNCHANGED <<server, seen, dbUser, up, window, thread, history>>

Complete(k) ==
  \/ Failed(k) \/ Created(k) \/ SignedIn(k) \/ Reloaded(k) \/ ConfirmReloaded(k)
  \/ Deleted(k)

-----------------------------------------------------------------------------
(* Specification *)

User ==
  /\ touches < MaxTouches /\ touches' = touches + 1
  /\ UNCHANGED lost
  /\ \/ OpenRegistration \/ LeaveRegistration \/ confirmEmail
     \/ resendVerificationEmail \/ logOut \/ Kill
     \/ \E a \in Accounts : Register(a) \/ SignIn(a) \/ FollowLink(a)
     \/ \E b \in BOOLEAN : LeaveConfirmation(b)

System ==
  /\ UNCHANGED budgets
  /\ \/ Launch
     \/ \E c \in Screens : Poll(c)
     \/ \E k \in calls : Serve(k) \/ Refuse(k) \/ Complete(k)

Fault ==
  /\ lost < MaxLost /\ lost' = lost + LostCost
  /\ UNCHANGED touches
  /\ \E k \in calls : Lose(k)

Next == User \/ System \/ Fault

Spec == Init /\ [][Next]_vars

Unbudgeted(A) == A /\ UNCHANGED budgets

(* The polling thread is scheduled; of the calls it keeps sending, one is  *)
(* served now and then; the main queue runs completions.                   *)
Fairness ==
  /\ \A c \in Screens : WF_vars(Unbudgeted(Poll(c)))
  /\ \A a \in Accounts :
       /\ SF_vars(Unbudgeted(Serve(Call("reload", a))))
       /\ WF_vars(Unbudgeted(\E k \in calls : k.account = a /\ Reloaded(k)))
       /\ WF_vars(Unbudgeted(\E k \in calls : k.account = a /\ Failed(k)))

FairSpec == Spec /\ Fairness

-----------------------------------------------------------------------------
(* Properties *)

(* Whoever types the data, waits, follows the link and never goes back     *)
(* from the confirmation screen keeps the account and meets no failed      *)
(* force-unwrap, wherever the system kills the process.                    *)
PatientUserKeepsAccount ==
  ~wandered => /\ trapped = {}
               /\ \A a \in Accounts : status[a] # "deleted"

(* A confirmation screen whose account is confirmed lets the user in,      *)
(* unless it is left, the process ends or the account is deleted.          *)
VerifiedEnters ==
  \A c \in Screens, a \in Accounts :
    (screen = c /\ ~stop[c] /\ current = a /\ verified[a])
      ~> (root = "tabs" \/ stop[c] \/ ~up \/ status[a] = "deleted")

(* The polling thread of a screen that was left ends. *)
PollingEnds == \A c \in Screens : stop[c] ~> (pc[c] \in {"done", "new"})

(* The polling thread lets nobody in but a signed-in user whose address is *)
(* confirmed, although the tab bar is installed by a block that runs later *)
(* than the test: other ways in (a launch, signing in) do not test at all. *)
PollingAdmitsVerified ==
  [][\A c \in Screens :
       pc[c] = "enter" /\ pc'[c] = "done" /\ ~wandered
         => current # Nobody /\ verified[current]]_vars
=============================================================================
