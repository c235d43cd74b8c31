------------------------------- MODULE Notices -------------------------------
(***************************************************************************)
(* Push notifications.  The server keeps for each wallet the tokens of its *)
(* devices; the relayer tells the host of a payable of every payment, and  *)
(* takes away the tokens that Firebase does not know any more.  A second   *)
(* relayer process (a backfill) does the same at the same time, and nobody *)
(* locks the list: both sides change it by arrayUnion and arrayRemove.     *)
(*                                                                         *)
(* Firebase messaging is outside: a token it has dropped never comes back. *)
(***************************************************************************)
EXTENDS Integers

CONSTANTS
  PaidPayables,
  Hosts,
  NoHost,
  Devices,          \* tokens: one for each browser
  TokenPosts,       \* bound: POST /notifications in progress
  Notifiers         \* the relayer's processes

ASSUME NoticesAssumption == NoHost \notin Hosts

VARIABLES
  payableHost,      \* /payables/{id}.host, NoHost while there is no document
  fcmTokens,        \* /users/{wallet}.fcmTokens
  live,             \* the tokens Firebase knows
  tokenPosts,
  notifying         \* notifyPaymentReceived in progress

noticesVars == <<payableHost, fcmTokens, live, tokenPosts, notifying>>

NoTokenPost == [step |-> "none"]
NotNotifying == [host |-> NoHost, left |-> {}, dead |-> {}]

NoticesInit ==
  /\ payableHost = [p \in PaidPayables |-> NoHost]
  /\ fcmTokens = [h \in Hosts |-> {}]
  /\ live = Devices
  /\ tokenPosts = [s \in TokenPosts |-> NoTokenPost]
  /\ notifying = [j \in Notifiers |-> NotNotifying]

(* The payable's document is written (Documents).                          *)
Indexed(p, h) ==
  /\ payableHost[p] = NoHost
  /\ payableHost' = [payableHost EXCEPT ![p] = h]
  /\ UNCHANGED <<fcmTokens, live, tokenPosts, notifying>>

(* Firebase drops a token: the browser was cleared, the permission revoked.*)
Expire(d) ==
  /\ d \in live
  /\ live' = live \ {d}
  /\ UNCHANGED <<payableHost, fcmTokens, tokenPosts, notifying>>

-----------------------------------------------------------------------------
(* POST /notifications, past the middleware: the caller is wallet h.       *)
SaveNotificationToken(s, h, d) ==
  /\ tokenPosts[s] = NoTokenPost
  /\ tokenPosts' = [tokenPosts EXCEPT ![s] = [step |-> "test", wallet |-> h, token |-> d]]
  /\ UNCHANGED <<payableHost, fcmTokens, live, notifying>>

(* A dry run tells whether Firebase knows the token.                       *)
TestToken(s) ==
  /\ tokenPosts[s].step = "test"
  /\ tokenPosts' = [tokenPosts EXCEPT ![s] =
       IF tokenPosts[s].token \in live THEN [@ EXCEPT !.step = "store"] ELSE NoTokenPost]
  /\ UNCHANGED <<payableHost, fcmTokens, live, notifying>>

StoreToken(s) ==
  /\ tokenPosts[s].step = "store"
  /\ fcmTokens' = [fcmTokens EXCEPT ![tokenPosts[s].wallet] = @ \cup {tokenPosts[s].token}]
  /\ tokenPosts' = [tokenPosts EXCEPT ![s] = NoTokenPost]
  /\ UNCHANGED <<payableHost, live, notifying>>

TokenPostFails(s) ==
  /\ tokenPosts[s] # NoTokenPost
  /\ tokenPosts' = [tokenPosts EXCEPT ![s] = NoTokenPost]
  /\ UNCHANGED <<payableHost, fcmTokens, live, notifying>>

-----------------------------------------------------------------------------
(* notifyPaymentReceived: the host's tokens as they are now.  A payable    *)
(* without a document is skipped, and so is a host without tokens.         *)
Notify(j, p) ==
  /\ notifying[j] = NotNotifying
  /\ payableHost[p] # NoHost
  /\ fcmTokens[payableHost[p]] # {}
  /\ notifying' = [notifying EXCEPT ![j] =
       [host |-> payableHost[p], left |-> fcmTokens[payableHost[p]], dead |-> {}]]
  /\ UNCHANGED <<payableHost, fcmTokens, live, tokenPosts>>

\* The loop goes on, or is over.
GoOn(j, left, dead) ==
  notifying' = [notifying EXCEPT ![j] =
    IF left \cup dead = {} THEN NotNotifying
                           ELSE [host |-> notifying[j].host, left |-> left, dead |-> dead]]

\* mutant of Send: any error is taken for a token that was not found
SendOrForget(j, d) ==
  /\ notifying[j].dead = {}
  /\ d \in notifying[j].left
  /\ \E dead \in {{}, {d}} : GoOn(j, notifying[j].left \ {d}, dead)
  /\ UNCHANGED <<payableHost, fcmTokens, live, tokenPosts>>

(* One message: delivered, failed for any reason (logged), or not found.   *)
Send(j, d) ==
  /\ notifying[j].dead = {}
  /\ d \in notifying[j].left
  /\ \E dead \in {{}} \cup (IF d \in live THEN {} ELSE {{d}}) :
       GoOn(j, notifying[j].left \ {d}, dead)
  /\ UNCHANGED <<payableHost, fcmTokens, live, tokenPosts>>

(* arrayRemove of a token that was not found.                              *)
RemoveToken(j) ==
  /\ notifying[j].dead # {}
  /\ fcmTokens' = [fcmTokens EXCEPT ![notifying[j].host] = @ \ notifying[j].dead]
  /\ GoOn(j, notifying[j].left, {})
  /\ UNCHANGED <<payableHost, live, tokenPosts>>

(* The update of the list fails, and with it the rest; or the process ends.*)
NotifyFails(j) ==
  /\ notifying[j] # NotNotifying
  /\ notifying' = [notifying EXCEPT ![j] = NotNotifying]
  /\ UNCHANGED <<payableHost, fcmTokens, live, tokenPosts>>

NoticesNext ==
  \/ \E p \in PaidPayables, h \in Hosts : Indexed(p, h)
  \/ \E d \in Devices : Expire(d)
  \/ \E s \in TokenPosts, h \in Hosts, d \in Devices : SaveNotificationToken(s, h, d)
  \/ \E s \in TokenPosts : TestToken(s) \/ StoreToken(s) \/ TokenPostFails(s)
  \/ \E j \in Notifiers, p \in PaidPayables : Notify(j, p)
  \/ \E j \in Notifiers, d \in Devices : Send(j, d)
  \/ \E j \in Notifiers : RemoveToken(j) \/ NotifyFails(j)

NoticesSpec == NoticesInit /\ [][NoticesNext]_noticesVars

-----------------------------------------------------------------------------
NoticesTypeOK ==
  /\ payableHost \in [PaidPayables -> Hosts \cup {NoHost}]
  /\ fcmTokens \in [Hosts -> SUBSET Devices]
  /\ live \in SUBSET Devices
  /\ tokenPosts \in [TokenPosts ->
       [step: {"test", "store"}, wallet: Hosts, token: Devices] \cup {NoTokenPost}]
  /\ notifying \in [Notifiers ->
       [host: Hosts, left: SUBSET Devices, dead: SUBSET Devices] \cup {NotNotifying}]

(* A device that can be reached is never forgotten: whoever notifies from  *)
(* an old copy of the list, and whoever else saves or removes tokens       *)
(* meanwhile, a token leaves a host's list only when Firebase has dropped  *)
(* it.                                                                     *)
TokensSurvive ==
  [][\A h \in Hosts : fcmTokens[h] \ fcmTokens'[h] \subseteq Devices \ live]_noticesVars
=============================================================================
