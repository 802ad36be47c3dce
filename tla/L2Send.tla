------------------------------- MODULE L2Send -------------------------------
(* net_l2_send of bl616-wifi (net_al/mod.rs): how the supplicant's EAPOL   *)
(* frames are sent and their confirmations reported.                       *)
(*                                                                         *)
(* Senders take L2_BUSY, hand one buffer at a time to the MAC (external)   *)
(* and wait for its confirmation, which says acknowledged or not but not   *)
(* of which frame: it only stores L2_ACKED and L2_DONE.                    *)
EXTENDS Integers

CONSTANTS
  Senders,  \* tasks that call net_l2_send
  Buffers,  \* the transmit buffers, which data traffic uses too
  Retries,  \* L2_SEND_SW_RETRIES
  Late,     \* whether a confirmation may come after L2_CFM_TIMEOUT_MS
  Nobody

ASSUME L2Assumption ==
  /\ Retries \in Nat /\ Late \in BOOLEAN /\ Nobody \notin Senders \cup Buffers

VARIABLES
  busy,         \* L2_BUSY
  done, acked,  \* L2_DONE, L2_ACKED
  link,         \* the interface's link_up
  pc,           \* where each sender is
  tries,        \* retries made in this call
  frame,        \* the buffer it sends, or sent last
  ack,          \* *ack, as the caller will read it; "unset" before any store
  returned,     \* the call's result
  inMac,        \* the buffers the MAC has, by the sender they came from
  confirming,   \* the buffer whose confirmation callback is half run
  lent,         \* the buffers the data traffic has
  verdict,      \* what the MAC said of the frame a sender waits for (history)
  guessed       \* the sender gave up waiting for it (history)

flags == <<busy, done, acked>>
mac == <<inMac, confirming, lent>>
caller == <<tries, frame, ack, returned>>
history == <<verdict, guessed>>
vars == <<flags, link, pc, caller, mac, history>>

Init ==
  /\ busy = 0 /\ done = 0 /\ acked = 0
  /\ link = FALSE
  /\ pc = [s \in Senders |-> "idle"]
  /\ tries = [s \in Senders |-> 0]
  /\ frame = [s \in Senders |-> Nobody]
  /\ ack = [s \in Senders |-> "unset"]
  /\ returned = [s \in Senders |-> 0]
  /\ inMac = [b \in Buffers |-> Nobody]
  /\ confirming = Nobody
  /\ lent = {}
  /\ verdict = [s \in Senders |-> "none"]
  /\ guessed = [s \in Senders |-> FALSE]

Goto(s, label) == pc' = [pc EXCEPT ![s] = label]

-----------------------------------------------------------------------------
(* net_l2_send.                                                            *)

\* Without a link (or with a frame that does not fit) the call fails at once.
Refuse(s) ==
  /\ pc[s] = "idle" /\ ~link
  /\ returned' = [returned EXCEPT ![s] = -1]
  /\ UNCHANGED <<flags, link, pc, tries, frame, ack, mac, history>>

Enter(s) ==
  /\ pc[s] = "idle" /\ link
  /\ tries' = [tries EXCEPT ![s] = 0]
  /\ ack' = [ack EXCEPT ![s] = "unset"]
  /\ verdict' = [verdict EXCEPT ![s] = "none"]
  /\ guessed' = [guessed EXCEPT ![s] = FALSE]
  /\ Goto(s, "lock")
  /\ UNCHANGED <<flags, link, frame, returned, mac>>

Lock(s) ==
  /\ pc[s] = "lock" /\ busy = 0
  /\ busy' = 1
  /\ Goto(s, "send")
  /\ UNCHANGED <<done, acked, link, caller, mac, history>>

\* 2 s of finding it taken.
LockTimeout(s) ==
  /\ pc[s] = "lock" /\ busy = 1
  /\ returned' = [returned EXCEPT ![s] = -1]
  /\ Goto(s, "idle")
  /\ UNCHANGED <<flags, link, tries, frame, ack, mac, history>>

\* Where a sender is that has a buffer the MAC does not have yet.
Filling == {"reset", "reset ack", "submit"}
Free ==
  {b \in Buffers \ lent : /\ inMac[b] = Nobody /\ confirming # b
                          /\ \A s \in Senders : pc[s] \in Filling => frame[s] # b}

\* l2_send_once: a buffer, if there is one.
SendExhausted(s) ==
  /\ pc[s] = "send" /\ Free = {}
  /\ returned' = [returned EXCEPT ![s] = -1]
  /\ Goto(s, "unlock")
  /\ UNCHANGED <<flags, link, tries, frame, ack, mac, history>>

SendAlloc(s) ==
  /\ pc[s] = "send"
  /\ \E b \in Free : frame' = [frame EXCEPT ![s] = b]
  /\ Goto(s, "reset")
  /\ UNCHANGED <<flags, link, tries, ack, returned, mac, history>>

\* Mutant: the flags of the last confirmation are kept.
ResetNothing(s) ==
  /\ pc[s] = "reset"
  /\ Goto(s, "reset ack")
  /\ UNCHANGED <<flags, link, caller, mac, history>>

ResetDone(s) ==
  /\ pc[s] = "reset"
  /\ done' = 0
  /\ Goto(s, "reset ack")
  /\ UNCHANGED <<busy, acked, link, caller, mac, history>>

ResetAcked(s) ==
  /\ pc[s] = "reset ack"
  /\ acked' = 0
  /\ Goto(s, "submit")
  /\ UNCHANGED <<busy, done, link, caller, mac, history>>

\* fhost_tx_start refuses the frame: the buffer is freed.
SubmitRefused(s) ==
  /\ pc[s] = "submit"
  /\ returned' = [returned EXCEPT ![s] = -1]
  /\ Goto(s, "unlock")
  /\ UNCHANGED <<flags, link, tries, frame, ack, mac, history>>

Submit(s) ==
  /\ pc[s] = "submit"
  /\ inMac' = [inMac EXCEPT ![frame[s]] = s]
  /\ verdict' = [verdict EXCEPT ![s] = "none"]
  /\ Goto(s, "wait")
  /\ UNCHANGED <<flags, link, caller, confirming, lent, guessed>>

\* Ok(true): the call succeeds.
Deliver(s) ==
  /\ ack' = [ack EXCEPT ![s] = "yes"]
  /\ returned' = [returned EXCEPT ![s] = 0]
  /\ Goto(s, "unlock")
  /\ UNCHANGED tries

\* Mutant: one retry more than L2_SEND_SW_RETRIES.
NotHeardLong(s) ==
  /\ ack' = [ack EXCEPT ![s] = "no"]
  /\ returned' = [returned EXCEPT ![s] = 0]
  /\ \/ tries[s] <= Retries /\ tries' = [tries EXCEPT ![s] = @ + 1] /\ Goto(s, "send")
     \/ tries[s] > Retries /\ UNCHANGED tries /\ Goto(s, "unlock")

\* Ok(false): tried again while retries are left, and a success all the same.
NotHeard(s) ==
  /\ ack' = [ack EXCEPT ![s] = "no"]
  /\ returned' = [returned EXCEPT ![s] = 0]
  /\ \/ tries[s] < Retries /\ tries' = [tries EXCEPT ![s] = @ + 1] /\ Goto(s, "send")
     \/ tries[s] = Retries /\ UNCHANGED tries /\ Goto(s, "unlock")

WaitDone(s) ==
  /\ pc[s] = "wait" /\ done = 1
  /\ IF acked = 1 THEN Deliver(s) ELSE NotHeard(s)
  /\ UNCHANGED <<flags, link, frame, mac, history>>

\* Nothing said of its frame is still to come.
Answered(s) ==
  /\ \A b \in Buffers : inMac[b] # s
  /\ confirming = Nobody

\* Mutant: waits as long as it takes, as the vendor does.
WaitForever(s) ==
  /\ pc[s] = "wait" /\ FALSE
  /\ UNCHANGED vars

\* No confirmation within 300 ms: taken for delivered.
WaitTimeout(s) ==
  /\ pc[s] = "wait" /\ done = 0
  /\ Late \/ Answered(s)
  /\ Deliver(s)
  /\ guessed' = [guessed EXCEPT ![s] = TRUE]
  /\ UNCHANGED <<flags, link, frame, mac, verdict>>

Unlock(s) ==
  /\ pc[s] = "unlock"
  /\ busy' = 0
  /\ Goto(s, "idle")
  /\ UNCHANGED <<done, acked, link, caller, mac, history>>

-----------------------------------------------------------------------------
(* The MAC (external), calling l2_send_cfm, and the link.                  *)

\* What the callback's sender is told, if it still waits for that frame.
Heard(b, heard) ==
  [s \in Senders |-> IF pc[s] = "wait" /\ frame[s] = b
                      THEN IF heard = 1 THEN "yes" ELSE "no"
                      ELSE verdict[s]]

\* Mutant: L2_DONE is announced before L2_ACKED is known.
ConfirmEarly(b, heard) ==
  /\ inMac[b] # Nobody /\ confirming = Nobody
  /\ done' = 1
  /\ verdict' = Heard(b, heard)
  /\ confirming' = b
  /\ inMac' = [inMac EXCEPT ![b] = Nobody]
  /\ UNCHANGED <<busy, acked, link, pc, caller, lent, guessed>>

\* l2_send_cfm begins: L2_ACKED is stored.
Confirm(b, heard) ==
  /\ inMac[b] # Nobody /\ confirming = Nobody
  /\ acked' = heard
  /\ verdict' = Heard(b, heard)
  /\ confirming' = b
  /\ inMac' = [inMac EXCEPT ![b] = Nobody]
  /\ UNCHANGED <<busy, done, link, pc, caller, lent, guessed>>

\* It ends: L2_DONE is stored, and the MAC frees the buffer.
ConfirmDone ==
  /\ confirming # Nobody
  /\ done' = 1
  /\ confirming' = Nobody
  /\ UNCHANGED <<busy, acked, link, pc, caller, inMac, lent, history>>

\* A frame whose confirmation never comes.
LoseConfirmation(b) ==
  /\ inMac[b] # Nobody
  /\ inMac' = [inMac EXCEPT ![b] = Nobody]
  /\ UNCHANGED <<flags, link, pc, caller, confirming, lent, history>>

\* Data frames, sent past net_l2_send, take and return buffers of the same pool.
OtherTraffic(b) ==
  /\ \/ b \in Free /\ lent' = lent \cup {b}
     \/ b \in lent /\ lent' = lent \ {b}
  /\ UNCHANGED <<flags, link, pc, caller, inMac, confirming, history>>

\* net_if_up_cb, net_if_down_cb
LinkChange ==
  /\ link' = ~link
  /\ UNCHANGED <<flags, pc, caller, mac, history>>

-----------------------------------------------------------------------------
SendStep(s) ==
  \/ Lock(s) \/ LockTimeout(s) \/ SendExhausted(s) \/ SendAlloc(s)
  \/ ResetDone(s) \/ ResetAcked(s) \/ SubmitRefused(s) \/ Submit(s)
  \/ WaitDone(s) \/ WaitTimeout(s) \/ Unlock(s)

Next ==
  \/ \E s \in Senders : Refuse(s) \/ Enter(s) \/ SendStep(s)
  \/ \E b \in Buffers :
        \/ LoseConfirmation(b) \/ OtherTraffic(b)
        \/ \E heard \in {0, 1} : Confirm(b, heard)
  \/ ConfirmDone
  \/ LinkChange

Spec == Init /\ [][Next]_vars

\* A task inside net_l2_send runs on: its waits are bounded delays.  Of the MAC
\* this is assumed: a callback it began runs to its end, and a frame's fate is
\* settled, by a confirmation or by none, when time goes on.
FairSpec ==
  /\ Spec
  /\ \A s \in Senders : WF_vars(SendStep(s))
  /\ WF_vars(ConfirmDone)
  /\ \A b \in Buffers :
        WF_vars(LoseConfirmation(b) \/ \E heard \in {0, 1} : Confirm(b, heard))

-----------------------------------------------------------------------------
TypeOK ==
  /\ busy \in {0, 1} /\ done \in {0, 1} /\ acked \in {0, 1}
  /\ link \in BOOLEAN
  /\ pc \in [Senders -> {"idle", "lock", "send", "wait", "unlock"} \cup Filling]
  /\ tries \in [Senders -> 0..Retries]
  /\ frame \in [Senders -> Buffers \cup {Nobody}]
  /\ ack \in [Senders -> {"unset", "no", "yes"}]
  /\ returned \in [Senders -> {-1, 0}]
  /\ inMac \in [Buffers -> Senders \cup {Nobody}]
  /\ confirming \in Buffers \cup {Nobody}
  /\ lent \subseteq Buffers
  /\ verdict \in [Senders -> {"none", "no", "yes"}]
  /\ guessed \in [Senders -> BOOLEAN]

\* The acknowledgement a successful net_l2_send reports is what the MAC said
\* of the caller's own last frame, unless the call gave up waiting for it.
AckIsOwn ==
  \A s \in Senders :
    pc[s] = "unlock" /\ returned[s] = 0 /\ ~guessed[s] => ack[s] = verdict[s]

\* A frame is sent again only after the MAC said its peer did not hear it:
\* the retry loop never acts on another sender's or a half-made confirmation.
RetriesAreUnheard ==
  [][\A s \in Senders : tries'[s] > tries[s] => verdict[s] = "no"]_vars

\* Whatever the MAC does, a call of net_l2_send returns.
SendReturns == \A s \in Senders : pc[s] # "idle" ~> pc[s] = "idle"

\* Calls tell the truth, and the one lock and the buffers stay what they are.
AcksSound == TypeOK /\ AckIsOwn
=============================================================================
