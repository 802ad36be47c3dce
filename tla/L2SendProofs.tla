---------------------------- MODULE L2SendProofs ----------------------------
(***************************************************************************)
(* Proofs about L2Send, for any senders, buffers and number of retries:    *)
(* while the MAC confirms a frame in time or never, a sender is told of    *)
(* its own frame, and sends one again only when its peer did not hear it.  *)
(***************************************************************************)
EXTENDS L2Send, TLAPS

\* Where a sender is that has taken L2_BUSY.
Inside == {"send", "wait", "unlock"} \cup Filling

LockInv ==
  /\ \A s \in Senders : pc[s] \in Inside => busy = 1
  /\ \A s, t \in Senders : pc[s] \in Inside /\ pc[t] \in Inside => s = t

\* The MAC has nothing, and confirms nothing, but the frame waited for.
PendingInv ==
  /\ \A b \in Buffers : inMac[b] # Nobody => pc[inMac[b]] = "wait" /\ frame[inMac[b]] = b
  /\ confirming # Nobody => \E s \in Senders : pc[s] = "wait" /\ frame[s] = confirming

FrameInv == \A s \in Senders : pc[s] \in Filling \cup {"wait"} => frame[s] \in Buffers

\* L2_DONE is not set before L2_ACKED is of the frame waited for.
FlagsInv ==
  \A s \in Senders :
    /\ pc[s] \in {"reset ack", "submit"} => done = 0
    /\ pc[s] = "wait" =>
         /\ confirming # Nobody => done = 0
         /\ confirming # Nobody \/ done = 1 =>
              inMac[frame[s]] # s /\ verdict[s] = IF acked = 1 THEN "yes" ELSE "no"

SendInv == TypeOK /\ LockInv /\ PendingInv /\ FrameInv /\ FlagsInv /\ AckIsOwn

LEMMA Differ == 0 # 1 /\ -1 # 0
  OBVIOUS

LEMMA InitHolds == Init => SendInv
  <1> SUFFICES ASSUME Init PROVE SendInv
    OBVIOUS
  <1> USE L2Assumption DEF L2Assumption, Init
  <1>1. TypeOK
    <2>1. tries \in [Senders -> 0 .. Retries] /\ returned \in [Senders -> {-1, 0}]
      OBVIOUS
    <2>2. pc \in [Senders -> {"idle", "lock", "send", "wait", "unlock"} \cup Filling]
      OBVIOUS
    <2>3. inMac \in [Buffers -> Senders \cup {Nobody}] /\ frame \in [Senders -> Buffers \cup {Nobody}]
      OBVIOUS
    <2> QED
      BY <2>1, <2>2, <2>3 DEF TypeOK
  <1>2. LockInv /\ PendingInv /\ FrameInv /\ FlagsInv /\ AckIsOwn
    BY DEF LockInv, Inside, Filling, PendingInv, FrameInv, FlagsInv, AckIsOwn
  <1> QED
    BY <1>1, <1>2 DEF SendInv

Places == {"idle", "lock", "send", "wait", "unlock"} \cup Filling

\* What a step of s that hands no frame over does.
Quiet(s) ==
  /\ TypeOK'
  /\ UNCHANGED <<inMac, confirming>>
  /\ pc[s] # "wait" /\ pc'[s] # "wait"
  /\ UNCHANGED <<done, acked>> \/ pc[s] \in Inside
  /\ pc'[s] \in {"reset ack", "submit"} => done' = 0
  /\ pc'[s] \in Filling => frame'[s] \in Buffers
  /\ pc'[s] \in Inside => busy' = 1 /\ (pc[s] \in Inside \/ busy = 0)
  /\ busy' = busy \/ busy = 0 \/ pc[s] \in Inside
  /\ pc'[s] = "unlock" => returned'[s] = -1
  /\ \A t \in Senders : tries'[t] <= tries[t]
  /\ \A t \in Senders : t # s =>
       /\ pc'[t] = pc[t] /\ frame'[t] = frame[t] /\ ack'[t] = ack[t]
       /\ returned'[t] = returned[t] /\ verdict'[t] = verdict[t] /\ guessed'[t] = guessed[t]

LEMMA QuietKeeps ==
  ASSUME SendInv, NEW s \in Senders, Quiet(s)
  PROVE  SendInv'
  <1> USE L2Assumption DEF L2Assumption, SendInv, Quiet
  <1>1. LockInv'
    <2>1. \A t \in Senders : pc'[t] \in Inside => busy' = 1
      BY DEF LockInv, TypeOK
    <2>2. ASSUME NEW t \in Senders, NEW u \in Senders, pc'[t] \in Inside, pc'[u] \in Inside
          PROVE  t = u
      <3>1. pc[t] \in Inside \/ (t = s /\ busy = 0)
        BY <2>2
      <3>2. pc[u] \in Inside \/ (u = s /\ busy = 0)
        BY <2>2
      <3>3. /\ pc[t] \in Inside => busy = 1
            /\ pc[u] \in Inside => busy = 1
            /\ pc[t] \in Inside /\ pc[u] \in Inside => t = u
        BY DEF LockInv
      <3>4. 0 # 1
        BY Differ
      <3> HIDE DEF SendInv, Quiet
      <3> QED
        BY <3>1, <3>2, <3>3, <3>4
    <2> QED
      BY <2>1, <2>2 DEF LockInv
  <1>2. PendingInv'
    <2>1. ASSUME NEW b \in Buffers, inMac'[b] # Nobody
          PROVE  pc'[inMac'[b]] = "wait" /\ frame'[inMac'[b]] = b
      <3>1. inMac[b] \in Senders /\ inMac[b] # s /\ inMac'[b] = inMac[b]
        <4>1. inMac'[b] = inMac[b] /\ inMac[b] \in Senders
          BY <2>1 DEF TypeOK
        <4> QED
          BY <2>1, <4>1 DEF PendingInv
      <3> QED
        BY <2>1, <3>1 DEF PendingInv
    <2>2. ASSUME confirming' # Nobody
          PROVE  \E t \in Senders : pc'[t] = "wait" /\ frame'[t] = confirming'
      BY <2>2 DEF PendingInv
    <2> QED
      BY <2>1, <2>2 DEF PendingInv
  <1>3. FrameInv'
    BY DEF FrameInv
  <1>4. FlagsInv'
    <2>1. ASSUME NEW t \in Senders, t # s, pc[t] \in {"reset ack", "submit", "wait"}
          PROVE  UNCHANGED <<done, acked>>
      BY <2>1 DEF LockInv, Inside, Filling
    <2> DEFINE Flags(t) ==
                 /\ pc[t] \in {"reset ack", "submit"} => done = 0
                 /\ pc[t] = "wait" =>
                      /\ confirming # Nobody => done = 0
                      /\ confirming # Nobody \/ done = 1 =>
                           inMac[frame[t]] # t /\ verdict[t] = IF acked = 1 THEN "yes" ELSE "no"
    <2>2. \A t \in Senders : Flags(t)
      BY DEF FlagsInv
    <2>3. Flags(s)'
      BY DEF Filling, Inside
    <2>4. ASSUME NEW t \in Senders, t # s PROVE Flags(t)'
      <3>1. /\ UNCHANGED <<inMac, confirming>> /\ pc'[t] = pc[t]
            /\ frame'[t] = frame[t] /\ verdict'[t] = verdict[t]
        BY <2>4
      <3>2. Flags(t)
        BY <2>2
      <3>3. pc[t] \in {"reset ack", "submit", "wait"} => UNCHANGED <<done, acked>>
        BY <2>1, <2>4
      <3> QED
        BY <3>1, <3>2, <3>3
    <2> QED
      BY <2>3, <2>4 DEF FlagsInv
  <1>5. AckIsOwn'
    <2> SUFFICES ASSUME NEW t \in Senders, pc'[t] = "unlock", returned'[t] = 0, ~guessed'[t]
                 PROVE  ack'[t] = verdict'[t]
      BY DEF AckIsOwn
    <2>1. -1 # 0
      BY Differ
    <2>2. t # s
      BY <2>1
    <2> QED
      BY <2>2 DEF AckIsOwn
  <1> QED
    BY <1>1, <1>2, <1>3, <1>4, <1>5

LEMMA EnteringIsQuiet ==
  ASSUME SendInv, NEW s \in Senders, Refuse(s) \/ Enter(s) \/ Lock(s) \/ LockTimeout(s)
  PROVE  Quiet(s)
  <1> USE L2Assumption DEF L2Assumption, SendInv, flags, mac, caller, history, Goto
  <1>1. CASE Refuse(s)
    <2>1. UNCHANGED <<busy, done, acked, link, pc, tries, frame, ack, inMac, confirming, lent, verdict, guessed>>
      BY <1>1 DEF Refuse
    <2>2. returned' \in [Senders -> {-1, 0}]
      BY <1>1 DEF Refuse, TypeOK
    <2>3. TypeOK'
      BY <2>1, <2>2 DEF TypeOK, Places
    <2>4. \A t \in Senders : tries'[t] <= tries[t]
      <3>1. \A t \in Senders : tries[t] \in Nat
        BY DEF TypeOK
      <3> QED
        BY <2>1, <3>1
    <2>5. /\ pc[s] = "idle" /\ pc'[s] = "idle"
          /\ \A t \in Senders : t # s => returned'[t] = returned[t]
      BY <1>1, <2>1 DEF Refuse, TypeOK
    <2> QED
      BY <2>1, <2>3, <2>4, <2>5 DEF Quiet, Inside, Filling, LockInv, FrameInv, FlagsInv
  <1>2. CASE Enter(s)
    <2>1. UNCHANGED <<busy, done, acked, link, frame, returned, inMac, confirming, lent>>
      BY <1>2 DEF Enter
    <2>2. tries' \in [Senders -> 0 .. Retries]
      BY <1>2 DEF Enter, TypeOK
    <2>3. ack' \in [Senders -> {"unset", "no", "yes"}]
      BY <1>2 DEF Enter, TypeOK
    <2>4. verdict' \in [Senders -> {"none", "no", "yes"}]
      BY <1>2 DEF Enter, TypeOK
    <2>5. guessed' \in [Senders -> BOOLEAN]
      BY <1>2 DEF Enter, TypeOK
    <2>6. pc' \in [Senders -> Places]
      BY <1>2 DEF Enter, TypeOK, Places, Filling
    <2>7. TypeOK'
      BY <2>1, <2>2, <2>3, <2>4, <2>5, <2>6 DEF TypeOK, Places
    <2>8. \A t \in Senders : tries'[t] <= tries[t]
      <3>1. \A t \in Senders : tries[t] \in Nat
        BY DEF TypeOK
      <3> QED
        BY <1>2, <3>1 DEF Enter, TypeOK
    <2>9. /\ pc[s] = "idle" /\ pc'[s] = "lock"
          /\ \A t \in Senders : t # s => ack'[t] = ack[t] /\ verdict'[t] = verdict[t] /\ guessed'[t] = guessed[t] /\ pc'[t] = pc[t]
      BY <1>2 DEF Enter, TypeOK
    <2> QED
      BY <2>1, <2>7, <2>8, <2>9 DEF Quiet, Inside, Filling, LockInv, FrameInv, FlagsInv
  <1>3. CASE Lock(s)
    <2>1. UNCHANGED <<done, acked, link, tries, frame, ack, returned, inMac, confirming, lent, verdict, guessed>>
      BY <1>3 DEF Lock
    <2>2. busy' \in {0, 1}
      BY <1>3 DEF Lock
    <2>3. pc' \in [Senders -> Places]
      BY <1>3 DEF Lock, TypeOK, Places, Filling
    <2>4. TypeOK'
      BY <2>1, <2>2, <2>3 DEF TypeOK, Places
    <2>5. \A t \in Senders : tries'[t] <= tries[t]
      <3>1. \A t \in Senders : tries[t] \in Nat
        BY DEF TypeOK
      <3> QED
        BY <2>1, <3>1
    <2>6. /\ pc[s] = "lock" /\ pc'[s] = "send"
          /\ busy = 0 /\ busy' = 1
          /\ \A t \in Senders : t # s => pc'[t] = pc[t]
      BY <1>3 DEF Lock, TypeOK
    <2> QED
      BY <2>1, <2>4, <2>5, <2>6 DEF Quiet, Inside, Filling, LockInv, FrameInv, FlagsInv
  <1>4. CASE LockTimeout(s)
    <2>1. UNCHANGED <<busy, done, acked, link, tries, frame, ack, inMac, confirming, lent, verdict, guessed>>
      BY <1>4 DEF LockTimeout
    <2>2. returned' \in [Senders -> {-1, 0}]
      BY <1>4 DEF LockTimeout, TypeOK
    <2>3. pc' \in [Senders -> Places]
      BY <1>4 DEF LockTimeout, TypeOK, Places, Filling
    <2>4. TypeOK'
      BY <2>1, <2>2, <2>3 DEF TypeOK, Places
    <2>5. \A t \in Senders : tries'[t] <= tries[t]
      <3>1. \A t \in Senders : tries[t] \in Nat
        BY DEF TypeOK
      <3> QED
        BY <2>1, <3>1
    <2>6. /\ pc[s] = "lock" /\ pc'[s] = "idle"
          /\ \A t \in Senders : t # s => returned'[t] = returned[t] /\ pc'[t] = pc[t]
      BY <1>4 DEF LockTimeout, TypeOK
    <2> QED
      BY <2>1, <2>4, <2>5, <2>6 DEF Quiet, Inside, Filling, LockInv, FrameInv, FlagsInv
  <1> QED
    BY <1>1, <1>2, <1>3, <1>4

LEMMA PreparingIsQuiet ==
  ASSUME SendInv, NEW s \in Senders, SendExhausted(s) \/ SendAlloc(s) \/ ResetDone(s) \/ ResetAcked(s)
  PROVE  Quiet(s)
  <1> USE L2Assumption DEF L2Assumption, SendInv, flags, mac, caller, history, Goto
  <1>1. CASE SendExhausted(s)
    <2>1. UNCHANGED <<busy, done, acked, link, tries, frame, ack, inMac, confirming, lent, verdict, guessed>>
      BY <1>1 DEF SendExhausted
    <2>2. returned' \in [Senders -> {-1, 0}]
      BY <1>1 DEF SendExhausted, TypeOK
    <2>3. pc' \in [Senders -> Places]
      BY <1>1 DEF SendExhausted, TypeOK, Places, Filling
    <2>4. TypeOK'
      BY <2>1, <2>2, <2>3 DEF TypeOK, Places
    <2>5. \A t \in Senders : tries'[t] <= tries[t]
      <3>1. \A t \in Senders : tries[t] \in Nat
        BY DEF TypeOK
      <3> QED
        BY <2>1, <3>1
    <2>6. /\ pc[s] = "send" /\ pc'[s] = "unlock"
          /\ returned'[s] = -1
          /\ \A t \in Senders : t # s => returned'[t] = returned[t] /\ pc'[t] = pc[t]
      BY <1>1 DEF SendExhausted, TypeOK
    <2> QED
      BY <2>1, <2>4, <2>5, <2>6 DEF Quiet, Inside, Filling, LockInv, FrameInv, FlagsInv
  <1>2. CASE SendAlloc(s)
    <2>1. UNCHANGED <<busy, done, acked, link, tries, ack, returned, inMac, confirming, lent, verdict, guessed>>
      BY <1>2 DEF SendAlloc
    <2>2. frame' \in [Senders -> Buffers \cup {Nobody}]
      BY <1>2 DEF SendAlloc, TypeOK, Free
    <2>3. pc' \in [Senders -> Places]
      BY <1>2 DEF SendAlloc, TypeOK, Places, Filling
    <2>4. TypeOK'
      BY <2>1, <2>2, <2>3 DEF TypeOK, Places
    <2>5. \A t \in Senders : tries'[t] <= tries[t]
      <3>1. \A t \in Senders : tries[t] \in Nat
        BY DEF TypeOK
      <3> QED
        BY <2>1, <3>1
    <2>6. /\ pc[s] = "send" /\ pc'[s] = "reset"
          /\ frame'[s] \in Buffers
          /\ \A t \in Senders : t # s => frame'[t] = frame[t] /\ pc'[t] = pc[t]
      BY <1>2 DEF SendAlloc, TypeOK, Free
    <2> QED
      BY <2>1, <2>4, <2>5, <2>6 DEF Quiet, Inside, Filling, LockInv, FrameInv, FlagsInv
  <1>3. CASE ResetDone(s)
    <2>1. UNCHANGED <<busy, acked, link, tries, frame, ack, returned, inMac, confirming, lent, verdict, guessed>>
      BY <1>3 DEF ResetDone
    <2>2. done' \in {0, 1}
      BY <1>3 DEF ResetDone
    <2>3. pc' \in [Senders -> Places]
      BY <1>3 DEF ResetDone, TypeOK, Places, Filling
    <2>4. TypeOK'
      BY <2>1, <2>2, <2>3 DEF TypeOK, Places
    <2>5. \A t \in Senders : tries'[t] <= tries[t]
      <3>1. \A t \in Senders : tries[t] \in Nat
        BY DEF TypeOK
      <3> QED
        BY <2>1, <3>1
    <2>6. /\ pc[s] = "reset" /\ pc'[s] = "reset ack"
          /\ done' = 0
          /\ \A t \in Senders : t # s => pc'[t] = pc[t]
      BY <1>3 DEF ResetDone, TypeOK
    <2> QED
      BY <2>1, <2>4, <2>5, <2>6 DEF Quiet, Inside, Filling, LockInv, FrameInv, FlagsInv
  <1>4. CASE ResetAcked(s)
    <2>1. UNCHANGED <<busy, done, link, tries, frame, ack, returned, inMac, confirming, lent, verdict, guessed>>
      BY <1>4 DEF ResetAcked
    <2>2. acked' \in {0, 1}
      BY <1>4 DEF ResetAcked
    <2>3. pc' \in [Senders -> Places]
      BY <1>4 DEF ResetAcked, TypeOK, Places, Filling
    <2>4. TypeOK'
      BY <2>1, <2>2, <2>3 DEF TypeOK, Places
    <2>5. \A t \in Senders : tries'[t] <= tries[t]
      <3>1. \A t \in Senders : tries[t] \in Nat
        BY DEF TypeOK
      <3> QED
        BY <2>1, <3>1
    <2>6. /\ pc[s] = "reset ack" /\ pc'[s] = "submit"
          /\ \A t \in Senders : t # s => pc'[t] = pc[t]
      BY <1>4 DEF ResetAcked, TypeOK
    <2> QED
      BY <2>1, <2>4, <2>5, <2>6 DEF Quiet, Inside, Filling, LockInv, FrameInv, FlagsInv
  <1> QED
    BY <1>1, <1>2, <1>3, <1>4

LEMMA LeavingIsQuiet ==
  ASSUME SendInv, NEW s \in Senders, SubmitRefused(s) \/ Unlock(s)
  PROVE  Quiet(s)
  <1> USE L2Assumption DEF L2Assumption, SendInv, flags, mac, caller, history, Goto
  <1>1. CASE SubmitRefused(s)
    <2>1. UNCHANGED <<busy, done, acked, link, tries, frame, ack, inMac, confirming, lent, verdict, guessed>>
      BY <1>1 DEF SubmitRefused
    <2>2. returned' \in [Senders -> {-1, 0}]
      BY <1>1 DEF SubmitRefused, TypeOK
    <2>3. pc' \in [Senders -> Places]
      BY <1>1 DEF SubmitRefused, TypeOK, Places, Filling
    <2>4. TypeOK'
      BY <2>1, <2>2, <2>3 DEF TypeOK, Places
    <2>5. \A t \in Senders : tries'[t] <= tries[t]
      <3>1. \A t \in Senders : tries[t] \in Nat
        BY DEF TypeOK
      <3> QED
        BY <2>1, <3>1
    <2>6. /\ pc[s] = "submit" /\ pc'[s] = "unlock"
          /\ returned'[s] = -1
          /\ \A t \in Senders : t # s => returned'[t] = returned[t] /\ pc'[t] = pc[t]
      BY <1>1 DEF SubmitRefused, TypeOK
    <2> QED
      BY <2>1, <2>4, <2>5, <2>6 DEF Quiet, Inside, Filling, LockInv, FrameInv, FlagsInv
  <1>2. CASE Unlock(s)
    <2>1. UNCHANGED <<done, acked, link, tries, frame, ack, returned, inMac, confirming, lent, verdict, guessed>>
      BY <1>2 DEF Unlock
    <2>2. busy' \in {0, 1}
      BY <1>2 DEF Unlock
    <2>3. pc' \in [Senders -> Places]
      BY <1>2 DEF Unlock, TypeOK, Places, Filling
    <2>4. TypeOK'
      BY <2>1, <2>2, <2>3 DEF TypeOK, Places
    <2>5. \A t \in Senders : tries'[t] <= tries[t]
      <3>1. \A t \in Senders : tries[t] \in Nat
        BY DEF TypeOK
      <3> QED
        BY <2>1, <3>1
    <2>6. /\ pc[s] = "unlock" /\ pc'[s] = "idle"
          /\ \A t \in Senders : t # s => pc'[t] = pc[t]
      BY <1>2 DEF Unlock, TypeOK
    <2> QED
      BY <2>1, <2>4, <2>5, <2>6 DEF Quiet, Inside, Filling, LockInv, FrameInv, FlagsInv
  <1> QED
    BY <1>1, <1>2

-----------------------------------------------------------------------------
(* The frame handed over, and the answer waited for.                       *)

\* The steps of s leave the other senders alone.
OthersStand(s) ==
  \A t \in Senders : t # s =>
    /\ pc'[t] = pc[t] /\ frame'[t] = frame[t] /\ ack'[t] = ack[t]
    /\ returned'[t] = returned[t] /\ verdict'[t] = verdict[t] /\ guessed'[t] = guessed[t]

\* Nobody else has a frame under way, or may have.
LEMMA Alone ==
  ASSUME SendInv, NEW s \in Senders, pc[s] \in Inside
  PROVE  /\ busy = 1
         /\ \A t \in Senders : t # s => pc[t] \notin Inside /\ pc[t] \notin Filling /\ pc[t] # "wait"
         /\ \A b \in Buffers : inMac[b] # Nobody => inMac[b] = s
         /\ confirming # Nobody => pc[s] = "wait" /\ frame[s] = confirming
  <1>1. busy = 1 /\ \A t \in Senders : pc[t] \in Inside => t = s
    BY DEF SendInv, LockInv
  <1>2. \A t \in Senders : t # s => pc[t] \notin Inside /\ pc[t] \notin Filling /\ pc[t] # "wait"
    BY <1>1 DEF Inside
  <1>3. \A b \in Buffers : inMac[b] # Nobody => inMac[b] = s
    BY <1>2 DEF SendInv, PendingInv, TypeOK
  <1>4. confirming # Nobody => pc[s] = "wait" /\ frame[s] = confirming
    BY <1>2 DEF SendInv, PendingInv
  <1> QED
    BY <1>1, <1>2, <1>3, <1>4

LEMMA SubmittingKeeps ==
  ASSUME SendInv, NEW s \in Senders, Submit(s)
  PROVE  SendInv' /\ UNCHANGED tries
  <1> USE L2Assumption DEF L2Assumption, flags, caller, Goto
  <1> PICK b : b = frame[s]
    OBVIOUS
  <1>1. TypeOK /\ pc[s] = "submit" /\ pc[s] \in Inside /\ pc[s] \in Filling
    BY DEF SendInv, Submit, Inside, Filling
  <1>2. b \in Buffers /\ done = 0
    BY <1>1 DEF SendInv, FrameInv, FlagsInv
  <1>3. UNCHANGED <<busy, done, acked, link, tries, frame, ack, returned, confirming, lent, guessed>>
    BY DEF Submit
  <1>4. inMac' = [inMac EXCEPT ![b] = s] /\ pc' = [pc EXCEPT ![s] = "wait"]
        /\ verdict' = [verdict EXCEPT ![s] = "none"]
    BY DEF Submit
  <1>5. /\ inMac' \in [Buffers -> Senders \cup {Nobody}]
        /\ inMac'[b] = s /\ \A d \in Buffers : d # b => inMac'[d] = inMac[d]
    BY <1>1, <1>2, <1>4 DEF TypeOK
  <1>6. /\ pc' \in [Senders -> {"idle", "lock", "send", "wait", "unlock"} \cup Filling]
        /\ pc'[s] = "wait" /\ \A t \in Senders : t # s => pc'[t] = pc[t]
    BY <1>1, <1>4 DEF TypeOK
  <1>7. /\ verdict' \in [Senders -> {"none", "no", "yes"}]
        /\ \A t \in Senders : t # s => verdict'[t] = verdict[t]
    BY <1>1, <1>4 DEF TypeOK
  <1>8. TypeOK'
    BY <1>1, <1>3, <1>5, <1>6, <1>7 DEF TypeOK
  <1>9. /\ confirming = Nobody /\ busy = 1 /\ \A d \in Buffers : inMac[d] = Nobody
        /\ \A t \in Senders : t # s => pc[t] \notin Inside /\ pc[t] \notin Filling /\ pc[t] # "wait"
    <2>1. "submit" # "wait"
      OBVIOUS
    <2>2. \A d \in Buffers : inMac[d] # Nobody => pc[inMac[d]] = "wait"
      BY DEF SendInv, PendingInv
    <2> QED
      BY <1>1, <2>1, <2>2, Alone
  <1>10. LockInv'
    BY <1>3, <1>6, <1>9 DEF LockInv
  <1>11. PendingInv'
    <2>1. \A d \in Buffers : inMac'[d] # Nobody => d = b
      BY <1>5, <1>9
    <2> QED
      BY <1>3, <1>5, <1>6, <1>9, <2>1 DEF PendingInv
  <1>12. FrameInv'
    BY <1>2, <1>3, <1>6, <1>9 DEF FrameInv
  <1>13. FlagsInv'
    <2>1. \A t \in Senders : t # s => pc'[t] \notin {"reset ack", "submit", "wait"}
      BY <1>6, <1>9 DEF Filling
    <2> QED
      BY <1>2, <1>3, <1>6, <1>9, <2>1, Differ DEF FlagsInv
  <1>14. AckIsOwn'
    BY <1>3, <1>6, <1>7 DEF SendInv, AckIsOwn
  <1> QED
    BY <1>3, <1>8, <1>10, <1>11, <1>12, <1>13, <1>14 DEF SendInv

\* What ends a wait, when nothing of the frame is still to come.
LEMMA AnsweredKeeps ==
  ASSUME SendInv, NEW s \in Senders, pc[s] = "wait", TypeOK', OthersStand(s),
         UNCHANGED <<busy, done, acked, inMac, confirming>>,
         confirming = Nobody, inMac[frame[s]] # s,
         pc'[s] \in {"send", "unlock"},
         pc'[s] = "unlock" /\ returned'[s] = 0 /\ ~guessed'[s] => ack'[s] = verdict'[s]
  PROVE  SendInv'
  <1> USE DEF OthersStand
  <1>1. pc[s] \in Inside /\ pc'[s] \in Inside /\ pc'[s] # "wait" /\ pc'[s] \notin Filling
        /\ pc'[s] \notin {"reset ack", "submit", "wait"}
    BY DEF Inside, Filling
  <1>2. /\ busy = 1 /\ \A b \in Buffers : inMac[b] = Nobody
        /\ \A t \in Senders : t # s => pc[t] \notin Inside /\ pc[t] \notin Filling /\ pc[t] # "wait"
    <2>1. \A b \in Buffers : inMac[b] # s
      BY L2Assumption DEF L2Assumption, SendInv, PendingInv
    <2> QED
      BY <1>1, <2>1, Alone
  <1>3. LockInv'
    BY <1>1, <1>2 DEF LockInv
  <1>4. PendingInv'
    BY <1>2 DEF PendingInv
  <1>5. FrameInv' /\ FlagsInv'
    BY <1>1, <1>2 DEF FrameInv, FlagsInv, Filling
  <1>6. AckIsOwn'
    BY DEF SendInv, AckIsOwn
  <1> QED
    BY <1>3, <1>4, <1>5, <1>6 DEF SendInv

LEMMA WaitingKeeps ==
  ASSUME ~Late, SendInv, NEW s \in Senders, WaitDone(s) \/ WaitTimeout(s)
  PROVE  SendInv' /\ \A t \in Senders : tries'[t] > tries[t] => verdict[t] = "no"
  <1> USE L2Assumption DEF L2Assumption, flags, mac, Goto
  <1>1. TypeOK /\ pc[s] = "wait" /\ frame[s] \in Buffers
        /\ UNCHANGED <<busy, done, acked, link, frame, inMac, confirming, lent, verdict>>
    <2>1. pc[s] = "wait"
          /\ UNCHANGED <<busy, done, acked, link, frame, inMac, confirming, lent, verdict>>
      BY DEF WaitDone, WaitTimeout, history
    <2> QED
      BY <2>1 DEF SendInv, FrameInv
  <1>2. done \in {0, 1} /\ tries[s] \in Nat /\ tries[s] <= Retries /\ Retries \in Nat
    BY <1>1 DEF TypeOK
  \* What either way of ending the wait does.
  <1>3. ASSUME Deliver(s)
        PROVE  /\ tries' = tries /\ pc' = [pc EXCEPT ![s] = "unlock"]
               /\ ack' = [ack EXCEPT ![s] = "yes"] /\ returned' = [returned EXCEPT ![s] = 0]
    BY <1>3 DEF Deliver
  <1>4. ASSUME NotHeard(s)
        PROVE  /\ tries' \in [Senders -> 0 .. Retries]
               /\ tries' = tries \/ tries' = [tries EXCEPT ![s] = @ + 1]
               /\ \E p \in {"send", "unlock"} : pc' = [pc EXCEPT ![s] = p]
               /\ ack' = [ack EXCEPT ![s] = "no"] /\ returned' = [returned EXCEPT ![s] = 0]
    <2>1. tries[s] < Retries => tries[s] + 1 \in 0 .. Retries
      BY <1>2
    <2> QED
      BY <1>1, <1>4, <2>1 DEF NotHeard, TypeOK
  <1>5. CASE WaitDone(s)
    <2>1. done = 1 /\ guessed' = guessed /\ IF acked = 1 THEN Deliver(s) ELSE NotHeard(s)
      BY <1>5 DEF WaitDone, history
    <2>2. /\ confirming = Nobody /\ inMac[frame[s]] # s
          /\ verdict[s] = IF acked = 1 THEN "yes" ELSE "no"
      BY <1>1, <2>1, Differ DEF SendInv, FlagsInv
    <2>3. ack' = [ack EXCEPT ![s] = verdict[s]] /\ returned' = [returned EXCEPT ![s] = 0]
          /\ \E p \in {"send", "unlock"} : pc' = [pc EXCEPT ![s] = p]
      BY <1>3, <1>4, <2>1, <2>2
    <2>4. tries' \in [Senders -> 0 .. Retries]
          /\ (tries' = tries \/ (verdict[s] = "no" /\ tries' = [tries EXCEPT ![s] = @ + 1]))
      <3>1. tries \in [Senders -> 0 .. Retries] /\ "yes" # "no"
        BY <1>1 DEF TypeOK
      <3>2. CASE acked = 1
        <4>1. tries' = tries
          BY <1>3, <2>1, <3>2
        <4> QED
          BY <3>1, <4>1
      <3>3. CASE acked # 1
        <4>1. /\ tries' \in [Senders -> 0 .. Retries]
              /\ tries' = tries \/ tries' = [tries EXCEPT ![s] = @ + 1]
          BY <1>4, <2>1, <3>3
        <4>2. verdict[s] = "no"
          BY <2>2, <3>3
        <4> QED
          BY <4>1, <4>2
      <3> QED
        BY <3>2, <3>3
    <2>5. /\ pc'[s] \in {"send", "unlock"} /\ ack'[s] = verdict'[s] /\ OthersStand(s)
          /\ pc' \in [Senders -> {"idle", "lock", "send", "wait", "unlock"} \cup Filling]
      BY <1>1, <2>1, <2>3 DEF TypeOK, OthersStand
    <2>6. /\ ack' \in [Senders -> {"unset", "no", "yes"}] /\ returned' \in [Senders -> {-1, 0}]
      BY <1>1, <2>2, <2>3 DEF TypeOK
    <2>7. TypeOK'
      BY <1>1, <2>1, <2>4, <2>5, <2>6 DEF TypeOK
    <2>8. SendInv'
      BY <1>1, <2>2, <2>5, <2>7, AnsweredKeeps
    <2>9. ASSUME NEW t \in Senders, tries'[t] > tries[t] PROVE verdict[t] = "no"
      <3>1. tries[t] \in Nat
        BY <1>1 DEF TypeOK
      <3>2. tries' # tries
        BY <2>9, <3>1
      <3>3. verdict[s] = "no" /\ (t # s => tries'[t] = tries[t])
        BY <1>1, <2>4, <3>2 DEF TypeOK
      <3> QED
        BY <2>9, <3>1, <3>3
    <2> QED
      BY <2>8, <2>9
  <1>6. CASE WaitTimeout(s)
    <2>1. Answered(s) /\ Deliver(s) /\ guessed' = [guessed EXCEPT ![s] = TRUE]
      BY <1>6 DEF WaitTimeout
    <2>2. confirming = Nobody /\ inMac[frame[s]] # s
      BY <1>1, <2>1 DEF Answered
    <2>3. /\ pc'[s] = "unlock" /\ guessed'[s] = TRUE /\ OthersStand(s) /\ tries' = tries
          /\ pc' \in [Senders -> {"idle", "lock", "send", "wait", "unlock"} \cup Filling]
      BY <1>1, <1>3, <2>1 DEF TypeOK, OthersStand
    <2>4. /\ ack' \in [Senders -> {"unset", "no", "yes"}] /\ returned' \in [Senders -> {-1, 0}]
          /\ guessed' \in [Senders -> BOOLEAN]
      BY <1>1, <1>3, <2>1 DEF TypeOK
    <2>5. TypeOK'
      BY <1>1, <2>3, <2>4 DEF TypeOK
    <2>6. SendInv'
      BY <1>1, <2>2, <2>3, <2>5, AnsweredKeeps
    <2>7. \A t \in Senders : ~ (tries'[t] > tries[t])
      <3>1. \A t \in Senders : tries[t] \in Nat
        BY <1>1 DEF TypeOK
      <3> QED
        BY <2>3, <3>1
    <2> QED
      BY <2>6, <2>7
  <1> QED
    BY <1>5, <1>6

-----------------------------------------------------------------------------
(* The MAC, the other traffic and the link.                                *)

LEMMA ConfirmingKeeps ==
  ASSUME SendInv, NEW b \in Buffers, NEW heard \in {0, 1}, Confirm(b, heard)
  PROVE  SendInv' /\ UNCHANGED tries
  <1> USE L2Assumption DEF L2Assumption, caller
  <1> PICK s : s = inMac[b]
    OBVIOUS
  <1>1. /\ inMac[b] # Nobody /\ confirming = Nobody /\ acked' = heard /\ confirming' = b
        /\ inMac' = [inMac EXCEPT ![b] = Nobody] /\ verdict' = Heard(b, heard)
        /\ UNCHANGED <<busy, done, link, pc, tries, frame, ack, returned, lent, guessed>>
    BY DEF Confirm
  <1>2. TypeOK /\ s \in Senders /\ pc[s] = "wait" /\ frame[s] = b /\ pc[s] \in Inside
    BY <1>1 DEF SendInv, TypeOK, PendingInv, Inside
  <1>3. /\ \A t \in Senders : t # s => pc[t] \notin Inside /\ pc[t] \notin Filling /\ pc[t] # "wait"
        /\ \A d \in Buffers : d # b => inMac[d] = Nobody
    BY <1>2, Alone DEF SendInv, PendingInv
  <1>4. done = 0
    <2>1. inMac[frame[s]] = s /\ done \in {0, 1}
      BY <1>2 DEF TypeOK
    <2> QED
      BY <1>2, <2>1 DEF SendInv, FlagsInv
  <1>5. /\ verdict' \in [Senders -> {"none", "no", "yes"}]
        /\ verdict'[s] = IF heard = 1 THEN "yes" ELSE "no"
        /\ \A t \in Senders : t # s => verdict'[t] = verdict[t]
    BY <1>1, <1>2, <1>3 DEF Heard, TypeOK
  <1>6. inMac' \in [Buffers -> Senders \cup {Nobody}] /\ \A d \in Buffers : inMac'[d] = Nobody
    BY <1>1, <1>2, <1>3 DEF TypeOK
  <1>7. TypeOK'
    BY <1>1, <1>2, <1>5, <1>6 DEF TypeOK
  <1>8. LockInv' /\ FrameInv'
    BY <1>1 DEF SendInv, LockInv, FrameInv
  <1>9. PendingInv'
    BY <1>1, <1>2, <1>6 DEF PendingInv
  <1>10. FlagsInv'
    <2>1. \A t \in Senders : t # s => pc'[t] \notin {"reset ack", "submit", "wait"}
      BY <1>1, <1>3 DEF Filling
    <2>2. inMac'[frame[s]] # s
      BY <1>2, <1>6
    <2> QED
      BY <1>1, <1>2, <1>4, <1>5, <2>1, <2>2 DEF FlagsInv
  <1>11. AckIsOwn'
    BY <1>1, <1>2, <1>5 DEF SendInv, AckIsOwn
  <1> QED
    BY <1>1, <1>7, <1>8, <1>9, <1>10, <1>11 DEF SendInv

LEMMA ConfirmDoneKeeps ==
  ASSUME SendInv, ConfirmDone
  PROVE  SendInv' /\ UNCHANGED tries
  <1> USE L2Assumption DEF L2Assumption, caller, history
  <1>1. /\ confirming # Nobody /\ confirming' = Nobody /\ done' = 1
        /\ UNCHANGED <<busy, acked, link, pc, tries, frame, ack, returned, inMac, lent>>
        /\ UNCHANGED <<verdict, guessed>>
    BY DEF ConfirmDone
  <1>2. PICK s \in Senders : pc[s] = "wait" /\ frame[s] = confirming
    BY <1>1 DEF SendInv, PendingInv
  <1>3. /\ \A t \in Senders : t # s => pc[t] \notin Inside /\ pc[t] \notin Filling /\ pc[t] # "wait"
        /\ pc[s] \in Inside
    <2>1. pc[s] \in Inside
      BY <1>2 DEF Inside
    <2> QED
      BY <2>1, Alone
  <1>4. TypeOK'
    BY <1>1 DEF SendInv, TypeOK
  <1>5. LockInv' /\ FrameInv' /\ AckIsOwn' /\ PendingInv'
    BY <1>1 DEF SendInv, LockInv, FrameInv, AckIsOwn, PendingInv
  <1>6. FlagsInv'
    <2>1. inMac[frame[s]] # s /\ verdict[s] = IF acked = 1 THEN "yes" ELSE "no"
      BY <1>1, <1>2 DEF SendInv, FlagsInv
    <2>2. \A t \in Senders : t # s => pc'[t] \notin {"reset ack", "submit", "wait"}
      BY <1>1, <1>3 DEF Filling
    <2> QED
      BY <1>1, <1>2, <2>1, <2>2 DEF FlagsInv
  <1> QED
    BY <1>1, <1>4, <1>5, <1>6 DEF SendInv

LEMMA SurroundingsKeep ==
  ASSUME SendInv,
         \/ \E b \in Buffers : LoseConfirmation(b) \/ OtherTraffic(b)
         \/ LinkChange \/ UNCHANGED vars
  PROVE  SendInv' /\ UNCHANGED tries
  <1> USE L2Assumption DEF L2Assumption, flags, caller, history
  <1>1. /\ UNCHANGED <<busy, done, acked, pc, tries, frame, ack, returned, confirming>>
        /\ UNCHANGED <<verdict, guessed>>
        /\ \/ UNCHANGED inMac
           \/ \E b \in Buffers : inMac' = [inMac EXCEPT ![b] = Nobody]
        /\ link' \in BOOLEAN /\ lent' \subseteq Buffers
    BY DEF LoseConfirmation, OtherTraffic, LinkChange, vars, mac, SendInv, TypeOK, Free
  <1>2. /\ inMac' \in [Buffers -> Senders \cup {Nobody}]
        /\ \A b \in Buffers : inMac'[b] = inMac[b] \/ inMac'[b] = Nobody
    BY <1>1 DEF SendInv, TypeOK
  <1>3. TypeOK'
    BY <1>1, <1>2 DEF SendInv, TypeOK
  <1>4. LockInv' /\ FrameInv' /\ AckIsOwn'
    BY <1>1 DEF SendInv, LockInv, FrameInv, AckIsOwn
  <1>5. PendingInv'
    BY <1>1, <1>2 DEF SendInv, PendingInv
  <1>6. FlagsInv'
    <2>1. \A s \in Senders : pc[s] = "wait" =>
            frame[s] \in Buffers /\ (inMac'[frame[s]] = s => inMac[frame[s]] = s)
      BY <1>2 DEF SendInv, FrameInv
    <2> QED
      BY <1>1, <2>1 DEF SendInv, FlagsInv
  <1> QED
    BY <1>1, <1>3, <1>4, <1>5, <1>6 DEF SendInv

-----------------------------------------------------------------------------
(* The theorems.                                                           *)

LEMMA StepKeeps ==
  ASSUME ~Late, SendInv, [Next]_vars
  PROVE  SendInv' /\ \A t \in Senders : tries'[t] > tries[t] => verdict[t] = "no"
  <1>1. ASSUME UNCHANGED tries \/ \A t \in Senders : tries'[t] <= tries[t], SendInv'
        PROVE  \A t \in Senders : ~ (tries'[t] > tries[t])
    <2>1. \A t \in Senders : tries[t] \in Nat /\ tries'[t] \in Nat
      BY <1>1, L2Assumption DEF L2Assumption, SendInv, TypeOK
    <2> QED
      BY <1>1, <2>1
  <1>2. ASSUME NEW s \in Senders, Quiet(s) PROVE SendInv' /\ \A t \in Senders : tries'[t] <= tries[t]
    BY <1>2, QuietKeeps DEF Quiet
  <1>3. ASSUME NEW s \in Senders, Refuse(s) \/ Enter(s) \/ SendStep(s)
        PROVE  SendInv' /\ \A t \in Senders : tries'[t] > tries[t] => verdict[t] = "no"
    <2>1. CASE WaitDone(s) \/ WaitTimeout(s)
      BY <2>1, WaitingKeeps
    <2>2. CASE Submit(s)
      BY <1>1, <2>2, SubmittingKeeps
    <2>3. CASE ~ (WaitDone(s) \/ WaitTimeout(s) \/ Submit(s))
      <3>1. Quiet(s)
        BY <1>3, <2>3, EnteringIsQuiet, PreparingIsQuiet, LeavingIsQuiet DEF SendStep
      <3> QED
        BY <1>1, <1>2, <3>1
    <2> QED
      BY <2>1, <2>2, <2>3
  <1>4. CASE \/ \E b \in Buffers : LoseConfirmation(b) \/ OtherTraffic(b)
             \/ LinkChange \/ UNCHANGED vars
    BY <1>1, <1>4, SurroundingsKeep
  <1>5. CASE ConfirmDone
    BY <1>1, <1>5, ConfirmDoneKeeps
  <1>6. CASE \E b \in Buffers : \E heard \in {0, 1} : Confirm(b, heard)
    BY <1>1, <1>6, ConfirmingKeeps
  <1> QED
    BY <1>3, <1>4, <1>5, <1>6 DEF Next

LEMMA Invariance == ASSUME ~Late PROVE Spec => []SendInv
  <1>1. SendInv /\ [Next]_vars => SendInv'
    BY StepKeeps
  <1> QED
    BY <1>1, InitHolds, PTL DEF Spec

\* net_l2_send: when the MAC confirms a frame within L2_CFM_TIMEOUT_MS or
\* never, what a call reports is what the MAC said of the caller's own frame.
THEOREM AcksAreSound == ASSUME ~Late PROVE Spec => []AcksSound
  <1>1. SendInv => AcksSound
    BY DEF SendInv, AcksSound
  <1> QED
    BY <1>1, Invariance, PTL

\* net_l2_send: on the same condition, a frame is sent again only after the MAC
\* said that its peer did not hear it.
THEOREM OnlyUnheardIsRetried == ASSUME ~Late PROVE Spec => RetriesAreUnheard
  <1>1. SendInv /\ [Next]_vars =>
          [\A s \in Senders : tries'[s] > tries[s] => verdict[s] = "no"]_vars
    BY StepKeeps
  <1> QED
    BY <1>1, Invariance, PTL DEF Spec, RetriesAreUnheard
=============================================================================
