--------------------------- MODULE ControlProofs ----------------------------
(***************************************************************************)
(* Proofs about Control, for any timeout: while the application calls only *)
(* when the manager has had its say, what an operation returns is true of  *)
(* that very call.                                                         *)
(***************************************************************************)
EXTENDS Control, TLAPS

\* A call begins with nothing owed to an earlier one, and everything the
\* manager is still to post is of this call.
OwedInv ==
  /\ pc \in {"clear", "ask"} => pending = << >> /\ posted = {}
  /\ \A p \in Range(pending) : p[2] = TRUE

\* The latch holds no event of an earlier call, of those this one looks at.
FreshInv ==
  /\ pc = "clear" => LATCH \cap Range(Cleared(op)) \subseteq Range(todo)
  /\ pc \in {"ask", "look", "address"} => LATCH \cap Range(Cleared(op)) \subseteq posted

\* Nothing that was posted for it is gone but what it has taken, and a pass has
\* yet to look at all that was there when it began.
KeptInv ==
  pc = "look" =>
    /\ Range(todo) \subseteq Range(Awaited(op, stage))
    /\ posted \subseteq LATCH \cup (IF stage = 1 THEN {} ELSE {"Connected"})
    /\ seen \cap Range(Awaited(op, stage)) \subseteq Range(todo)

\* Which wait an operation is in says what it has been told.
StageInv ==
  /\ pc # "idle" => result = "none"
  /\ pc = "look" /\ stage = 2 => op = "connect" /\ "Connected" \in posted
  /\ pc = "address" => op = "start_ap" /\ "ApStarted" \in posted
  /\ pc = "look" /\ op \in Joins /\ "GotIp" \in posted => hasAddr \/ "LostIp" \in posted

\* The sleeps of one wait, or of two.
TimeInv ==
  /\ spent <= waited + (IF stage = 1 THEN 0 ELSE Timeout)
  /\ pc \in {"clear", "ask"} => spent = 0

ControlInv == OutcomesTrue /\ OwedInv /\ FreshInv /\ KeptInv /\ StageInv /\ TimeInv

-----------------------------------------------------------------------------
(* The lists of events.                                                    *)

LEMMA TakenFromList ==
  ASSUME NEW S, NEW q \in Seq(S), q # << >>
  PROVE  /\ Tail(q) \in Seq(S) /\ Head(q) \in S /\ Head(q) \in Range(q)
         /\ Len(q) \in Nat /\ Len(Tail(q)) = Len(q) - 1
         /\ Range(Tail(q)) \subseteq Range(q)
         /\ Range(q) \subseteq Range(Tail(q)) \cup {Head(q)}
  <1>1. /\ Tail(q) \in Seq(S) /\ Len(Tail(q)) = Len(q) - 1 /\ Len(q) \in Nat \ {0}
        /\ Head(q) = q[1] /\ \A i \in 1 .. Len(q) - 1 : Tail(q)[i] = q[i + 1]
    OBVIOUS
  <1>2. DOMAIN q = 1 .. Len(q) /\ DOMAIN Tail(q) = 1 .. Len(q) - 1
    BY <1>1
  <1>3. Head(q) \in Range(q) /\ Head(q) \in S
    BY <1>1, <1>2 DEF Range
  <1>4. ASSUME NEW i \in 1 .. Len(q) - 1 PROVE Tail(q)[i] \in Range(q)
    <2>1. i + 1 \in 1 .. Len(q)
      BY <1>1
    <2> QED
      BY <1>1, <1>2, <2>1 DEF Range
  <1>5. Range(Tail(q)) \subseteq Range(q)
    BY <1>2, <1>4 DEF Range
  <1>6. ASSUME NEW i \in 1 .. Len(q) PROVE q[i] \in Range(Tail(q)) \cup {Head(q)}
    <2>1. CASE i = 1
      BY <1>1, <2>1
    <2>2. CASE i # 1
      <3>1. i - 1 \in 1 .. Len(q) - 1 /\ (i - 1) + 1 = i
        BY <1>1, <2>2
      <3>2. Tail(q)[i - 1] = q[i]
        BY <1>1, <3>1
      <3> QED
        BY <1>2, <3>1, <3>2 DEF Range
    <2> QED
      BY <2>1, <2>2
  <1>7. Range(q) \subseteq Range(Tail(q)) \cup {Head(q)}
    BY <1>2, <1>6 DEF Range
  <1> QED
    BY <1>1, <1>3, <1>5, <1>7

LEMMA EmptyList == Range(<< >>) = {}
  BY DEF Range

\* A wait looks only at events that its operation has cleared.
LEMMA Lists ==
  ASSUME NEW o \in Ops, NEW s \in {1, 2}
  PROVE  /\ Cleared(o) \in Seq(Event) /\ Len(Cleared(o)) <= 5
         /\ Awaited(o, s) \in Seq(Event) /\ Len(Awaited(o, s)) <= 5
         /\ Range(Awaited(o, s)) \subseteq Range(Cleared(o))
  <1>1. CASE o \in Joins
    <2>1. Cleared(o) = <<"Connected", "Disconnected", "GotIp", "GotIpTimeout", "ParamsError">>
      BY <1>1 DEF Cleared, Joins
    <2>2. CASE s = 1
      <3>1. Awaited(o, s) = <<"Connected", "Disconnected", "ParamsError">>
        BY <1>1, <2>2 DEF Awaited, Joins
      <3> QED
        BY <2>1, <3>1 DEF Range, Event
    <2>3. CASE s = 2
      <3>1. Awaited(o, s) = <<"GotIp", "GotIpTimeout", "Disconnected">>
        BY <1>1, <2>3 DEF Awaited, Joins
      <3> QED
        BY <2>1, <3>1 DEF Range, Event
    <2> QED
      BY <2>2, <2>3
  <1>2. CASE o = "disconnect"
    BY <1>2 DEF Cleared, Awaited, Joins, Range, Event
  <1>3. CASE o = "scan"
    BY <1>3 DEF Cleared, Awaited, Joins, Range, Event
  <1>4. CASE o = "start_ap"
    BY <1>4 DEF Cleared, Awaited, Joins, Range, Event
  <1>5. CASE o = "stop_ap"
    BY <1>5 DEF Cleared, Awaited, Joins, Range, Event
  <1> QED
    BY <1>1, <1>2, <1>3, <1>4, <1>5 DEF Ops, Joins

\* What an event may be that a wait looks at.
LEMMA Looked ==
  ASSUME NEW o \in Ops, NEW s \in {1, 2}, NEW e \in Range(Awaited(o, s)), s = 2 => o = "connect"
  PROVE  /\ o \in Joins /\ s = 1 => e \in {"Connected", "Disconnected", "ParamsError"}
         /\ s = 2 => e \in {"GotIp", "GotIpTimeout", "Disconnected"}
         /\ o = "disconnect" => e = "Disconnected"
         /\ o = "scan" => e = "ScanDone"
         /\ o = "start_ap" => e \in {"ApStarted", "ApStopped", "ParamsError"}
         /\ o = "stop_ap" => e = "ApStopped"
  BY DEF Awaited, Joins, Range, Ops

LEMMA ShortLists ==
  ASSUME NEW S
  PROVE  /\ << >> \in Seq(S) /\ Len(<< >>) <= 3
         /\ \A a \in S : <<a>> \in Seq(S) /\ Len(<<a>>) <= 3
         /\ \A a, b \in S : <<a, b>> \in Seq(S) /\ Len(<<a, b>>) <= 3
         /\ \A a, b, c \in S : <<a, b, c>> \in Seq(S) /\ Len(<<a, b, c>>) <= 3
  OBVIOUS

LEMMA Answers ==
  ASSUME NEW o \in Ops, NEW outcome \in Outcomes(o)
  PROVE  outcome \in Seq(Event) /\ Len(outcome) <= 3
  <1> DEFINE Short(q) == q \in Seq(Event) /\ Len(q) <= 3
  <1>1. /\ Short(<< >>)
        /\ \A a \in Event : Short(<<a>>)
        /\ \A a, b \in Event : Short(<<a, b>>)
        /\ \A a, b, c \in Event : Short(<<a, b, c>>)
    BY ShortLists
  <1>2. /\ "Connected" \in Event /\ "Disconnected" \in Event /\ "GotIp" \in Event
        /\ "LostIp" \in Event /\ "GotIpTimeout" \in Event /\ "ScanDone" \in Event
        /\ "ApStarted" \in Event /\ "ApStopped" \in Event /\ "ParamsError" \in Event
    BY DEF Event
  <1> SUFFICES Short(outcome)
    OBVIOUS
  <1> HIDE DEF Short
  <1>3. CASE o \in Joins
    <2>1. Outcomes(o) =
           {<< >>, <<"ParamsError">>, <<"Disconnected">>, <<"Connected">>,
            <<"Connected", "Disconnected">>, <<"Connected", "GotIpTimeout">>,
            <<"Connected", "GotIp">>, <<"Connected", "GotIp", "LostIp">>,
            <<"Connected", "GotIp", "Disconnected">>}
      BY <1>3, Zenon DEF Outcomes, Joins
    <2> QED
      BY <1>1, <1>2, <2>1, Zenon
  <1>4. CASE o = "disconnect"
    <2>1. Outcomes(o) = {<< >>, <<"Disconnected">>}
      BY <1>4 DEF Outcomes, Joins
    <2> QED
      BY <1>1, <1>2, <2>1, Zenon
  <1>5. CASE o = "scan"
    <2>1. Outcomes(o) = {<< >>, <<"ScanDone">>}
      BY <1>5 DEF Outcomes, Joins
    <2> QED
      BY <1>1, <1>2, <2>1, Zenon
  <1>6. CASE o = "start_ap"
    <2>1. Outcomes(o) = {<< >>, <<"ApStarted">>, <<"ApStopped">>,
                         <<"ParamsError">>, <<"ApStarted", "ApStopped">>}
      BY <1>6 DEF Outcomes, Joins
    <2> QED
      BY <1>1, <1>2, <2>1, Zenon
  <1>7. CASE o = "stop_ap"
    <2>1. Outcomes(o) = {<< >>, <<"ApStopped">>}
      BY <1>7 DEF Outcomes, Joins
    <2> QED
      BY <1>1, <1>2, <2>1, Zenon
  <1> QED
    BY <1>3, <1>4, <1>5, <1>6, <1>7 DEF Ops, Joins

-----------------------------------------------------------------------------
(* Every step keeps the invariant.                                         *)

LEMMA InitHolds == Init => ControlInv
  <1> SUFFICES ASSUME Init PROVE ControlInv
    OBVIOUS
  <1>1. pending \in Seq(Event \X BOOLEAN) /\ Len(pending) = 0
        /\ todo \in Seq(Event) /\ Len(todo) = 0
    BY DEF Init
  <1>2. /\ 0 \in 0 .. Timeout /\ 0 \in 0 .. 2 * Timeout /\ 0 <= MaxPending + 3 /\ 0 <= 5
    BY ControlAssumption
  <1>3. TypeOK
    <2>1. "connect" \in Ops /\ "none" \in Results
      BY DEF Ops, Results
    <2> QED
      BY <1>1, <1>2, <2>1 DEF Init, TypeOK
  <1>4. OutcomeIsOwn /\ TimeoutMissedNothing
    BY DEF Init, OutcomeIsOwn, TimeoutMissedNothing
  <1>5. OwedInv
    BY EmptyList DEF Init, OwedInv
  <1>6. FreshInv /\ KeptInv /\ StageInv /\ TimeInv
    BY <1>2 DEF Init, FreshInv, KeptInv, StageInv, TimeInv
  <1> QED
    BY <1>3, <1>4, <1>5, <1>6 DEF ControlInv, OutcomesTrue

\* What the manager posts is of this call, and no call is then clearing.
LEMMA PostHolds == ControlInv /\ Post => ControlInv'
  <1> SUFFICES ASSUME ControlInv, Post PROVE ControlInv'
    OBVIOUS
  <1> PICK p : p = Head(pending)
    OBVIOUS
  <1> PICK e : e = p[1]
    OBVIOUS
  <1> USE ControlAssumption
  <1>1. /\ TypeOK /\ OutcomeIsOwn /\ TimeoutMissedNothing
        /\ OwedInv /\ FreshInv /\ KeptInv /\ StageInv /\ TimeInv
    BY DEF ControlInv, OutcomesTrue
  <1>2. pending \in Seq(Event \X BOOLEAN) /\ pending # << >>
    BY <1>1 DEF TypeOK, Post
  <1>3. /\ Tail(pending) \in Seq(Event \X BOOLEAN) /\ Len(Tail(pending)) = Len(pending) - 1
        /\ Len(pending) \in Nat /\ Range(Tail(pending)) \subseteq Range(pending)
        /\ p \in Event \X BOOLEAN /\ p \in Range(pending)
    BY <1>2, TakenFromList
  <1>4. p[2] = TRUE /\ e \in Event
    BY <1>1, <1>3 DEF OwedInv
  <1>5. /\ LATCH' = LATCH \cup {e} /\ posted' = posted \cup {e}
        /\ pending' = Tail(pending)
        /\ hasAddr' = ((hasAddr \/ e = "GotIp") /\ e # "LostIp")
        /\ UNCHANGED <<pc, op, todo, stage, waited, spent, result, addressed, seen>>
    BY <1>4 DEF Post
  <1>6. pc \notin {"clear", "ask"}
    BY <1>1, <1>2 DEF OwedInv
  <1>7. hasAddr' \in BOOLEAN /\ (hasAddr' <=> (hasAddr \/ e = "GotIp") /\ e # "LostIp")
    BY <1>5
  <1>8. TypeOK'
    <2>1. pending' \in Seq(Event \X BOOLEAN) /\ Len(pending') <= MaxPending + 3
      BY <1>1, <1>3, <1>5 DEF TypeOK
    <2>2. LATCH' \subseteq Event /\ posted' \subseteq Event /\ seen' \subseteq posted'
      BY <1>1, <1>4, <1>5 DEF TypeOK
    <2> QED
      BY <1>1, <1>5, <1>7, <2>1, <2>2 DEF TypeOK
  <1>9. OutcomeIsOwn'
    BY <1>1, <1>5 DEF OutcomeIsOwn
  <1>10. TimeoutMissedNothing'
    BY <1>1, <1>5 DEF TimeoutMissedNothing
  <1>11. OwedInv'
    BY <1>1, <1>3, <1>5, <1>6 DEF OwedInv
  <1>12. FreshInv'
    BY <1>1, <1>5, <1>6 DEF FreshInv
  <1>13. KeptInv'
    BY <1>1, <1>5 DEF KeptInv
  <1>14. StageInv'
    <2>1. "GotIp" \in posted' /\ ("GotIp" \in posted => hasAddr \/ "LostIp" \in posted)
             => hasAddr' \/ "LostIp" \in posted'
      BY <1>5, <1>7
    <2> QED
      BY <1>1, <1>5, <2>1 DEF StageInv
  <1>15. TimeInv'
    BY <1>1, <1>5 DEF TimeInv
  <1> QED
    BY <1>8, <1>9, <1>10, <1>11, <1>12, <1>13, <1>14, <1>15 DEF ControlInv, OutcomesTrue

\* A call of an application that has waited begins with nothing owed.
LEMMA CallHolds ==
  ASSUME Settled, ControlInv, NEW o \in Ops, Call(o) PROVE ControlInv'
  <1> USE ControlAssumption
  <1>1. TypeOK
    BY DEF ControlInv, OutcomesTrue
  <1>2. pending = << >>
    BY DEF Call
  <1>3. Len(pending) = 0
    BY <1>2
  <1>4. pending' = [i \in 1 .. 0 |-> <<pending[i][1], FALSE>>]
    BY <1>3 DEF Call
  <1>5. pending' = << >>
    BY <1>4
  <1>6. /\ LATCH' = LATCH /\ hasAddr' = hasAddr /\ op' = o /\ stage' = 1
        /\ spent' = 0 /\ waited' = 0 /\ addressed' = FALSE /\ posted' = {} /\ seen' = {}
    BY DEF Call
  <1>7. /\ pc' \in {"clear", "idle"} /\ result' \in {"none", "rejected"}
        /\ pc' = "clear" => todo' = Cleared(o) /\ result' = "none"
        /\ pc' = "idle" => todo' = << >> /\ result' = "rejected"
    BY DEF Call
  <1>8. todo' \in Seq(Event) /\ Len(todo') <= 5
    <2>1. CASE pc' = "clear"
      BY <1>7, <2>1, Lists
    <2>2. CASE pc' = "idle"
      BY <1>7, <2>2
    <2> QED
      BY <1>7, <2>1, <2>2
  <1>9. TypeOK'
    <2>1. pending' \in Seq(Event \X BOOLEAN) /\ Len(pending') = 0
      BY <1>5
    <2>2. 0 \in 0 .. Timeout /\ 0 \in 0 .. 2 * Timeout /\ 0 <= MaxPending + 3
      OBVIOUS
    <2>3. result' \in Results
      BY <1>7 DEF Results
    <2> QED
      BY <1>1, <1>6, <1>7, <1>8, <2>1, <2>2, <2>3 DEF TypeOK
  <1>10. OutcomeIsOwn' /\ TimeoutMissedNothing'
    BY <1>7 DEF OutcomeIsOwn, TimeoutMissedNothing
  <1>11. OwedInv'
    BY <1>5, <1>6, EmptyList DEF OwedInv
  <1>12. FreshInv'
    BY <1>6, <1>7 DEF FreshInv
  <1>13. KeptInv' /\ StageInv' /\ TimeInv'
    BY <1>6, <1>7 DEF KeptInv, StageInv, TimeInv
  <1> QED
    BY <1>9, <1>10, <1>11, <1>12, <1>13 DEF ControlInv, OutcomesTrue

\* An event that has been cleared is not in the latch again until it is posted.
LEMMA ClearHolds == ControlInv /\ Clear => ControlInv'
  <1> SUFFICES ASSUME ControlInv, Clear PROVE ControlInv'
    OBVIOUS
  <1>1. /\ TypeOK /\ OutcomeIsOwn /\ TimeoutMissedNothing
        /\ OwedInv /\ FreshInv /\ KeptInv /\ StageInv /\ TimeInv
    BY DEF ControlInv, OutcomesTrue
  <1>2. /\ pc = "clear" /\ LATCH' = LATCH \ {Head(todo)} /\ todo' = Tail(todo)
        /\ UNCHANGED <<pending, hasAddr, pc, op, stage, waited, spent, result,
                       addressed, posted, seen>>
    BY DEF Clear, manager, history
  <1>3. /\ Tail(todo) \in Seq(Event) /\ Len(Tail(todo)) = Len(todo) - 1 /\ Len(todo) \in Nat
        /\ Range(todo) \subseteq Range(Tail(todo)) \cup {Head(todo)}
    <2>1. todo \in Seq(Event) /\ todo # << >>
      BY <1>1 DEF TypeOK, Clear
    <2> QED
      BY <2>1, TakenFromList
  <1>4. TypeOK'
    <2>1. todo' \in Seq(Event) /\ Len(todo') <= 5
      BY <1>1, <1>2, <1>3 DEF TypeOK
    <2> QED
      BY <1>1, <1>2, <2>1 DEF TypeOK
  <1>5. OutcomeIsOwn' /\ TimeoutMissedNothing'
    BY <1>1, <1>2 DEF OutcomeIsOwn, TimeoutMissedNothing
  <1>6. FreshInv'
    BY <1>1, <1>2, <1>3 DEF FreshInv
  <1>7. OwedInv' /\ KeptInv' /\ StageInv' /\ TimeInv'
    BY <1>1, <1>2 DEF OwedInv, KeptInv, StageInv, TimeInv
  <1> QED
    BY <1>4, <1>5, <1>6, <1>7 DEF ControlInv, OutcomesTrue

LEMMA ClearDoneHolds == ControlInv /\ ClearDone => ControlInv'
  <1> SUFFICES ASSUME ControlInv, ClearDone PROVE ControlInv'
    OBVIOUS
  <1>1. /\ TypeOK /\ OutcomeIsOwn /\ TimeoutMissedNothing
        /\ OwedInv /\ FreshInv /\ KeptInv /\ StageInv /\ TimeInv
    BY DEF ControlInv, OutcomesTrue
  <1>2. /\ pc = "clear" /\ todo = << >> /\ pc' = "ask"
        /\ UNCHANGED <<LATCH, pending, hasAddr, op, todo, stage, waited, spent, result,
                       addressed, posted, seen>>
    BY DEF ClearDone, manager, history
  <1>3. TypeOK'
    BY <1>1, <1>2 DEF TypeOK
  <1>4. OutcomeIsOwn' /\ TimeoutMissedNothing'
    BY <1>1, <1>2 DEF OutcomeIsOwn, TimeoutMissedNothing
  <1>5. FreshInv'
    BY <1>1, <1>2, EmptyList DEF FreshInv
  <1>6. OwedInv' /\ KeptInv' /\ StageInv' /\ TimeInv'
    BY <1>1, <1>2 DEF OwedInv, KeptInv, StageInv, TimeInv
  <1> QED
    BY <1>3, <1>4, <1>5, <1>6 DEF ControlInv, OutcomesTrue

\* When the manager is asked, the latch holds nothing the operation looks at.
LEMMA AskHolds == ControlInv /\ Ask => ControlInv'
  <1> SUFFICES ASSUME ControlInv, Ask PROVE ControlInv'
    OBVIOUS
  <1> USE ControlAssumption
  <1>1. /\ TypeOK /\ OutcomeIsOwn /\ TimeoutMissedNothing
        /\ OwedInv /\ FreshInv /\ KeptInv /\ StageInv /\ TimeInv
    BY DEF ControlInv, OutcomesTrue
  <1>2. /\ pc = "ask" /\ LATCH' = LATCH /\ op' = op /\ waited' = waited /\ spent' = spent
        /\ addressed' = addressed /\ posted' = posted
        /\ hasAddr' = (hasAddr /\ op \notin Joins)
    BY DEF Ask
  <1>3. /\ pending = << >> /\ posted = {} /\ spent = 0 /\ seen = {}
        /\ LATCH \cap Range(Cleared(op)) = {}
    BY <1>1, <1>2 DEF OwedInv, TimeInv, TypeOK, FreshInv
  <1>4. hasAddr' \in BOOLEAN /\ (op \in Joins => ~hasAddr')
    BY <1>2
  <1>5. CASE pc' = "idle" /\ result' = "vendor" /\ todo' = << >>
             /\ UNCHANGED <<pending, stage, seen>>
    <2>1. TypeOK'
      <3>1. todo' \in Seq(Event) /\ Len(todo') <= 5 /\ result' \in Results
        BY <1>5 DEF Results
      <3> QED
        BY <1>1, <1>2, <1>4, <1>5, <3>1 DEF TypeOK
    <2>2. OutcomeIsOwn' /\ TimeoutMissedNothing'
      BY <1>5 DEF OutcomeIsOwn, TimeoutMissedNothing
    <2>3. OwedInv' /\ FreshInv' /\ KeptInv' /\ StageInv' /\ TimeInv'
      BY <1>1, <1>2, <1>3, <1>5 DEF OwedInv, FreshInv, KeptInv, StageInv, TimeInv
    <2> QED
      BY <2>1, <2>2, <2>3 DEF ControlInv, OutcomesTrue
  <1>6. ASSUME NEW outcome \in Outcomes(op),
               pending' = pending \o [i \in DOMAIN outcome |-> <<outcome[i], TRUE>>],
               Pass(1), UNCHANGED result
        PROVE  ControlInv'
    <2> DEFINE f == [i \in DOMAIN outcome |-> <<outcome[i], TRUE>>]
    <2>1. op \in Ops
      BY <1>1 DEF TypeOK
    <2>2. outcome \in Seq(Event) /\ Len(outcome) <= 3
      BY <2>1, <1>6, Answers
    <2>3. f \in Seq(Event \X BOOLEAN) /\ Len(f) = Len(outcome) /\ DOMAIN f = 1 .. Len(outcome)
      <3>1. DOMAIN outcome = 1 .. Len(outcome) /\ Len(outcome) \in Nat
            /\ \A i \in 1 .. Len(outcome) : outcome[i] \in Event
        BY <2>2
      <3>2. f \in [1 .. Len(outcome) -> Event \X BOOLEAN]
        BY <3>1
      <3> HIDE DEF f
      <3> QED
        BY <3>1, <3>2
    <2>4. pending' = f
      BY <1>3, <1>6, <2>3
    <2>5. \A p \in Range(f) : p[2] = TRUE
      <3>1. \A i \in DOMAIN outcome : f[i][2] = TRUE
        OBVIOUS
      <3>2. DOMAIN f = DOMAIN outcome
        OBVIOUS
      <3> HIDE DEF f
      <3> QED
        BY <3>1, <3>2 DEF Range
    <2>6. /\ pc' = "look" /\ stage' = 1 /\ seen' = {} /\ result' = result
          /\ todo' = Awaited(op, 1)
      BY <1>3, <1>6 DEF Pass
    <2>7. todo' \in Seq(Event) /\ Len(todo') <= 5
      BY <2>1, <2>6, Lists
    <2> HIDE DEF f
    <2>8. TypeOK'
      <3>1. pending' \in Seq(Event \X BOOLEAN) /\ Len(pending') <= MaxPending + 3
        BY <2>2, <2>3, <2>4
      <3> QED
        BY <1>1, <1>2, <1>3, <1>4, <2>6, <2>7, <3>1 DEF TypeOK
    <2>9. OutcomeIsOwn' /\ TimeoutMissedNothing'
      <3>1. result' = "none"
        BY <1>1, <1>2, <2>6 DEF StageInv
      <3> QED
        BY <3>1 DEF OutcomeIsOwn, TimeoutMissedNothing
    <2>10. OwedInv'
      BY <2>4, <2>5, <2>6 DEF OwedInv
    <2>11. FreshInv' /\ KeptInv'
      BY <1>2, <1>3, <2>6 DEF FreshInv, KeptInv
    <2>12. StageInv'
      BY <1>1, <1>2, <1>3, <2>6 DEF StageInv
    <2>13. TimeInv'
      BY <1>1, <1>2, <1>3, <2>6 DEF TimeInv, TypeOK
    <2> QED
      BY <2>8, <2>9, <2>10, <2>11, <2>12, <2>13 DEF ControlInv, OutcomesTrue
  <1> QED
    BY <1>5, <1>6 DEF Ask, Return

LEMMA SleepOnHolds == ControlInv /\ SleepOn => ControlInv'
  <1> SUFFICES ASSUME ControlInv, SleepOn PROVE ControlInv'
    OBVIOUS
  <1> USE ControlAssumption
  <1>1. /\ TypeOK /\ OutcomeIsOwn /\ TimeoutMissedNothing
        /\ OwedInv /\ FreshInv /\ KeptInv /\ StageInv /\ TimeInv
    BY DEF ControlInv, OutcomesTrue
  <1>2. /\ pc = "look" /\ pc' = "look" /\ waited < Timeout /\ waited' = waited + 1
        /\ spent' = spent + 1 /\ stage' = stage /\ seen' = posted /\ todo' = Awaited(op, stage)
        /\ todo = << >>
        /\ UNCHANGED <<LATCH, pending, hasAddr, op, result, addressed, posted>>
    BY DEF SleepOn, Pass, manager
  <1>3. todo' \in Seq(Event) /\ Len(todo') <= 5
    BY <1>1, <1>2, Lists DEF TypeOK
  <1>4. TypeOK'
    <2>1. waited' \in 0 .. Timeout /\ spent' \in 0 .. 2 * Timeout
      BY <1>1, <1>2 DEF TypeOK, TimeInv
    <2> QED
      BY <1>1, <1>2, <1>3, <2>1 DEF TypeOK
  <1>5. OutcomeIsOwn' /\ TimeoutMissedNothing'
    <2>1. result' = "none"
      BY <1>1, <1>2 DEF StageInv
    <2> QED
      BY <2>1 DEF OutcomeIsOwn, TimeoutMissedNothing
  <1>6. OwedInv' /\ FreshInv' /\ KeptInv' /\ StageInv'
    BY <1>1, <1>2 DEF OwedInv, FreshInv, KeptInv, StageInv
  <1>7. TimeInv'
    BY <1>1, <1>2 DEF TimeInv, TypeOK
  <1> QED
    BY <1>4, <1>5, <1>6, <1>7 DEF ControlInv, OutcomesTrue

\* It gives up when it has looked at every event of a pass and taken none.
LEMMA GiveUpHolds == ControlInv /\ GiveUp => ControlInv'
  <1> SUFFICES ASSUME ControlInv, GiveUp PROVE ControlInv'
    OBVIOUS
  <1>1. /\ TypeOK /\ OutcomeIsOwn /\ TimeoutMissedNothing
        /\ OwedInv /\ FreshInv /\ KeptInv /\ StageInv /\ TimeInv
    BY DEF ControlInv, OutcomesTrue
  <1>2. /\ pc = "look" /\ pc' = "idle" /\ todo = << >> /\ todo' = << >>
        /\ result' = IF op \in {"disconnect", "stop_ap"} THEN "ok" ELSE "timeout"
        /\ UNCHANGED <<LATCH, pending, hasAddr, op, stage, waited, spent,
                       addressed, posted, seen>>
    BY DEF GiveUp, Return, manager, history
  <1>3. TypeOK'
    <2>1. result' \in Results
      BY <1>2 DEF Results
    <2> QED
      BY <1>1, <1>2, <2>1 DEF TypeOK
  <1>4. OutcomeIsOwn'
    BY <1>2 DEF OutcomeIsOwn, Joins
  <1>5. TimeoutMissedNothing'
    BY <1>1, <1>2, EmptyList DEF TimeoutMissedNothing, KeptInv
  <1>6. OwedInv' /\ FreshInv' /\ KeptInv' /\ StageInv' /\ TimeInv'
    BY <1>1, <1>2 DEF OwedInv, FreshInv, KeptInv, StageInv, TimeInv
  <1> QED
    BY <1>3, <1>4, <1>5, <1>6 DEF ControlInv, OutcomesTrue

LEMMA AssertAddressHolds == ControlInv /\ AssertAddress => ControlInv'
  <1> SUFFICES ASSUME ControlInv, AssertAddress PROVE ControlInv'
    OBVIOUS
  <1>1. /\ TypeOK /\ OutcomeIsOwn /\ TimeoutMissedNothing
        /\ OwedInv /\ FreshInv /\ KeptInv /\ StageInv /\ TimeInv
    BY DEF ControlInv, OutcomesTrue
  <1>2. /\ pc = "address" /\ pc' = "idle" /\ todo' = << >>
        /\ addressed' \in BOOLEAN /\ result' = IF addressed' THEN "ok" ELSE "vendor"
        /\ UNCHANGED <<LATCH, pending, hasAddr, op, stage, waited, spent, posted, seen>>
    BY DEF AssertAddress, Return, manager, history
  <1>3. op = "start_ap" /\ "ApStarted" \in posted
    BY <1>1, <1>2 DEF StageInv
  <1>4. TypeOK'
    <2>1. result' \in Results /\ todo' \in Seq(Event) /\ Len(todo') <= 5
      BY <1>2 DEF Results
    <2> QED
      BY <1>1, <1>2, <2>1 DEF TypeOK
  <1>5. OutcomeIsOwn' /\ TimeoutMissedNothing'
    BY <1>2, <1>3 DEF OutcomeIsOwn, TimeoutMissedNothing, Joins
  <1>6. OwedInv' /\ FreshInv' /\ KeptInv' /\ StageInv' /\ TimeInv'
    BY <1>1, <1>2 DEF OwedInv, FreshInv, KeptInv, StageInv, TimeInv
  <1> QED
    BY <1>4, <1>5, <1>6 DEF ControlInv, OutcomesTrue

\* What a wait takes was posted for its call, and what it passes over had not
\* been when the pass began.
LEMMA LookHolds == ControlInv /\ Look => ControlInv'
  <1> SUFFICES ASSUME ControlInv, Look PROVE ControlInv'
    OBVIOUS
  <1> PICK h : h = Head(todo)
    OBVIOUS
  <1> USE ControlAssumption
  <1>1. /\ TypeOK /\ OutcomeIsOwn /\ TimeoutMissedNothing
        /\ OwedInv /\ FreshInv /\ KeptInv /\ StageInv /\ TimeInv
    BY DEF ControlInv, OutcomesTrue
  <1>2. /\ pc = "look" /\ LATCH' = LATCH \ {h}
        /\ UNCHANGED <<pending, hasAddr, op, spent, addressed, posted>>
    BY DEF Look, manager
  <1>3. /\ Tail(todo) \in Seq(Event) /\ Len(Tail(todo)) = Len(todo) - 1 /\ Len(todo) \in Nat
        /\ Range(Tail(todo)) \subseteq Range(todo)
        /\ Range(todo) \subseteq Range(Tail(todo)) \cup {h}
        /\ h \in Range(todo) /\ h \in Event
    <2>1. todo \in Seq(Event) /\ todo # << >>
      BY <1>1 DEF TypeOK, Look
    <2> QED
      BY <2>1, TakenFromList
  <1>4. op \in Ops /\ stage \in {1, 2} /\ (stage = 2 => op = "connect")
    BY <1>1, <1>2 DEF TypeOK, StageInv
  <1>5. /\ h \in Range(Awaited(op, stage))
        /\ Range(Awaited(op, stage)) \subseteq Range(Cleared(op))
    BY <1>1, <1>2, <1>3, <1>4, Lists DEF KeptInv
  <1>6. /\ op \in Joins /\ stage = 1 => h \in {"Connected", "Disconnected", "ParamsError"}
        /\ stage = 2 => h \in {"GotIp", "GotIpTimeout", "Disconnected"}
        /\ op = "disconnect" => h = "Disconnected"
        /\ op = "scan" => h = "ScanDone"
        /\ op = "start_ap" => h \in {"ApStarted", "ApStopped", "ParamsError"}
        /\ op = "stop_ap" => h = "ApStopped"
    BY <1>4, <1>5, Looked
  <1>7. LATCH' \subseteq Event /\ OwedInv'
    <2>1. LATCH' \subseteq Event
      BY <1>1, <1>2 DEF TypeOK
    <2>2. pc' \notin {"clear", "ask"} => OwedInv'
      BY <1>1, <1>2 DEF OwedInv
    <2>3. pc' \in {"look", "idle", "address"}
      BY <1>2 DEF Look, Decide, Pass, Return
    <2> QED
      BY <2>1, <2>2, <2>3
  <1>8. CASE h \notin LATCH
    <2>1. /\ pc' = "look" /\ LATCH' = LATCH /\ todo' = Tail(todo)
          /\ UNCHANGED <<result, stage, seen, waited>>
      BY <1>2, <1>8 DEF Look
    <2>2. TypeOK'
      <3>1. todo' \in Seq(Event) /\ Len(todo') <= 5
        BY <1>1, <1>3, <2>1 DEF TypeOK
      <3> QED
        BY <1>1, <1>2, <2>1, <3>1 DEF TypeOK
    <2>3. OutcomeIsOwn' /\ TimeoutMissedNothing'
      BY <1>1, <1>2, <2>1 DEF OutcomeIsOwn, TimeoutMissedNothing
    <2>4. KeptInv'
      <3>1. h \in seen => h \in posted
        BY <1>1 DEF TypeOK
      <3>2. h \notin posted
        BY <1>1, <1>2, <1>4, <1>6, <1>8 DEF KeptInv
      <3> QED
        BY <1>1, <1>2, <1>3, <2>1, <3>1, <3>2 DEF KeptInv
    <2>5. FreshInv' /\ StageInv' /\ TimeInv'
      BY <1>1, <1>2, <2>1 DEF FreshInv, StageInv, TimeInv
    <2> QED
      BY <1>7, <2>2, <2>3, <2>4, <2>5 DEF ControlInv, OutcomesTrue
  <1>9. CASE h \in LATCH
    <2>1. Decide(h)
      BY <1>9 DEF Look
    <2>2. h \in posted
      BY <1>1, <1>2, <1>5, <1>9 DEF FreshInv
    <2>3. LATCH' \cap Range(Cleared(op)) \subseteq posted'
      BY <1>1, <1>2 DEF FreshInv
    \* The operation returns.
    <2>4. ASSUME pc' = "idle", todo' = << >>, result' \in Results, OutcomeIsOwn',
                 result' # "timeout", UNCHANGED <<stage, seen, waited>>
          PROVE  ControlInv'
      <3>1. TypeOK'
        BY <1>1, <1>2, <1>7, <2>4 DEF TypeOK
      <3>2. FreshInv' /\ KeptInv' /\ StageInv' /\ TimeInv' /\ TimeoutMissedNothing'
        BY <1>1, <1>2, <2>4 DEF FreshInv, KeptInv, StageInv, TimeInv, TimeoutMissedNothing
      <3> QED
        BY <1>7, <2>4, <3>1, <3>2 DEF ControlInv, OutcomesTrue
    <2>5. CASE op \in Joins /\ stage = 1 /\ h = "Connected"
      <3>1. CASE op = "connect"
        <4>1. /\ pc' = "look" /\ stage' = 2 /\ todo' = Awaited(op, 2) /\ seen' = posted
              /\ waited' = 0 /\ result' = result
          BY <2>1, <2>5, <3>1 DEF Decide, Pass
        <4>2. TypeOK'
          <5>1. todo' \in Seq(Event) /\ Len(todo') <= 5
            BY <1>4, <4>1, Lists
          <5>2. waited' \in 0 .. Timeout
            BY <4>1
          <5> QED
            BY <1>1, <1>2, <1>7, <4>1, <5>1, <5>2 DEF TypeOK
        <4>3. OutcomeIsOwn' /\ TimeoutMissedNothing'
          <5>1. result' = "none"
            BY <1>1, <1>2, <4>1 DEF StageInv
          <5> QED
            BY <5>1 DEF OutcomeIsOwn, TimeoutMissedNothing
        <4>4. KeptInv'
          BY <1>1, <1>2, <2>5, <4>1 DEF KeptInv
        <4>5. FreshInv' /\ StageInv'
          BY <1>1, <1>2, <2>2, <2>3, <2>5, <3>1, <4>1 DEF FreshInv, StageInv
        <4>6. TimeInv'
          BY <1>1, <1>2, <2>5, <4>1 DEF TimeInv, TypeOK
        <4> QED
          BY <1>7, <4>2, <4>3, <4>4, <4>5, <4>6 DEF ControlInv, OutcomesTrue
      <3>2. CASE op # "connect"
        <4>1. pc' = "idle" /\ todo' = << >> /\ result' = "ok" /\ UNCHANGED <<stage, seen, waited>>
          BY <2>1, <2>5, <3>2 DEF Decide, Return
        <4>2. OutcomeIsOwn' /\ result' \in Results
          BY <1>2, <2>2, <2>5, <3>2, <4>1 DEF OutcomeIsOwn, Results, Joins
        <4> QED
          BY <2>4, <4>1, <4>2
      <3> QED
        BY <3>1, <3>2
    <2>6. CASE h = "ParamsError"
      <3>1. pc' = "idle" /\ todo' = << >> /\ result' = "invalid" /\ UNCHANGED <<stage, seen, waited>>
        BY <1>6, <2>1, <2>6 DEF Decide, Return
      <3>2. OutcomeIsOwn' /\ result' \in Results
        BY <1>2, <2>2, <2>6, <3>1 DEF OutcomeIsOwn, Results
      <3> QED
        BY <2>4, <3>1, <3>2
    <2>7. CASE h = "GotIp"
      <3>1. op = "connect" /\ stage = 2 /\ "Connected" \in posted
        BY <1>1, <1>2, <1>4, <1>6, <2>7 DEF StageInv, Ops, Joins
      <3>2. /\ pc' = "idle" /\ todo' = << >> /\ UNCHANGED <<stage, seen, waited>>
            /\ result' = IF hasAddr THEN "ok" ELSE "dhcp_timeout"
        BY <2>1, <2>7, <3>1 DEF Decide, Return, Joins
      <3>3. hasAddr \/ "LostIp" \in posted
        BY <1>1, <1>2, <2>2, <2>7, <3>1 DEF StageInv, Joins
      <3>4. OutcomeIsOwn' /\ result' \in Results
        BY <1>2, <2>2, <2>7, <3>1, <3>2, <3>3 DEF OutcomeIsOwn, Results, Joins
      <3> QED
        BY <2>4, <3>2, <3>4
    <2>8. CASE h = "GotIpTimeout"
      <3>1. pc' = "idle" /\ todo' = << >> /\ result' = "dhcp_timeout"
            /\ UNCHANGED <<stage, seen, waited>>
        BY <1>4, <1>6, <2>1, <2>8 DEF Decide, Return, Joins
      <3>2. OutcomeIsOwn' /\ result' \in Results
        BY <1>2, <2>2, <2>8, <3>1 DEF OutcomeIsOwn, Results
      <3> QED
        BY <2>4, <3>1, <3>2
    <2>9. CASE op = "start_ap" /\ h = "ApStarted"
      <3>1. pc' = "address" /\ UNCHANGED <<todo, result, stage, seen, waited>>
        BY <2>1, <2>9 DEF Decide, Joins
      <3>2. TypeOK'
        BY <1>1, <1>2, <1>7, <3>1 DEF TypeOK
      <3>3. OutcomeIsOwn' /\ TimeoutMissedNothing'
        BY <1>1, <1>2, <3>1 DEF OutcomeIsOwn, TimeoutMissedNothing
      <3>4. FreshInv' /\ KeptInv' /\ StageInv' /\ TimeInv'
        BY <1>1, <1>2, <2>2, <2>3, <2>9, <3>1 DEF FreshInv, KeptInv, StageInv, TimeInv
      <3> QED
        BY <1>7, <3>2, <3>3, <3>4 DEF ControlInv, OutcomesTrue
    <2>10. CASE op \in {"disconnect", "scan", "stop_ap"}
      <3>1. pc' = "idle" /\ todo' = << >> /\ result' = "ok" /\ UNCHANGED <<stage, seen, waited>>
        BY <1>6, <2>1, <2>10 DEF Decide, Return, Joins
      <3>2. OutcomeIsOwn' /\ result' \in Results
        BY <1>2, <1>6, <2>2, <2>10, <3>1 DEF OutcomeIsOwn, Results, Joins
      <3> QED
        BY <2>4, <3>1, <3>2
    <2>11. CASE /\ op \in Joins \cup {"start_ap"}
                /\ h = IF op \in Joins THEN "Disconnected" ELSE "ApStopped"
      <3>1. pc' = "idle" /\ todo' = << >> /\ result' = "failed"
            /\ UNCHANGED <<stage, seen, waited>>
        BY <2>1, <2>11 DEF Decide, Return, Joins
      <3>2. OutcomeIsOwn' /\ result' \in Results
        BY <1>2, <2>2, <2>11, <3>1 DEF OutcomeIsOwn, Results
      <3> QED
        BY <2>4, <3>1, <3>2
    <2> QED
      BY <1>4, <1>6, <2>5, <2>6, <2>7, <2>8, <2>9, <2>10, <2>11 DEF Ops, Joins
  <1> QED
    BY <1>8, <1>9

-----------------------------------------------------------------------------

\* An operation on the radio returns what is true of that very call: success,
\* failure, a refused parameter or a lost lease each rest on an event posted
\* for it and not left in the latch by a call before, and a timeout says that
\* nothing it waited for had been posted when its last pass began.  The
\* application is one that calls again only when the manager has had its say.
THEOREM OutcomesAreTrue == ASSUME Settled PROVE Spec => []OutcomesTrue
  <1> USE Settled
  <1>1. ControlInv /\ [Next]_vars => ControlInv'
    <2> SUFFICES ASSUME ControlInv, [Next]_vars PROVE ControlInv'
      OBVIOUS
    <2>1. CASE Post
      BY <2>1, PostHolds
    <2>2. ASSUME NEW o \in Ops, Call(o) PROVE ControlInv'
      BY <2>2, CallHolds
    <2>3. CASE OpStep
      BY <2>3, ClearHolds, ClearDoneHolds, AskHolds, LookHolds, SleepOnHolds, GiveUpHolds,
         AssertAddressHolds DEF OpStep
    <2>4. CASE UNCHANGED vars
      BY <2>4 DEF vars, manager, history, ControlInv, OutcomesTrue, TypeOK, OutcomeIsOwn,
         TimeoutMissedNothing, OwedInv, FreshInv, KeptInv, StageInv, TimeInv
    <2> QED
      BY <2>1, <2>2, <2>3, <2>4 DEF Next
  <1>2. ControlInv => OutcomesTrue
    BY DEF ControlInv
  <1> QED
    BY <1>1, <1>2, InitHolds, PTL DEF Spec
=============================================================================
