-------------------------- MODULE LogDeliveryProofs --------------------------
(***************************************************************************)
(* Theorems about LogDelivery for every number of tracers, events,         *)
(* connections, faults and transmissions.                                  *)
(***************************************************************************)
EXTENDS LogDelivery, SequenceTheorems, FiniteSetTheorems, TLAPS

DeliveryTypes == TypeOK /\ EpochBound /\ WorkedOn

-----------------------------------------------------------------------------
(* Lemmas about the sequences the module is built from.                    *)

(* A sequence without its i-th element.                                    *)
LEMMA RemoveAtFacts ==
  ASSUME NEW S, NEW s \in Seq(S), NEW i \in DOMAIN s
  PROVE /\ RemoveAt(s, i) \in Seq(S) /\ Len(RemoveAt(s, i)) = Len(s) - 1
        /\ \A k \in 1..(Len(s) - 1) : RemoveAt(s, i)[k] = s[IF k < i THEN k ELSE k + 1]
<1>1. i \in 1..Len(s) /\ Len(s) \in Nat
  BY LenProperties
<1>2. /\ SubSeq(s, 1, i-1) \in Seq(S) /\ Len(SubSeq(s, 1, i-1)) = i - 1
      /\ \A k \in 1..(i - 1) : SubSeq(s, 1, i-1)[k] = s[k]
  BY <1>1, SubSeqProperties
<1>3. /\ SubSeq(s, i+1, Len(s)) \in Seq(S) /\ Len(SubSeq(s, i+1, Len(s))) = Len(s) - i
      /\ \A k \in 1..(Len(s) - i) : SubSeq(s, i+1, Len(s))[k] = s[k + i]
  BY <1>1, SubSeqProperties
<1> DEFINE a == SubSeq(s, 1, i-1)
           b == SubSeq(s, i+1, Len(s))
<1>4. RemoveAt(s, i) = a \o b
  BY DEF RemoveAt
<1> HIDE DEF a, b
<1>5. a \in Seq(S) /\ Len(a) = i - 1 /\ \A k \in 1..(i - 1) : a[k] = s[k]
  BY <1>2 DEF a
<1>6. b \in Seq(S) /\ Len(b) = Len(s) - i /\ \A k \in 1..(Len(s) - i) : b[k] = s[k + i]
  BY <1>3 DEF b
<1>7. /\ a \o b \in Seq(S) /\ Len(a \o b) = Len(a) + Len(b)
      /\ \A k \in 1..(Len(a) + Len(b)) : (a \o b)[k] = IF k <= Len(a) THEN a[k] ELSE b[k - Len(a)]
  BY <1>5, <1>6, ConcatProperties
<1>8. Len(a \o b) = Len(s) - 1
  BY <1>1, <1>5, <1>6, <1>7
<1>9. ASSUME NEW k \in 1..(Len(s) - 1) PROVE (a \o b)[k] = s[IF k < i THEN k ELSE k + 1]
  <2>0. Len(a) = i - 1 /\ k \in 1..(Len(a) + Len(b))
    BY <1>1, <1>5, <1>6
  <2>1. (a \o b)[k] = IF k <= Len(a) THEN a[k] ELSE b[k - Len(a)]
    BY <1>7, <2>0
  <2>2. CASE k < i
    BY <1>1, <1>5, <2>0, <2>1, <2>2
  <2>3. CASE ~(k < i)
    <3>1. k - (i - 1) \in 1..(Len(s) - i) /\ (k - (i - 1)) + i = k + 1
      BY <1>1, <2>3
    <3>2. (a \o b)[k] = b[k - (i - 1)]
      BY <1>1, <2>0, <2>1, <2>3
    <3>3. b[k - (i - 1)] = s[k + 1]
      BY <1>6, <3>1
    <3> QED
      BY <2>3, <3>2, <3>3
  <2> QED
    BY <2>2, <2>3
<1> QED
  BY <1>4, <1>7, <1>8, <1>9

(* A sequence with one more element.                                       *)
LEMMA AppendFacts ==
  ASSUME NEW S, NEW s \in Seq(S), NEW x \in S
  PROVE  /\ Append(s, x) \in Seq(S)
         /\ ToSet(Append(s, x)) = ToSet(s) \cup {x}
<1>1. /\ Append(s, x) \in Seq(S) /\ Len(s) \in Nat /\ Len(Append(s, x)) = Len(s) + 1
      /\ \A k \in 1..Len(s) : Append(s, x)[k] = s[k]
      /\ Append(s, x)[Len(s) + 1] = x
  BY AppendProperties, LenProperties
<1>2. DOMAIN s = 1..Len(s) /\ DOMAIN Append(s, x) = 1..(Len(s) + 1)
  BY <1>1, LenProperties
<1>3. \A y \in ToSet(s) : y \in ToSet(Append(s, x))
  BY <1>1, <1>2 DEF ToSet
<1>4. x \in ToSet(Append(s, x))
  BY <1>1, <1>2 DEF ToSet
<1>5. \A y \in ToSet(Append(s, x)) : y \in ToSet(s) \/ y = x
  BY <1>1, <1>2 DEF ToSet
<1> QED
  BY <1>1, <1>3, <1>4, <1>5

(* The first element of a sequence and the rest.                           *)
LEMMA TakeFacts ==
  ASSUME NEW S, NEW s \in Seq(S), s # <<>>
  PROVE  /\ Head(s) \in S /\ Head(s) \in ToSet(s)
         /\ Tail(s) \in Seq(S) /\ ToSet(Tail(s)) \subseteq ToSet(s)
<1>1. /\ Len(s) \in Nat \ {0} /\ DOMAIN s = 1..Len(s)
  BY EmptySeq, LenProperties
<1>2. /\ Head(s) \in S /\ Tail(s) \in Seq(S) /\ Len(Tail(s)) = Len(s) - 1
      /\ \A k \in 1..Len(Tail(s)) : Tail(s)[k] = s[k + 1]
  BY HeadTailProperties
<1>3. Head(s) = s[1] /\ 1 \in DOMAIN s
  BY <1>1
<1>4. DOMAIN Tail(s) = 1..Len(Tail(s))
  BY <1>2, LenProperties
<1>5. ToSet(Tail(s)) \subseteq ToSet(s)
  BY <1>1, <1>2, <1>4 DEF ToSet
<1> QED
  BY <1>2, <1>3, <1>5 DEF ToSet

-----------------------------------------------------------------------------
(* Types and the bound on the connections of a socket.                     *)

(* Before the first event nothing is connected or under way.               *)
LEMMA DeliveryInit == Init => DeliveryTypes
<1> SUFFICES ASSUME Init PROVE DeliveryTypes
  OBVIOUS
<1> USE DeliveryAssumption
<1>1. TracerTypes
  BY DEF Init, TracerTypes, NoEvent
<1>2. WireTypes
  BY DEF Init, WireTypes
<1>3. ServerTypes
  <2>1. conns \subseteq Links /\ cur \in Links \cup {<<>>} /\ srv = "down" /\ result \in BOOLEAN
    BY DEF Init
  <2>2. ready \in Seq(Links) /\ rows \in Seq(Events)
    BY EmptySeq DEF Init
  <2>3. leaked \in 0..MaxConn /\ dbUp \in BOOLEAN /\ faults \in 0..MaxFaults
    BY DEF Init
  <2> QED
    BY <2>1, <2>2, <2>3 DEF ServerTypes
<1>4. EpochBound /\ WorkedOn
  BY DEF Init, EpochBound, WorkedOn
<1> QED
  BY <1>1, <1>2, <1>3, <1>4 DEF DeliveryTypes, TypeOK

(* A socket without a connection that is up may have one more.             *)
LEMMA ConnectFacts ==
  ASSUME DeliveryTypes, NEW m \in Events, ~up[m], pc[m] # "done", Connect(m),
         pc' \in [Events -> InFlight \cup {"new", "done", "lost"}],
         pc'[m] \notin {"new", "dial"},
         \A n \in Events : n # m => pc'[n] = pc[n],
         faults' = faults
  PROVE  /\ epoch[m] + 1 \in Epochs /\ <<m, epoch[m] + 1>> \in Links
         /\ epoch' \in [Events -> 0..(MaxFaults + 1)] /\ up' \in [Events -> BOOLEAN]
         /\ conns' \subseteq Links
         /\ EpochBound'
<1>1. /\ epoch \in [Events -> 0..(MaxFaults + 1)] /\ up \in [Events -> BOOLEAN]
      /\ conns \subseteq Links /\ faults \in 0..MaxFaults /\ MaxFaults \in Nat
  BY DeliveryAssumption DEF DeliveryTypes, TypeOK, TracerTypes, ServerTypes
<1>2. epoch[m] <= faults
  <2>1. epoch[m] <= faults + (IF pc[m] = "done" \/ (up[m] /\ <<m, epoch[m]>> \in conns)
                             THEN 1 ELSE 0)
    BY DEF DeliveryTypes, EpochBound
  <2> QED
    BY <1>1, <2>1
<1>3. epoch[m] + 1 \in Epochs /\ <<m, epoch[m] + 1>> \in Links
  BY <1>1, <1>2 DEF Epochs, Links
<1>4. /\ epoch' = [epoch EXCEPT ![m] = @ + 1]
      /\ up' = [up EXCEPT ![m] = TRUE]
      /\ conns' = conns \cup {<<m, epoch[m] + 1>>}
  BY DEF Connect
<1>5. /\ epoch' \in [Events -> 0..(MaxFaults + 1)] /\ up' \in [Events -> BOOLEAN]
      /\ conns' \subseteq Links
  BY <1>1, <1>3, <1>4 DEF Epochs
<1>6. ASSUME NEW n \in Events
      PROVE  /\ pc'[n] \in {"new", "dial"} => ~up'[n]
             /\ up'[n] => epoch'[n] > 0
             /\ epoch'[n] <= faults' + (IF pc'[n] = "done" \/ (up'[n] /\ <<n, epoch'[n]>> \in conns')
                                        THEN 1 ELSE 0)
  <2>1. CASE n = m
    BY <1>1, <1>2, <1>4, <2>1
  <2>2. CASE n # m
    <3>1. epoch'[n] = epoch[n] /\ up'[n] = up[n] /\ pc'[n] = pc[n]
      BY <1>1, <1>4, <2>2
    <3>2. <<n, epoch[n]>> \in conns => <<n, epoch[n]>> \in conns'
      BY <1>4
    <3> QED
      BY <1>1, <3>1, <3>2 DEF DeliveryTypes, EpochBound
  <2> QED
    BY <2>1, <2>2
<1> QED
  BY <1>3, <1>5, <1>6 DEF EpochBound

(* A connection that ends, or never was, leaves the bound of the other     *)
(* sockets alone; its own is paid for by a fault or by the answer.         *)
LEMMA HangUpFacts ==
  ASSUME DeliveryTypes, NEW m \in Events, HangUp(m), UNCHANGED <<epoch, conns>>,
         \A n \in Events : n # m => pc'[n] = pc[n],
         faults' \in {faults, faults + 1},
         epoch[m] <= faults' + (IF pc'[m] = "done" THEN 1 ELSE 0)
  PROVE  /\ up' \in [Events -> BOOLEAN]
         /\ replies' \in [Events -> [Epochs -> Seq({"S", "E"})]]
         /\ EpochBound'
<1>1. /\ epoch \in [Events -> 0..(MaxFaults + 1)] /\ up \in [Events -> BOOLEAN]
      /\ faults \in 0..MaxFaults /\ MaxFaults \in Nat
      /\ replies \in [Events -> [Epochs -> Seq({"S", "E"})]]
  BY DeliveryAssumption DEF DeliveryTypes, TypeOK, TracerTypes, ServerTypes, WireTypes
<1>2. /\ up' = [up EXCEPT ![m] = FALSE]
      /\ replies' = [replies EXCEPT ![m] = [e \in Epochs |-> <<>>]]
  BY DEF HangUp
<1>3. up' \in [Events -> BOOLEAN]
  BY <1>1, <1>2
<1>4. replies' \in [Events -> [Epochs -> Seq({"S", "E"})]]
  BY <1>1, <1>2
<1>5. ASSUME NEW n \in Events
      PROVE  /\ pc'[n] \in {"new", "dial"} => ~up'[n]
             /\ up'[n] => epoch'[n] > 0
             /\ epoch'[n] <= faults' + (IF pc'[n] = "done" \/ (up'[n] /\ <<n, epoch'[n]>> \in conns')
                                        THEN 1 ELSE 0)
  <2>1. CASE n = m
    BY <1>1, <1>2, <2>1
  <2>2. CASE n # m
    <3>1. epoch'[n] = epoch[n] /\ up'[n] = up[n] /\ pc'[n] = pc[n] /\ conns' = conns
      BY <1>1, <1>2, <2>2
    <3> QED
      BY <1>1, <3>1 DEF DeliveryTypes, EpochBound
  <2> QED
    BY <2>1, <2>2
<1> QED
  BY <1>3, <1>4, <1>5 DEF EpochBound

(* Steps that leave the connections alone.                                 *)
LEMMA EpochKept ==
  ASSUME DeliveryTypes, UNCHANGED <<epoch, up>>, faults' \in {faults, faults + 1},
         \A n \in Events : up[n] /\ <<n, epoch[n]>> \in conns =>
                            <<n, epoch[n]>> \in conns' \/ faults' = faults + 1,
         \A n \in Events : /\ pc[n] = "done" => pc'[n] = "done"
                           /\ up[n] => pc'[n] \notin {"new", "dial"}
  PROVE  EpochBound'
<1>1. /\ epoch \in [Events -> 0..(MaxFaults + 1)] /\ up \in [Events -> BOOLEAN]
      /\ faults \in 0..MaxFaults /\ MaxFaults \in Nat
  BY DeliveryAssumption DEF DeliveryTypes, TypeOK, TracerTypes, ServerTypes
<1> SUFFICES ASSUME NEW n \in Events
      PROVE  /\ pc'[n] \in {"new", "dial"} => ~up'[n]
             /\ up'[n] => epoch'[n] > 0
             /\ epoch'[n] <= faults' + (IF pc'[n] = "done" \/ (up'[n] /\ <<n, epoch'[n]>> \in conns')
                                        THEN 1 ELSE 0)
  BY DEF EpochBound
<1>2. /\ up[n] => epoch[n] > 0
      /\ epoch[n] <= faults + (IF pc[n] = "done" \/ (up[n] /\ <<n, epoch[n]>> \in conns)
                               THEN 1 ELSE 0)
  BY DEF DeliveryTypes, EpochBound
<1> QED
  BY <1>1, <1>2

(* A copy of the request on the wire.                                      *)
LEMMA WireKept ==
  ASSUME WireTypes, NEW m \in Events, NEW e,
         inbox' \in {inbox, [inbox EXCEPT ![m][e] = @ + 1]}, UNCHANGED replies
  PROVE  WireTypes'
<1>1. /\ inbox \in [Events -> [Epochs -> Nat]]
      /\ replies \in [Events -> [Epochs -> Seq({"S", "E"})]]
  BY DEF WireTypes
<1>2. CASE inbox' = inbox
  BY <1>1, <1>2 DEF WireTypes
<1>3. CASE inbox' = [inbox EXCEPT ![m][e] = @ + 1]
  <2> DEFINE box == inbox[m]
  <2>0. box \in [Epochs -> Nat] /\ (e \in Epochs => box[e] + 1 \in Nat)
    BY <1>1
  <2>1. [box EXCEPT ![e] = @ + 1] \in [Epochs -> Nat]
    <3> HIDE DEF box
    <3> QED
      BY <2>0
  <2>2. inbox' = [inbox EXCEPT ![m] = [box EXCEPT ![e] = @ + 1]]
    BY <1>3
  <2>3. inbox' \in [Events -> [Epochs -> Nat]]
    BY <1>1, <2>1, <2>2
  <2> QED
    BY <1>1, <2>3 DEF WireTypes
<1> QED
  BY <1>2, <1>3

(* The steps of the tracer.                                                *)
LEMMA TracerTypesNext ==
  ASSUME DeliveryTypes, NEW m \in Events,
         \/ \E t \in Tracers : Receive(t, m) \/ Finish(t, m)
         \/ \E t \in Tracers : TracerCrash(t)
         \/ Dial(m) \/ DialFails(m) \/ Send(m) \/ Reconnect(m)
         \/ Resend(m) \/ ConnectionLost(m)
  PROVE  DeliveryTypes'
<1> USE DeliveryAssumption
<1>0. TracerTypes /\ WireTypes /\ ServerTypes /\ EpochBound /\ WorkedOn
  BY DEF DeliveryTypes, TypeOK
<1>t. /\ busy \in [Tracers -> Events \cup {NoEvent}]
      /\ pc \in [Events -> InFlight \cup {"new", "done", "lost"}]
      /\ epoch \in [Events -> 0..(MaxFaults + 1)] /\ up \in [Events -> BOOLEAN]
      /\ sent \in [Events -> Nat] /\ inbox \in [Events -> [Epochs -> Nat]]
      /\ faults \in 0..MaxFaults
  BY <1>0 DEF TracerTypes, WireTypes, ServerTypes
<1>e. \A n \in Events : epoch[n] <= faults \/ (epoch[n] = faults + 1 /\ (pc[n] = "done" \/ (up[n] /\ <<n, epoch[n]>> \in conns)))
  <2> SUFFICES ASSUME NEW n \in Events
      PROVE epoch[n] <= faults \/ (epoch[n] = faults + 1 /\ (pc[n] = "done" \/ (up[n] /\ <<n, epoch[n]>> \in conns)))
    OBVIOUS
  <2>1. epoch[n] <= faults + (IF pc[n] = "done" \/ (up[n] /\ <<n, epoch[n]>> \in conns)
                             THEN 1 ELSE 0)
    BY <1>0 DEF EpochBound
  <2> QED
    BY <1>t, <2>1
<1>f. \A n \in Events : epoch[n] \in 0..(MaxFaults + 1) /\ epoch[n] <= faults + 1
  <2> SUFFICES ASSUME NEW n \in Events
      PROVE  epoch[n] \in 0..(MaxFaults + 1) /\ epoch[n] <= faults + 1
    OBVIOUS
  <2>1. epoch[n] <= faults \/ epoch[n] = faults + 1
    BY <1>e
  <2>2. epoch[n] \in 0..(MaxFaults + 1) /\ faults \in 0..MaxFaults
    BY <1>t
  <2> QED
    BY <2>1, <2>2
<1>1. ASSUME NEW t \in Tracers, Receive(t, m) PROVE DeliveryTypes'
  <2>1. TracerTypes'
    BY <1>0, <1>1 DEF Receive, Step, TracerTypes, InFlight
  <2>2. WireTypes' /\ ServerTypes' /\ WorkedOn'
    BY <1>0, <1>1 DEF Receive, WireTypes, ServerTypes, WorkedOn, wireVars, serverVars
  <2>3. EpochBound'
    <3>1. ~up[m] /\ UNCHANGED <<epoch, up, conns, faults>> /\ pc' = [pc EXCEPT ![m] = "dial"]
      BY <1>0, <1>1 DEF Receive, Step, EpochBound, serverVars
    <3>2. \A n \in Events : up[n] => pc[n] \notin {"new", "dial"}
      BY <1>0 DEF EpochBound
    <3> QED
      BY <1>t, <1>1, <3>1, <3>2, EpochKept DEF Receive
  <2> QED
    BY <2>1, <2>2, <2>3 DEF DeliveryTypes, TypeOK
<1>2. ASSUME NEW t \in Tracers, Finish(t, m) PROVE DeliveryTypes'
  <2>1. /\ pc[m] = "recv" /\ up[m] /\ replies[m][epoch[m]] # <<>> /\ HangUp(m)
        /\ pc' = [pc EXCEPT ![m] = "done"]
        /\ UNCHANGED <<dialed, epoch, sent, inbox, serverVars, dbUp, rows, faults>>
    BY <1>2 DEF Finish, Step
  <2>2. epoch[m] \in Epochs /\ epoch[m] <= faults' + 1 /\ UNCHANGED <<epoch, conns, faults>>
    <3>1. epoch[m] > 0
      BY <1>0, <2>1 DEF EpochBound
    <3>2. epoch[m] \in 0..(MaxFaults + 1) /\ epoch[m] <= faults + 1
      BY <1>f
    <3> QED
      BY <2>1, <3>1, <3>2 DEF Epochs, serverVars
  <2>3. /\ up' \in [Events -> BOOLEAN]
        /\ replies' \in [Events -> [Epochs -> Seq({"S", "E"})]]
        /\ EpochBound'
    BY <1>t, <2>1, <2>2, HangUpFacts
  <2>4. Head(replies[m][epoch[m]]) \in {"S", "E"}
    <3>1. replies[m][epoch[m]] \in Seq({"S", "E"})
      BY <1>0, <2>2 DEF WireTypes
    <3> QED
      BY <2>1, <3>1, TakeFacts
  <2>5. TracerTypes'
    BY <1>0, <1>2, <2>1, <2>3, <2>4 DEF Finish, TracerTypes, InFlight
  <2>6. WireTypes' /\ ServerTypes' /\ WorkedOn'
    BY <1>0, <2>1, <2>3 DEF WireTypes, ServerTypes, WorkedOn, serverVars
  <2> QED
    BY <2>3, <2>5, <2>6 DEF DeliveryTypes, TypeOK
<1>3. ASSUME NEW t \in Tracers, TracerCrash(t) PROVE DeliveryTypes'
  <2> DEFINE n == busy[t]
  <2>1. n \in Events
    BY <1>t, <1>3 DEF TracerCrash
  <2> HIDE DEF n
  <2>2. /\ HangUp(n) /\ pc' = [pc EXCEPT ![n] = "lost"] /\ faults' = faults + 1
        /\ faults < MaxFaults /\ busy' = [busy EXCEPT ![t] = NoEvent]
        /\ UNCHANGED <<dialed, epoch, sent, answer, inbox, serverVars, dbUp, rows>>
    BY <1>3 DEF TracerCrash, Step, Fault, n
  <2>3. epoch[n] <= faults' /\ UNCHANGED <<epoch, conns>>
    <3>1. epoch[n] <= faults + 1
      BY <1>f, <2>1
    <3> QED
      BY <2>2, <3>1 DEF serverVars
  <2>4. /\ up' \in [Events -> BOOLEAN]
        /\ replies' \in [Events -> [Epochs -> Seq({"S", "E"})]]
        /\ EpochBound'
    BY <1>t, <2>1, <2>2, <2>3, HangUpFacts
  <2>5. TracerTypes'
    BY <1>0, <2>2, <2>4 DEF TracerTypes, InFlight
  <2>6. WireTypes'
    BY <1>0, <2>2, <2>4 DEF WireTypes
  <2>7. ServerTypes' /\ WorkedOn'
    BY <1>0, <1>t, <2>2 DEF ServerTypes, WorkedOn, serverVars
  <2> QED
    BY <2>4, <2>5, <2>6, <2>7 DEF DeliveryTypes, TypeOK
<1>4. CASE Dial(m)
  <2>1. /\ pc[m] = "dial" /\ Connect(m) /\ dialed' = [dialed EXCEPT ![m] = TRUE]
        /\ pc' = [pc EXCEPT ![m] = "send"]
        /\ UNCHANGED <<busy, sent, answer, wireVars, ready, srv, cur, result, leaked, dbUp, rows, faults>>
    BY <1>4 DEF Dial, Step
  <2>2. ~up[m]
    BY <1>0, <2>1 DEF EpochBound
  <2>3. /\ epoch' \in [Events -> 0..(MaxFaults + 1)] /\ up' \in [Events -> BOOLEAN]
        /\ conns' \subseteq Links /\ EpochBound'
    <3>1. pc' \in [Events -> InFlight \cup {"new", "done", "lost"}]
      BY <1>t, <2>1 DEF InFlight
    <3>2. pc'[m] \notin {"new", "dial"} /\ \A n \in Events : n # m => pc'[n] = pc[n]
      BY <1>t, <2>1
    <3> QED
      BY <2>1, <2>2, <3>1, <3>2, ConnectFacts
  <2>4. TracerTypes'
    BY <1>0, <2>1, <2>3 DEF TracerTypes, InFlight
  <2>5. WireTypes' /\ ServerTypes' /\ WorkedOn'
    BY <1>0, <2>1, <2>3 DEF WireTypes, ServerTypes, WorkedOn, wireVars
  <2> QED
    BY <2>3, <2>4, <2>5 DEF DeliveryTypes, TypeOK
<1>5. CASE DialFails(m)
  <2>1. /\ pc[m] = "dial" /\ pc' = [pc EXCEPT ![m] = "send"]
        /\ faults' = faults \/ (faults < MaxFaults /\ faults' = faults + 1)
        /\ UNCHANGED <<busy, dialed, epoch, up, sent, answer, wireVars, serverVars, dbUp, rows>>
    BY <1>5 DEF DialFails, Step, Fault
  <2>2. TracerTypes'
    BY <1>0, <2>1 DEF TracerTypes, InFlight
  <2>3. WireTypes' /\ ServerTypes' /\ WorkedOn'
    BY <1>0, <1>t, <2>1 DEF WireTypes, ServerTypes, WorkedOn, wireVars, serverVars
  <2>4. EpochBound'
    <3>1. \A n \in Events : up[n] => pc[n] \notin {"new", "dial"}
      BY <1>0 DEF EpochBound
    <3>2. UNCHANGED <<epoch, up, conns>>
      BY <2>1 DEF serverVars
    <3> QED
      BY <1>t, <2>1, <3>1, <3>2, EpochKept
  <2> QED
    BY <2>2, <2>3, <2>4 DEF DeliveryTypes, TypeOK
<1>6. CASE Send(m)
  <2>1. /\ pc[m] = "send" /\ pc' \in {[pc EXCEPT ![m] = "recv"], [pc EXCEPT ![m] = "queued"]}
        /\ sent' \in {sent, [sent EXCEPT ![m] = @ + 1]}
        /\ inbox' \in {inbox, [inbox EXCEPT ![m][epoch[m]] = @ + 1]}
        /\ UNCHANGED <<busy, dialed, epoch, up, answer, replies, serverVars, dbUp, rows, faults>>
    BY <1>6 DEF Send, Transmit, Step
  <2>2. TracerTypes'
    BY <1>0, <2>1 DEF TracerTypes, InFlight
  <2>3. WireTypes'
    BY <1>0, <2>1, WireKept
  <2>4. ServerTypes' /\ WorkedOn'
    BY <1>0, <2>1 DEF ServerTypes, WorkedOn, serverVars
  <2>5. EpochBound'
    <3>1. \A n \in Events : up[n] => pc[n] \notin {"new", "dial"}
      BY <1>0 DEF EpochBound
    <3>2. UNCHANGED <<epoch, up, conns, faults>>
      BY <2>1 DEF serverVars
    <3> QED
      BY <1>t, <2>1, <3>1, <3>2, EpochKept
  <2> QED
    BY <2>2, <2>3, <2>4, <2>5 DEF DeliveryTypes, TypeOK
<1>7. CASE Reconnect(m)
  <2>1. /\ pc[m] \in {"send", "queued"} /\ ~up[m] /\ Connect(m)
        /\ pc' \in {pc, [pc EXCEPT ![m] = "recv"]}
        /\ sent' \in {sent, [sent EXCEPT ![m] = @ + 1]}
        /\ inbox' \in {inbox, [inbox EXCEPT ![m][epoch[m] + 1] = @ + 1]}
        /\ UNCHANGED <<busy, dialed, answer, replies, ready, srv, cur, result, leaked, dbUp, rows, faults>>
    BY <1>7 DEF Reconnect, Transmit, Step
  <2>2. /\ epoch' \in [Events -> 0..(MaxFaults + 1)] /\ up' \in [Events -> BOOLEAN]
        /\ conns' \subseteq Links /\ EpochBound'
    <3>1. pc' \in [Events -> InFlight \cup {"new", "done", "lost"}]
      BY <1>t, <2>1 DEF InFlight
    <3>2. pc'[m] \notin {"new", "dial"} /\ \A n \in Events : n # m => pc'[n] = pc[n]
      BY <1>t, <2>1
    <3> QED
      BY <2>1, <3>1, <3>2, ConnectFacts
  <2>3. TracerTypes'
    BY <1>0, <2>1, <2>2 DEF TracerTypes, InFlight
  <2>4. WireTypes'
    BY <1>0, <2>1, WireKept
  <2>5. ServerTypes' /\ WorkedOn'
    BY <1>0, <2>1, <2>2 DEF ServerTypes, WorkedOn
  <2> QED
    BY <2>2, <2>3, <2>4, <2>5 DEF DeliveryTypes, TypeOK
<1>8. CASE Resend(m)
  <2>1. /\ sent' = [sent EXCEPT ![m] = @ + 1]
        /\ inbox' \in {inbox, [inbox EXCEPT ![m][epoch[m]] = @ + 1]}
        /\ UNCHANGED <<busy, pc, dialed, epoch, up, answer, replies, serverVars, dbUp, rows, faults>>
    BY <1>8 DEF Resend, Transmit
  <2>2. TracerTypes'
    BY <1>0, <2>1 DEF TracerTypes
  <2>3. WireTypes'
    BY <1>0, <2>1, WireKept
  <2>4. ServerTypes' /\ WorkedOn' /\ EpochBound'
    BY <1>0, <2>1 DEF ServerTypes, WorkedOn, EpochBound, serverVars
  <2> QED
    BY <2>2, <2>3, <2>4 DEF DeliveryTypes, TypeOK
<1>9. CASE ConnectionLost(m)
  <2>1. /\ pc[m] \in {"send", "recv"} /\ HangUp(m)
        /\ pc' \in {pc, [pc EXCEPT ![m] = "queued"]}
        /\ IF <<m, epoch[m]>> \in conns THEN faults < MaxFaults /\ faults' = faults + 1
                                       ELSE faults' = faults
        /\ UNCHANGED <<busy, dialed, epoch, sent, answer, inbox, serverVars, dbUp, rows>>
    BY <1>9 DEF ConnectionLost, Step, Fault
  <2>2. epoch[m] <= faults' /\ UNCHANGED <<epoch, conns>> /\ faults' \in {faults, faults + 1}
    BY <1>t, <1>e, <2>1 DEF serverVars
  <2>3. /\ up' \in [Events -> BOOLEAN]
        /\ replies' \in [Events -> [Epochs -> Seq({"S", "E"})]]
        /\ EpochBound'
    <3>1. epoch[m] <= faults' + (IF pc'[m] = "done" THEN 1 ELSE 0)
      BY <1>t, <2>1, <2>2
    <3> QED
      BY <1>t, <2>1, <2>2, <3>1, HangUpFacts
  <2>4. TracerTypes'
    BY <1>0, <2>1, <2>3 DEF TracerTypes, InFlight
  <2>5. WireTypes' /\ ServerTypes' /\ WorkedOn'
    BY <1>0, <1>t, <2>1, <2>3 DEF WireTypes, ServerTypes, WorkedOn, serverVars
  <2> QED
    BY <2>3, <2>4, <2>5 DEF DeliveryTypes, TypeOK
<1> QED
  BY <1>1, <1>2, <1>3, <1>4, <1>5, <1>6, <1>7, <1>8, <1>9

(* The steps of the server's socket.                                       *)
LEMMA SocketTypesNext ==
  ASSUME DeliveryTypes, NEW m \in Events, NEW e \in Epochs,
         HoldRequest(m, e) \/ NoticeHangUp(m, e)
  PROVE  DeliveryTypes'
<1> USE DeliveryAssumption
<1>0. TracerTypes /\ WireTypes /\ ServerTypes /\ EpochBound /\ WorkedOn
  BY DEF DeliveryTypes, TypeOK
<1>t. /\ inbox \in [Events -> [Epochs -> Nat]] /\ inbox[m] \in [Epochs -> Nat]
      /\ ready \in Seq(Links) /\ <<m, e>> \in Links
  BY <1>0 DEF WireTypes, ServerTypes, Links
<1>1. CASE HoldRequest(m, e)
  <2>1. /\ inbox[m][e] > 0 /\ inbox' = [inbox EXCEPT ![m][e] = @ - 1]
        /\ ready' = Append(ready, <<m, e>>)
        /\ UNCHANGED <<tracerVars, replies, conns, srv, cur, result, leaked, dbUp, rows, faults>>
    BY <1>1 DEF HoldRequest
  <2>2. inbox' \in [Events -> [Epochs -> Nat]]
    <3> DEFINE box == inbox[m]
    <3>1. box[e] - 1 \in Nat
      BY <1>t, <2>1
    <3>2. inbox' = [inbox EXCEPT ![m] = [box EXCEPT ![e] = @ - 1]]
      BY <2>1
    <3>3. box \in [Epochs -> Nat]
      BY <1>t
    <3> HIDE DEF box
    <3>4. [box EXCEPT ![e] = @ - 1] \in [Epochs -> Nat]
      BY <3>1, <3>3
    <3> QED
      BY <1>t, <3>2, <3>4
  <2>3. ready' \in Seq(Links)
    BY <1>t, <2>1, AppendFacts
  <2>4. TracerTypes' /\ EpochBound' /\ WorkedOn'
    BY <1>0, <2>1 DEF TracerTypes, EpochBound, WorkedOn, tracerVars
  <2>5. WireTypes'
    BY <1>0, <2>1, <2>2 DEF WireTypes
  <2>6. ServerTypes'
    BY <1>0, <2>1, <2>3 DEF ServerTypes
  <2> QED
    BY <2>4, <2>5, <2>6 DEF DeliveryTypes, TypeOK
<1>2. CASE NoticeHangUp(m, e)
  <2>1. /\ ~(up[m] /\ epoch[m] = e) /\ conns' = conns \ {<<m, e>>}
        /\ inbox' = [inbox EXCEPT ![m][e] = 0]
        /\ \/ ready' = ready
           \/ \E k \in DOMAIN ready : ready' = RemoveAt(ready, k)
        /\ UNCHANGED <<tracerVars, replies, srv, cur, result, leaked, dbUp, rows, faults>>
    BY <1>2 DEF NoticeHangUp
  <2>2. inbox' \in [Events -> [Epochs -> Nat]]
    <3>1. [inbox[m] EXCEPT ![e] = 0] \in [Epochs -> Nat]
      BY <1>t
    <3>2. inbox' = [inbox EXCEPT ![m] = [inbox[m] EXCEPT ![e] = 0]]
      BY <2>1
    <3> QED
      BY <1>t, <3>1, <3>2
  <2>3. ready' \in Seq(Links)
    BY <1>t, <2>1, RemoveAtFacts
  <2>4. TracerTypes' /\ WorkedOn'
    BY <1>0, <2>1 DEF TracerTypes, WorkedOn, tracerVars
  <2>5. EpochBound'
    <3>1. UNCHANGED <<pc, epoch, up, faults>>
      BY <2>1 DEF tracerVars
    <3>2. \A n \in Events : up[n] /\ <<n, epoch[n]>> \in conns => <<n, epoch[n]>> \in conns'
      BY <2>1
    <3>3. \A n \in Events : up[n] => pc[n] \notin {"new", "dial"}
      BY <1>0 DEF EpochBound
    <3> QED
      BY <3>1, <3>2, <3>3, EpochKept
  <2>6. WireTypes'
    BY <1>0, <2>1, <2>2 DEF WireTypes
  <2>7. ServerTypes'
    BY <1>0, <2>1, <2>3 DEF ServerTypes
  <2> QED
    BY <2>4, <2>5, <2>6, <2>7 DEF DeliveryTypes, TypeOK
<1> QED
  BY <1>1, <1>2

(* The steps of the server's main() and of the database.                   *)
LEMMA ServerTypesNext ==
  ASSUME DeliveryTypes,
         \/ ServerStart \/ TakeRequest \/ InsertRefused \/ Reply \/ ServerCrash
         \/ DbStop \/ DbStart \/ Storing
  PROVE  DeliveryTypes'
<1> USE DeliveryAssumption
<1>0. TracerTypes /\ WireTypes /\ ServerTypes /\ EpochBound /\ WorkedOn
  BY DEF DeliveryTypes, TypeOK
<1>t. /\ replies \in [Events -> [Epochs -> Seq({"S", "E"})]]
      /\ ready \in Seq(Links) /\ rows \in Seq(Events)
      /\ leaked \in 0..MaxConn /\ faults \in 0..MaxFaults
  BY <1>0 DEF WireTypes, ServerTypes
<1>w. /\ srv \in {"insert", "reply"} => cur \in Links
      /\ srv = "insert" => cur[1] \in Events
  BY <1>0 DEF WorkedOn, Links
<1>u. \A n \in Events : up[n] => pc[n] \notin {"new", "dial"}
  BY <1>0 DEF EpochBound
<1>1. CASE ServerStart
  <2>1. TracerTypes' /\ WireTypes' /\ EpochBound'
    BY <1>0, <1>1 DEF ServerStart, tracerVars, wireVars, TracerTypes, WireTypes, EpochBound
  <2>2. ServerTypes' /\ WorkedOn'
    BY <1>0, <1>1 DEF ServerStart, ServerTypes, WorkedOn
  <2> QED
    BY <2>1, <2>2 DEF DeliveryTypes, TypeOK
<1>2. CASE TakeRequest
  <2>1. TracerTypes' /\ WireTypes' /\ EpochBound'
    BY <1>0, <1>2 DEF TakeRequest, tracerVars, wireVars, TracerTypes, WireTypes, EpochBound
  <2>2. cur' \in Links /\ ready' \in Seq(Links)
    BY <1>t, <1>2, TakeFacts DEF TakeRequest
  <2>3. ServerTypes' /\ WorkedOn'
    BY <1>0, <1>2, <2>2 DEF TakeRequest, ServerTypes, WorkedOn
  <2> QED
    BY <2>1, <2>3 DEF DeliveryTypes, TypeOK
<1>3. CASE Storing
  <2>1. /\ srv = "insert" /\ srv' = "reply" /\ result' \in BOOLEAN
        /\ rows' = Append(rows, cur[1])
        /\ UNCHANGED <<tracerVars, wireVars, conns, ready, cur, leaked, dbUp>>
        /\ faults' = faults \/ (faults < MaxFaults /\ faults' = faults + 1)
    BY <1>3 DEF Storing, InsertRow, InsertAnswerLost, InsertReturns, Fault
  <2>2. TracerTypes' /\ WireTypes' /\ WorkedOn'
    BY <1>0, <2>1 DEF tracerVars, wireVars, TracerTypes, WireTypes, WorkedOn
  <2>3. EpochBound'
    BY <1>u, <2>1, EpochKept DEF tracerVars
  <2>4. rows' \in Seq(Events) /\ faults' \in 0..MaxFaults
    BY <1>t, <1>w, <2>1, AppendFacts
  <2>5. ServerTypes'
    BY <1>0, <2>1, <2>4 DEF ServerTypes
  <2> QED
    BY <2>2, <2>3, <2>5 DEF DeliveryTypes, TypeOK
<1>4. CASE InsertRefused
  <2>1. /\ srv = "insert" /\ srv' = "reply" /\ result' = FALSE
        /\ leaked' = leaked \/ (leaked < MaxConn /\ leaked' = leaked + 1)
        /\ UNCHANGED <<tracerVars, wireVars, conns, ready, cur, dbUp, rows, faults>>
    BY <1>4 DEF InsertRefused, InsertReturns, CanConnect
  <2>2. TracerTypes' /\ WireTypes' /\ EpochBound' /\ WorkedOn'
    BY <1>0, <2>1 DEF tracerVars, wireVars, TracerTypes, WireTypes, EpochBound, WorkedOn
  <2>3. leaked' \in 0..MaxConn
    BY <1>t, <2>1
  <2>4. ServerTypes'
    BY <1>0, <2>1, <2>3 DEF ServerTypes
  <2> QED
    BY <2>2, <2>4 DEF DeliveryTypes, TypeOK
<1>5. CASE Reply
  <2>1. /\ srv = "reply" /\ srv' = "recv" /\ cur' = <<>> /\ result' = FALSE
        /\ UNCHANGED <<tracerVars, inbox, conns, ready, leaked, dbUp, rows, faults>>
    BY <1>5 DEF Reply
  <2>2. replies' \in [Events -> [Epochs -> Seq({"S", "E"})]]
    <3>1. CASE replies' = replies
      BY <1>t, <3>1
    <3>2. CASE replies' # replies
      <4> DEFINE m == cur[1]
                 e == cur[2]
                 box == replies[m]
      <4>1. m \in Events /\ e \in Epochs
        BY <1>w, <2>1 DEF Links
      <4>2. PICK r \in {"S", "E"} : replies' = [replies EXCEPT ![m][e] = Append(@, r)]
        BY <1>5, <3>2 DEF Reply
      <4>3. box \in [Epochs -> Seq({"S", "E"})] /\ box[e] \in Seq({"S", "E"})
        BY <1>t, <4>1
      <4>4. replies' = [replies EXCEPT ![m] = [box EXCEPT ![e] = Append(@, r)]]
        BY <4>2
      <4> HIDE DEF m, e, box
      <4>5. Append(box[e], r) \in Seq({"S", "E"})
        BY <4>3, AppendFacts
      <4>6. [box EXCEPT ![e] = Append(@, r)] \in [Epochs -> Seq({"S", "E"})]
        BY <4>3, <4>5
      <4> QED
        BY <1>t, <4>4, <4>6
    <3> QED
      BY <3>1, <3>2
  <2>3. TracerTypes' /\ EpochBound' /\ WorkedOn'
    BY <1>0, <2>1 DEF tracerVars, TracerTypes, EpochBound, WorkedOn
  <2>4. WireTypes'
    BY <1>0, <2>1, <2>2 DEF WireTypes
  <2>5. ServerTypes'
    BY <1>0, <2>1 DEF ServerTypes
  <2> QED
    BY <2>3, <2>4, <2>5 DEF DeliveryTypes, TypeOK
<1>6. CASE ServerCrash
  <2>1. /\ srv' = "down" /\ conns' = {} /\ ready' = <<>> /\ leaked' = 0
        /\ inbox' = [m \in Events |-> [e \in Epochs |-> 0]]
        /\ cur' = <<>> /\ result' = FALSE /\ faults < MaxFaults /\ faults' = faults + 1
        /\ UNCHANGED <<tracerVars, replies, dbUp, rows>>
    BY <1>6 DEF ServerCrash, Fault
  <2>2. TracerTypes' /\ WorkedOn'
    BY <1>0, <2>1 DEF tracerVars, TracerTypes, WorkedOn
  <2>3. EpochBound'
    BY <1>u, <2>1, EpochKept DEF tracerVars
  <2>4. WireTypes'
    BY <1>0, <2>1 DEF WireTypes
  <2>5. ready' \in Seq(Links)
    BY <2>1, EmptySeq
  <2>6. leaked' \in 0..MaxConn /\ faults' \in 0..MaxFaults
    BY <1>t, <2>1
  <2>7. /\ conns' \subseteq Links /\ cur' \in Links \cup {<<>>}
        /\ srv' \in {"down", "recv", "insert", "reply"} /\ result' \in BOOLEAN
    BY <2>1
  <2>8. dbUp' \in BOOLEAN /\ rows' \in Seq(Events)
    BY <1>0, <2>1 DEF ServerTypes
  <2>9. ServerTypes'
    BY <2>5, <2>6, <2>7, <2>8 DEF ServerTypes
  <2> QED
    BY <2>2, <2>3, <2>4, <2>9 DEF DeliveryTypes, TypeOK
<1>7. CASE DbStop \/ DbStart
  <2>1. /\ UNCHANGED <<tracerVars, wireVars, serverVars, rows>> /\ dbUp' \in BOOLEAN
        /\ faults' = faults \/ (faults < MaxFaults /\ faults' = faults + 1)
    BY <1>7 DEF DbStop, DbStart, Fault
  <2>2. TracerTypes' /\ WireTypes' /\ WorkedOn'
    BY <1>0, <2>1 DEF tracerVars, wireVars, serverVars, TracerTypes, WireTypes, WorkedOn
  <2>3. EpochBound'
    BY <1>u, <2>1, EpochKept DEF tracerVars, serverVars
  <2>4. ServerTypes'
    BY <1>0, <1>t, <2>1 DEF ServerTypes, serverVars
  <2> QED
    BY <2>2, <2>3, <2>4 DEF DeliveryTypes, TypeOK
<1> QED
  BY <1>1, <1>2, <1>3, <1>4, <1>5, <1>6, <1>7

(* Every step keeps the types.                                             *)
LEMMA DeliveryTypesNext == DeliveryTypes /\ [Next]_vars => DeliveryTypes'
<1> SUFFICES ASSUME DeliveryTypes, [Next]_vars PROVE DeliveryTypes'
  OBVIOUS
<1>1. CASE Next
  <2>1. ASSUME NEW t \in Tracers, TracerCrash(t) PROVE DeliveryTypes'
    <3>1. busy[t] \in Events
      BY <2>1 DEF TracerCrash, DeliveryTypes, TypeOK, TracerTypes
    <3> QED
      BY <2>1, <3>1, TracerTypesNext
  <2> QED
    BY <1>1, <2>1, TracerTypesNext, SocketTypesNext, ServerTypesNext DEF Next, NextNoRow
<1>2. CASE UNCHANGED vars
  BY <1>2 DEF DeliveryTypes, TypeOK, TracerTypes, WireTypes, ServerTypes, EpochBound, WorkedOn,
              vars, tracerVars, wireVars, serverVars
<1> QED
  BY <1>1, <1>2

(* Every variable keeps its type, whatever crashes, is lost or is sent     *)
(* twice: no socket has more connections than faults and one, and the      *)
(* server never holds more database connections than it was granted.       *)
THEOREM DeliveryTypeCorrect == Spec => []TypeOK
<1>1. Spec => []DeliveryTypes
  BY DeliveryInit, DeliveryTypesNext, PTL DEF Spec
<1>2. DeliveryTypes => TypeOK
  BY DEF DeliveryTypes
<1> QED
  BY <1>1, <1>2, PTL

-----------------------------------------------------------------------------
(* An acknowledged event is stored.                                        *)

AckInv == DeliveryTypes /\ SuccessUnderWay /\ AckedIsStored

(* Steps that neither answer nor remove a row.                             *)
LEMMA AckKept ==
  ASSUME AckInv, \A m \in Events : Stored(m) => Stored(m)',
         UNCHANGED answer,
         \A m \in Events, e \in Epochs : ToSet(replies'[m][e]) \subseteq ToSet(replies[m][e]),
         srv' = "reply" /\ result' => Stored(cur[1])' \/ UNCHANGED <<srv, cur, result>>,
         srv = "reply" => cur[1] \in Events
  PROVE  SuccessUnderWay' /\ AckedIsStored'
<1>1. SuccessUnderWay /\ AckedIsStored
  BY DEF AckInv
<1>2. AckedIsStored'
  BY <1>1 DEF AckedIsStored
<1>3. \A m \in Events, e \in Epochs : "S" \in ToSet(replies'[m][e]) => Stored(m)'
  BY <1>1 DEF SuccessUnderWay
<1>4. srv' = "reply" /\ result' => Stored(cur[1])'
  <2>1. CASE UNCHANGED <<srv, cur, result>>
    <3>1. srv' = "reply" /\ result' => Stored(cur[1])
      BY <1>1, <2>1 DEF SuccessUnderWay
    <3> QED
      BY <2>1, <3>1
  <2> QED
    BY <2>1
<1> QED
  BY <1>2, <1>3, <1>4 DEF SuccessUnderWay

(* A client's side that ends loses replies only.                           *)
LEMMA HangUpLosesReplies ==
  ASSUME DeliveryTypes, NEW m \in Events, HangUp(m), NEW n \in Events, NEW e \in Epochs
  PROVE  ToSet(replies'[n][e]) \subseteq ToSet(replies[n][e])
<1>1. replies \in [Events -> [Epochs -> Seq({"S", "E"})]]
  BY DEF DeliveryTypes, TypeOK, WireTypes
<1>2. replies' = [replies EXCEPT ![m] = [d \in Epochs |-> <<>>]]
  BY DEF HangUp
<1>3. CASE n # m
  BY <1>1, <1>2, <1>3
<1>4. CASE n = m
  <2>1. replies'[n][e] = <<>>
    BY <1>1, <1>2, <1>4
  <2>2. ToSet(<<>>) = {}
    BY DEF ToSet
  <2> QED
    BY <2>1, <2>2
<1> QED
  BY <1>3, <1>4

(* Every step keeps what is known of answers.                              *)
LEMMA AckNext == AckInv /\ [Next]_vars => AckInv'
<1> SUFFICES ASSUME AckInv, [Next]_vars PROVE SuccessUnderWay' /\ AckedIsStored'
  BY DeliveryTypesNext DEF AckInv
<1>0. DeliveryTypes /\ SuccessUnderWay /\ AckedIsStored
  BY DEF AckInv
<1>t. /\ replies \in [Events -> [Epochs -> Seq({"S", "E"})]]
      /\ rows \in Seq(Events) /\ answer \in [Events -> {"none", "S", "E"}]
      /\ busy \in [Tracers -> Events \cup {NoEvent}]
      /\ epoch \in [Events -> 0..(MaxFaults + 1)] /\ MaxFaults \in Nat
  BY <1>0, DeliveryAssumption DEF DeliveryTypes, TypeOK, TracerTypes, WireTypes, ServerTypes
<1>w. srv \in {"insert", "reply"} => cur \in Links /\ cur[1] \in Events /\ cur[2] \in Epochs
  BY <1>0 DEF DeliveryTypes, WorkedOn, Links
<1>s. rows' = rows => \A m \in Events : Stored(m) => Stored(m)'
  BY DEF Stored
<1>1. CASE UNCHANGED <<answer, replies, srv, cur, result, rows>>
  BY <1>w, <1>s, <1>1, AckKept
<1>2. ASSUME NEW t \in Tracers, NEW m \in Events, Finish(t, m)
      PROVE  SuccessUnderWay' /\ AckedIsStored'
  <2>1. /\ up[m] /\ replies[m][epoch[m]] # <<>> /\ HangUp(m)
        /\ answer' = [answer EXCEPT ![m] = Head(replies[m][epoch[m]])]
        /\ UNCHANGED <<srv, cur, result, rows>>
    BY <1>2 DEF Finish, serverVars
  <2>2. epoch[m] \in Epochs
    <3>1. epoch[m] > 0
      BY <1>0, <2>1 DEF DeliveryTypes, EpochBound
    <3> QED
      BY <1>t, <3>1 DEF Epochs
  <2>3. answer'[m] = "S" => Stored(m)
    <3>1. Head(replies[m][epoch[m]]) \in ToSet(replies[m][epoch[m]])
      BY <1>t, <2>1, <2>2, TakeFacts
    <3> QED
      BY <1>0, <1>t, <2>1, <2>2, <3>1 DEF SuccessUnderWay
  <2>4. AckedIsStored'
    BY <1>0, <1>t, <1>s, <2>1, <2>3 DEF AckedIsStored
  <2>5. \A n \in Events, e \in Epochs : "S" \in ToSet(replies'[n][e]) => Stored(n)'
    BY <1>0, <1>s, <2>1, HangUpLosesReplies DEF SuccessUnderWay
  <2>6. srv' = "reply" /\ result' => Stored(cur[1])'
    BY <1>0, <1>w, <1>s, <2>1 DEF SuccessUnderWay
  <2> QED
    BY <2>4, <2>5, <2>6 DEF SuccessUnderWay
<1>3. ASSUME NEW m \in Events, HangUp(m), UNCHANGED <<answer, srv, cur, result, rows>>
      PROVE  SuccessUnderWay' /\ AckedIsStored'
  BY <1>0, <1>w, <1>s, <1>3, HangUpLosesReplies, AckKept
<1>4. CASE Storing
  <2>1. /\ srv = "insert" /\ rows' = Append(rows, cur[1])
        /\ UNCHANGED <<answer, replies, cur>>
    BY <1>4 DEF Storing, InsertRow, InsertAnswerLost, tracerVars, wireVars
  <2>2. ToSet(rows') = ToSet(rows) \cup {cur[1]}
    BY <1>t, <1>w, <2>1, AppendFacts
  <2>3. \A m \in Events : Stored(m) => Stored(m)'
    BY <2>2 DEF Stored
  <2>4. Stored(cur[1])'
    BY <2>1, <2>2 DEF Stored
  <2> QED
    BY <1>w, <2>1, <2>3, <2>4, AckKept
<1>5. CASE InsertRefused \/ TakeRequest \/ ServerStart \/ ServerCrash
  <2>1. /\ UNCHANGED <<answer, replies, rows>> /\ (srv' = "reply" => ~result')
    BY <1>5 DEF InsertRefused, TakeRequest, ServerStart, ServerCrash, InsertReturns,
                tracerVars, wireVars
  <2> QED
    BY <1>w, <1>s, <2>1, AckKept
<1>6. CASE Reply
  <2>1. /\ srv = "reply" /\ srv' = "recv" /\ UNCHANGED <<answer, rows>>
    BY <1>6 DEF Reply, tracerVars
  <2>2. AckedIsStored'
    BY <1>0, <1>s, <2>1 DEF AckedIsStored
  <2>3. ASSUME NEW n \in Events, NEW e \in Epochs, "S" \in ToSet(replies'[n][e])
        PROVE  Stored(n)
    <3>1. CASE replies'[n][e] = replies[n][e]
      BY <1>0, <2>3, <3>1 DEF SuccessUnderWay
    <3>2. CASE replies'[n][e] # replies[n][e]
      <4>1. /\ n = cur[1] /\ e = cur[2]
            /\ replies'[n][e] = Append(replies[n][e], IF result THEN "S" ELSE "E")
        BY <1>6, <1>t, <1>w, <2>1, <3>2 DEF Reply
      <4>2. CASE result
        BY <1>0, <2>1, <4>1, <4>2 DEF SuccessUnderWay
      <4>3. CASE ~result
        <5>1. ToSet(replies'[n][e]) = ToSet(replies[n][e]) \cup {"E"}
          <6>1. replies[n][e] \in Seq({"S", "E"}) /\ "E" \in {"S", "E"}
            BY <1>t
          <6>2. replies'[n][e] = Append(replies[n][e], "E")
            BY <4>1, <4>3
          <6> QED
            BY <6>1, <6>2, AppendFacts
        <5> QED
          BY <1>0, <2>3, <5>1 DEF SuccessUnderWay
      <4> QED
        BY <4>2, <4>3
    <3> QED
      BY <3>1, <3>2
  <2>4. \A n \in Events : Stored(n) => Stored(n)'
    BY <1>s, <2>1
  <2> QED
    BY <2>1, <2>2, <2>3, <2>4 DEF SuccessUnderWay
<1>7. CASE Next
  <2>1. ASSUME NEW t \in Tracers, TracerCrash(t)
        PROVE  SuccessUnderWay' /\ AckedIsStored'
    <3>1. busy[t] \in Events
      BY <1>t, <2>1 DEF TracerCrash
    <3> QED
      BY <1>3, <2>1, <3>1 DEF TracerCrash, serverVars
  <2>2. ASSUME NEW m \in Events, ConnectionLost(m)
        PROVE  SuccessUnderWay' /\ AckedIsStored'
    BY <1>3, <2>2 DEF ConnectionLost, serverVars
  <2>3. ASSUME NEW m \in Events,
               \/ \E t \in Tracers : Receive(t, m)
               \/ Dial(m) \/ DialFails(m) \/ Send(m) \/ Reconnect(m) \/ Resend(m)
        PROVE  SuccessUnderWay' /\ AckedIsStored'
    BY <1>1, <2>3 DEF Receive, Dial, DialFails, Send, Reconnect, Resend, wireVars, serverVars
  <2>4. ASSUME NEW m \in Events, NEW e \in Epochs, HoldRequest(m, e) \/ NoticeHangUp(m, e)
        PROVE  SuccessUnderWay' /\ AckedIsStored'
    BY <1>1, <2>4 DEF HoldRequest, NoticeHangUp, tracerVars
  <2>5. CASE DbStop \/ DbStart
    BY <1>1, <2>5 DEF DbStop, DbStart, tracerVars, wireVars, serverVars
  <2> QED
    BY <1>2, <1>4, <1>5, <1>6, <1>7, <2>1, <2>2, <2>3, <2>4, <2>5 DEF Next, NextNoRow
<1>8. CASE UNCHANGED vars
  BY <1>1, <1>8 DEF vars, tracerVars, wireVars, serverVars
<1> QED
  BY <1>7, <1>8

(* Whatever is resent, lost, restarted or answered late: a reply "S 000"   *)
(* is received only for an event that is in the raw log.                   *)
THEOREM AckedEventsAreStored == Spec => []AckedIsStored
<1>1. Init => AckInv
  <2> SUFFICES ASSUME Init PROVE AckInv
    OBVIOUS
  <2>1. \A m \in Events, e \in Epochs : ToSet(replies[m][e]) = {}
    BY DEF Init, ToSet
  <2>2. SuccessUnderWay /\ AckedIsStored
    BY <2>1 DEF Init, SuccessUnderWay, AckedIsStored
  <2> QED
    BY <2>2, DeliveryInit DEF AckInv
<1>2. AckInv => AckedIsStored
  BY DEF AckInv
<1> QED
  BY <1>1, <1>2, AckNext, PTL DEF Spec

-----------------------------------------------------------------------------
(* rep0 holds a request of a connection once.                              *)

HeldInv == DeliveryTypes /\ HeldOnce

(* Every step keeps the list of held requests free of repetition.          *)
LEMMA HeldNext == HeldInv /\ [Next]_vars => HeldInv'
<1> SUFFICES ASSUME HeldInv, [Next]_vars PROVE HeldOnce'
  BY DeliveryTypesNext DEF HeldInv
<1>0. /\ ToSet(ready) \subseteq conns
      /\ \A j, k \in DOMAIN ready : ready[j] = ready[k] => j = k
      /\ ready \in Seq(Links) /\ Len(ready) \in Nat /\ DOMAIN ready = 1..Len(ready)
  BY LenProperties DEF HeldInv, HeldOnce, DeliveryTypes, TypeOK, ServerTypes
<1>1. CASE ready' = ready /\ conns \subseteq conns'
  BY <1>0, <1>1 DEF HeldOnce
<1>2. ASSUME NEW m \in Events, NEW e \in Epochs, HoldRequest(m, e) PROVE HeldOnce'
  <2> DEFINE l == <<m, e>>
  <2>1. l \in Links /\ l \in conns /\ l \notin ToSet(ready) /\ conns' = conns /\ ready' = Append(ready, l)
    BY <1>2 DEF HoldRequest, Links
  <2> HIDE DEF l
  <2>2. ToSet(ready') \subseteq conns'
    BY <1>0, <2>1, AppendFacts
  <2>3. /\ \A k \in DOMAIN ready : ready'[k] = ready[k] /\ ready[k] # l
        /\ ready'[Len(ready) + 1] = l /\ DOMAIN ready' = 1..(Len(ready) + 1)
    <3>1. /\ ready' \in Seq(Links) /\ Len(ready') = Len(ready) + 1
          /\ \A k \in 1..Len(ready) : ready'[k] = ready[k]
          /\ ready'[Len(ready) + 1] = l
      BY <1>0, <2>1, AppendProperties
    <3> QED
      BY <1>0, <2>1, <3>1, LenProperties DEF ToSet
  <2>4. \A j, k \in DOMAIN ready' : ready'[j] = ready'[k] => j = k
    BY <1>0, <2>3
  <2> QED
    BY <2>2, <2>4 DEF HeldOnce
<1>3. ASSUME NEW m \in Events, NEW e \in Epochs, NoticeHangUp(m, e) PROVE HeldOnce'
  <2> DEFINE l == <<m, e>>
  <2>1. /\ conns' = conns \ {l}
        /\ \/ l \notin ToSet(ready) /\ ready' = ready
           \/ \E k \in DOMAIN ready : ready[k] = l /\ ready' = RemoveAt(ready, k)
    BY <1>3 DEF NoticeHangUp
  <2> HIDE DEF l
  <2>2. CASE l \notin ToSet(ready) /\ ready' = ready
    BY <1>0, <2>1, <2>2 DEF HeldOnce
  <2>3. ASSUME NEW i \in DOMAIN ready, ready[i] = l, ready' = RemoveAt(ready, i)
        PROVE  HeldOnce'
    <3> DEFINE from(k) == IF k < i THEN k ELSE k + 1
    <3>1. /\ ready' \in Seq(Links) /\ Len(ready') = Len(ready) - 1
          /\ \A k \in 1..(Len(ready) - 1) : ready'[k] = ready[from(k)]
      <4>1. ready \in Seq(Links) /\ i \in DOMAIN ready
        BY <1>0
      <4>2. /\ RemoveAt(ready, i) \in Seq(Links) /\ Len(RemoveAt(ready, i)) = Len(ready) - 1
            /\ \A k \in 1..(Len(ready) - 1) :
                 RemoveAt(ready, i)[k] = ready[IF k < i THEN k ELSE k + 1]
        BY ONLY <4>1, RemoveAtFacts
      <4> QED
        BY <2>3, <4>2
    <3>2. DOMAIN ready' = 1..(Len(ready) - 1)
      BY <3>1, LenProperties
    <3>3. \A k \in DOMAIN ready' : from(k) \in DOMAIN ready /\ from(k) # i
      BY <1>0, <3>2
    <3>4. \A j, k \in DOMAIN ready' : from(j) = from(k) => j = k
      BY <1>0, <3>2
    <3> HIDE DEF from
    <3>5. ToSet(ready') \subseteq conns'
      <4>1. \A k \in DOMAIN ready' : ready'[k] \in ToSet(ready) /\ ready'[k] # l
        BY <1>0, <2>3, <3>1, <3>2, <3>3 DEF ToSet
      <4> QED
        BY <1>0, <2>1, <4>1 DEF ToSet
    <3>6. \A j, k \in DOMAIN ready' : ready'[j] = ready'[k] => j = k
      BY <1>0, <3>1, <3>2, <3>3, <3>4
    <3> QED
      BY <3>5, <3>6 DEF HeldOnce
  <2> QED
    BY <2>1, <2>2, <2>3
<1>4. CASE TakeRequest
  <2>1. /\ ready # <<>> /\ ready' = Tail(ready) /\ conns' = conns
    BY <1>4 DEF TakeRequest
  <2>2. ToSet(ready') \subseteq conns'
    BY <1>0, <2>1, TakeFacts
  <2>3. /\ DOMAIN ready' = 1..(Len(ready) - 1)
        /\ \A k \in 1..(Len(ready) - 1) : ready'[k] = ready[k + 1]
    <3>1. /\ ready' \in Seq(Links) /\ Len(ready') = Len(ready) - 1
          /\ \A k \in 1..Len(ready') : ready'[k] = ready[k + 1]
      BY <1>0, <2>1, HeadTailProperties
    <3> QED
      BY <3>1, LenProperties
  <2>4. \A j, k \in DOMAIN ready' : ready'[j] = ready'[k] => j = k
    BY <1>0, <2>3
  <2> QED
    BY <2>2, <2>4 DEF HeldOnce
<1>5. CASE ServerCrash
  <2>1. ready' = <<>> /\ ToSet(<<>>) = {}
    BY <1>5 DEF ServerCrash, ToSet
  <2> QED
    BY <2>1 DEF HeldOnce
<1>6. CASE Next
  <2>1. ASSUME NEW m \in Events, Dial(m) \/ Reconnect(m) PROVE HeldOnce'
    BY <1>1, <2>1 DEF Dial, Reconnect, Connect
  <2>2. ASSUME NEW m \in Events,
               \/ \E t \in Tracers : Receive(t, m) \/ Finish(t, m)
               \/ DialFails(m) \/ Send(m) \/ Resend(m) \/ ConnectionLost(m)
        PROVE  HeldOnce'
    BY <1>1, <2>2 DEF Receive, Finish, DialFails, Send, Resend, ConnectionLost, serverVars
  <2>3. ASSUME NEW t \in Tracers, TracerCrash(t) PROVE HeldOnce'
    BY <1>1, <2>3 DEF TracerCrash, serverVars
  <2>4. CASE ServerStart \/ InsertRefused \/ Reply \/ Storing \/ DbStop \/ DbStart
    BY <1>1, <2>4 DEF ServerStart, InsertRefused, Reply, Storing, InsertRow, InsertAnswerLost,
                      DbStop, DbStart, serverVars
  <2> QED
    BY <1>2, <1>3, <1>4, <1>5, <1>6, <2>1, <2>2, <2>3, <2>4 DEF Next, NextNoRow
<1>7. CASE UNCHANGED vars
  BY <1>1, <1>7 DEF vars, serverVars
<1> QED
  BY <1>6, <1>7

(* The list of requests rep0 has read but not handed out never holds two   *)
(* of one connection, nor one of a connection rep0 knows to be gone.       *)
THEOREM RequestsHeldOnce == Spec => []HeldOnce
<1>1. Init => HeldInv
  <2> SUFFICES ASSUME Init PROVE HeldOnce
    BY DeliveryInit DEF HeldInv
  <2>1. ready = <<>> /\ ToSet(<<>>) = {}
    BY DEF Init, ToSet
  <2> QED
    BY <2>1 DEF HeldOnce
<1>2. HeldInv => HeldOnce
  BY DEF HeldInv
<1> QED
  BY <1>1, <1>2, HeldNext, PTL DEF Spec

-----------------------------------------------------------------------------
(* An event whose dial failed goes nowhere.                                *)

(* UndialedIsStuck for one event, and that nothing of it is on its way.    *)
Stuck(m) ==
  ~dialed[m] =>
    /\ pc[m] \notin {"recv", "done"} /\ ~Stored(m) /\ sent[m] = 0
    /\ ~up[m] /\ \A e \in Epochs : inbox[m][e] = 0
    /\ \A l \in ToSet(ready) : l[1] # m
    /\ srv = "insert" => cur[1] # m

StuckInv == DeliveryTypes /\ \A m \in Events : Stuck(m)

(* A step of the tracer on one event leaves the others as they are.        *)
LEMMA StuckTracer ==
  ASSUME StuckInv, NEW m \in Events, NEW n \in Events,
         \/ \E t \in Tracers : Receive(t, m) \/ Finish(t, m)
         \/ \E t \in Tracers : TracerCrash(t) /\ busy[t] = m
         \/ Dial(m) \/ DialFails(m) \/ Send(m) \/ Reconnect(m)
         \/ Resend(m) \/ ConnectionLost(m)
  PROVE  Stuck(n)'
<1>t. /\ pc \in [Events -> InFlight \cup {"new", "done", "lost"}]
      /\ dialed \in [Events -> BOOLEAN] /\ up \in [Events -> BOOLEAN]
      /\ sent \in [Events -> Nat] /\ inbox \in [Events -> [Epochs -> Nat]]
  BY DEF StuckInv, DeliveryTypes, TypeOK, TracerTypes, WireTypes
<1>0. Stuck(n) /\ Stuck(m)
  BY DEF StuckInv
<1>1. UNCHANGED <<ready, srv, cur, rows>>
  BY DEF Receive, Finish, TracerCrash, Dial, DialFails, Send, Reconnect, Resend, ConnectionLost,
         serverVars
<1>2. CASE n # m
  <2>1. pc'[n] = pc[n] /\ sent'[n] = sent[n] /\ up'[n] = up[n]
    BY <1>t, <1>2 DEF Receive, Finish, TracerCrash, Dial, DialFails, Send, Reconnect, Resend,
         ConnectionLost, Step, Connect, Transmit, HangUp
  <2>2. dialed'[n] = dialed[n]
    BY <1>t, <1>2 DEF Receive, Finish, TracerCrash, Dial, DialFails, Send, Reconnect, Resend,
         ConnectionLost
  <2>3. inbox'[n] = inbox[n]
    BY <1>t, <1>2 DEF Receive, Finish, TracerCrash, Dial, DialFails, Send, Reconnect, Resend,
         ConnectionLost, Transmit, wireVars
  <2> QED
    BY <1>0, <1>1, <2>1, <2>2, <2>3 DEF Stuck, Stored
<1>3. CASE n = m /\ ~dialed'[m]
  <2>1. ~dialed[m] /\ dialed' = dialed
    BY <1>t, <1>3 DEF Receive, Finish, TracerCrash, Dial, DialFails, Send, Reconnect, Resend,
         ConnectionLost
  <2>2. ~up[m] /\ pc[m] # "recv" /\ sent[m] = 0 /\ \A e \in Epochs : inbox[m][e] = 0
    BY <1>0, <2>1 DEF Stuck
  <2> DEFINE Still == /\ pc'[m] \notin {"recv", "done"} /\ sent' = sent /\ inbox' = inbox
                      /\ up'[m] = FALSE
  <2>3. ASSUME DialFails(m) \/ \E t \in Tracers : Receive(t, m) PROVE Still
    BY <1>t, <2>2, <2>3 DEF DialFails, Receive, Step, wireVars
  <2>4. ASSUME Send(m) PROVE Still
    BY <1>t, <2>2, <2>4 DEF Send, Step
  <2>5. ASSUME \E t \in Tracers : TracerCrash(t) /\ busy[t] = m PROVE Still
    BY <1>t, <2>5 DEF TracerCrash, Step, HangUp
  <2>6. /\ ~ \E t \in Tracers : Finish(t, m)
        /\ ~Dial(m) /\ ~Reconnect(m) /\ ~Resend(m) /\ ~ConnectionLost(m)
    BY <1>t, <1>3, <2>1, <2>2 DEF Finish, Dial, Reconnect, Resend, ConnectionLost
  <2>7. Still
    BY <2>3, <2>4, <2>5, <2>6
  <2> QED
    BY <1>0, <1>1, <1>3, <2>1, <2>2, <2>7 DEF Stuck, Stored
<1> QED
  BY <1>2, <1>3 DEF Stuck

(* The steps of the server.                                                *)
LEMMA StuckServer ==
  ASSUME StuckInv, NEW n \in Events,
         \/ \E m \in Events, e \in Epochs : HoldRequest(m, e) \/ NoticeHangUp(m, e)
         \/ ServerStart \/ TakeRequest \/ InsertRefused \/ Reply \/ ServerCrash
         \/ DbStop \/ DbStart \/ Storing
  PROVE  Stuck(n)'
<1>t. /\ inbox \in [Events -> [Epochs -> Nat]] /\ ready \in Seq(Links) /\ rows \in Seq(Events)
  BY DEF StuckInv, DeliveryTypes, TypeOK, WireTypes, ServerTypes
<1>0. Stuck(n) /\ UNCHANGED <<pc, dialed, up, sent>>
  BY DEF StuckInv, HoldRequest, NoticeHangUp, ServerStart, TakeRequest, InsertRefused, Reply,
         ServerCrash, DbStop, DbStart, Storing, InsertRow, InsertAnswerLost, tracerVars
<1> SUFFICES ASSUME ~dialed[n]
    PROVE  /\ ~Stored(n)' /\ \A e \in Epochs : inbox'[n][e] = 0
           /\ \A l \in ToSet(ready') : l[1] # n
           /\ srv' = "insert" => cur'[1] # n
  BY <1>0 DEF Stuck
<1>u. /\ ~Stored(n) /\ \A e \in Epochs : inbox[n][e] = 0
      /\ \A l \in ToSet(ready) : l[1] # n
      /\ srv = "insert" => cur[1] # n
  BY <1>0 DEF Stuck
<1>1. ASSUME NEW m \in Events, NEW e \in Epochs, HoldRequest(m, e)
      PROVE  /\ ~Stored(n)' /\ \A d \in Epochs : inbox'[n][d] = 0
             /\ \A l \in ToSet(ready') : l[1] # n
             /\ srv' = "insert" => cur'[1] # n
  <2>1. /\ inbox[m][e] > 0 /\ inbox' = [inbox EXCEPT ![m][e] = @ - 1]
        /\ ready' = Append(ready, <<m, e>>) /\ <<m, e>> \in Links
        /\ UNCHANGED <<srv, cur, rows>>
    BY <1>1 DEF HoldRequest, Links
  <2>2. n # m
    BY <1>u, <2>1
  <2>3. inbox'[n] = inbox[n]
    BY <1>t, <2>1, <2>2
  <2>4. ToSet(ready') = ToSet(ready) \cup {<<m, e>>}
    <3> DEFINE l == <<m, e>>
    <3> HIDE DEF l
    <3>1. l \in Links /\ ready' = Append(ready, l)
      BY <2>1 DEF l
    <3>2. ToSet(ready') = ToSet(ready) \cup {l}
      BY <1>t, <3>1, AppendFacts
    <3> QED
      BY <3>2 DEF l
  <2> QED
    BY <1>u, <2>1, <2>2, <2>3, <2>4 DEF Stored
<1>2. ASSUME NEW m \in Events, NEW e \in Epochs, NoticeHangUp(m, e)
      PROVE  /\ ~Stored(n)' /\ \A d \in Epochs : inbox'[n][d] = 0
             /\ \A l \in ToSet(ready') : l[1] # n
             /\ srv' = "insert" => cur'[1] # n
  <2>1. /\ inbox' = [inbox EXCEPT ![m][e] = 0] /\ UNCHANGED <<srv, cur, rows>>
        /\ ready' = ready \/ \E k \in DOMAIN ready : ready' = RemoveAt(ready, k)
    BY <1>2 DEF NoticeHangUp
  <2>2. \A d \in Epochs : inbox'[n][d] = 0
    BY <1>t, <1>u, <2>1
  <2>3. ToSet(ready') \subseteq ToSet(ready)
    <3>1. ASSUME NEW k \in DOMAIN ready, ready' = RemoveAt(ready, k)
          PROVE  ToSet(ready') \subseteq ToSet(ready)
      <4>1. /\ ready' \in Seq(Links) /\ Len(ready') = Len(ready) - 1
            /\ \A j \in 1..(Len(ready) - 1) : ready'[j] = ready[IF j < k THEN j ELSE j + 1]
        BY <1>t, <3>1, RemoveAtFacts
      <4>2. /\ DOMAIN ready' = 1..(Len(ready) - 1)
            /\ DOMAIN ready = 1..Len(ready) /\ Len(ready) \in Nat
        BY <1>t, <4>1, LenProperties
      <4>3. \A j \in DOMAIN ready' : ready'[j] \in ToSet(ready)
        BY <4>1, <4>2 DEF ToSet
      <4> QED
        BY <4>3 DEF ToSet
    <3> QED
      BY <2>1, <3>1
  <2> QED
    BY <1>u, <2>1, <2>2, <2>3 DEF Stored
<1>3. CASE TakeRequest
  <2>1. /\ ready # <<>> /\ cur' = Head(ready) /\ ready' = Tail(ready)
        /\ UNCHANGED <<inbox, rows>>
    BY <1>3 DEF TakeRequest, wireVars
  <2>2. Head(ready) \in ToSet(ready) /\ ToSet(Tail(ready)) \subseteq ToSet(ready)
    BY <1>t, <2>1, TakeFacts
  <2> QED
    BY <1>u, <2>1, <2>2 DEF Stored
<1>4. CASE Storing
  <2>1. /\ srv = "insert" /\ rows' = Append(rows, cur[1]) /\ srv' = "reply"
        /\ UNCHANGED <<inbox, ready>>
    BY <1>4 DEF Storing, InsertRow, InsertAnswerLost, InsertReturns, wireVars
  <2>2. cur[1] \in Events
    BY <2>1 DEF StuckInv, DeliveryTypes, WorkedOn, Links
  <2>3. ToSet(rows') = ToSet(rows) \cup {cur[1]}
    BY <1>t, <2>1, <2>2, AppendFacts
  <2> QED
    BY <1>u, <2>1, <2>3 DEF Stored
<1>5. CASE ServerCrash
  <2>1. ready' = <<>> /\ ToSet(<<>>) = {} /\ srv' = "down" /\ rows' = rows
    BY <1>5 DEF ServerCrash, ToSet
  <2>2. \A d \in Epochs : inbox'[n][d] = 0
    BY <1>5 DEF ServerCrash
  <2> QED
    BY <1>u, <2>1, <2>2 DEF Stored
<1>6. CASE ServerStart \/ InsertRefused \/ Reply \/ DbStop \/ DbStart
  <2>1. UNCHANGED <<inbox, ready, rows>> /\ (srv' = "insert" => srv = "insert" /\ cur' = cur)
    BY <1>6 DEF ServerStart, InsertRefused, InsertReturns, Reply, DbStop, DbStart, wireVars, serverVars
  <2> QED
    BY <1>u, <2>1 DEF Stored
<1> QED
  BY <1>1, <1>2, <1>3, <1>4, <1>5, <1>6

(* Every step keeps StuckInv.                                              *)
LEMMA StuckNext == StuckInv /\ [Next]_vars => StuckInv'
<1> SUFFICES ASSUME StuckInv, [Next]_vars, NEW n \in Events PROVE Stuck(n)'
  BY DeliveryTypesNext DEF StuckInv
<1>1. ASSUME NEW t \in Tracers, TracerCrash(t) PROVE Stuck(n)'
  <2>1. busy[t] \in Events
    BY <1>1 DEF TracerCrash, StuckInv, DeliveryTypes, TypeOK, TracerTypes
  <2> QED
    BY <1>1, <2>1, StuckTracer
<1>2. CASE Next
  BY <1>1, <1>2, StuckTracer, StuckServer DEF Next, NextNoRow
<1>3. CASE UNCHANGED vars
  BY <1>3 DEF StuckInv, Stuck, Stored, vars, tracerVars, wireVars, serverVars
<1> QED
  BY <1>2, <1>3

(* An event whose first dial failed is never sent, stored or answered,     *)
(* whatever else is dialed, restarted or sent again.                       *)
THEOREM UndialedEventsAreStuck == Spec => []UndialedIsStuck
<1>1. Init => StuckInv
  <2> SUFFICES ASSUME Init, NEW m \in Events PROVE Stuck(m)
    BY DeliveryInit DEF StuckInv
  <2>1. ready = <<>> /\ rows = <<>> /\ ToSet(<<>>) = {}
    BY DEF Init, ToSet
  <2> QED
    BY <2>1 DEF Init, Stuck, Stored
<1>2. StuckInv => UndialedIsStuck
  BY DEF StuckInv, Stuck, UndialedIsStuck
<1> QED
  BY <1>1, <1>2, StuckNext, PTL DEF Spec

-----------------------------------------------------------------------------
(* Refusals come from leaked connections.                                  *)

RefuseInv == DeliveryTypes /\ RefusalUnderWay /\ InnocentRefusedOnlyByLeaks

(* Steps that bring no refusal on its way.                                 *)
LEMMA RefusalKept ==
  ASSUME RefuseInv, faults = 0, dbUp', UNCHANGED <<answer, leaked>>,
         \A m \in Events, e \in Epochs : ToSet(replies'[m][e]) \subseteq ToSet(replies[m][e]),
         srv' = "reply" /\ ~result' => UNCHANGED <<srv, cur, result>>
  PROVE  RefusalUnderWay' /\ InnocentRefusedOnlyByLeaks'
<1>1. /\ \A m \in Events \ Quoted : answer[m] = "E" => leaked = MaxConn
      /\ \A m \in Events \ Quoted, e \in Epochs : "E" \in ToSet(replies[m][e]) => leaked = MaxConn
      /\ srv = "reply" /\ ~result /\ cur[1] \notin Quoted => leaked = MaxConn
  BY DEF RefuseInv, RefusalUnderWay, InnocentRefusedOnlyByLeaks
<1>2. InnocentRefusedOnlyByLeaks'
  BY <1>1 DEF InnocentRefusedOnlyByLeaks
<1>3. \A m \in Events \ Quoted, e \in Epochs : "E" \in ToSet(replies'[m][e]) => leaked' = MaxConn
  BY <1>1
<1>4. srv' = "reply" /\ ~result' /\ cur'[1] \notin Quoted => leaked' = MaxConn
  BY <1>1
<1> QED
  BY <1>2, <1>3, <1>4 DEF RefusalUnderWay

(* Every step keeps RefuseInv; a fault makes it say nothing.               *)
LEMMA RefuseNext == RefuseInv /\ [Next]_vars => RefuseInv'
<1> SUFFICES ASSUME RefuseInv, [Next]_vars
             PROVE  RefusalUnderWay' /\ InnocentRefusedOnlyByLeaks'
  BY DeliveryTypesNext DEF RefuseInv
<1>t. /\ faults \in Nat /\ leaked \in 0..MaxConn /\ MaxConn \in Nat /\ MaxFaults \in Nat
      /\ replies \in [Events -> [Epochs -> Seq({"S", "E"})]]
      /\ answer \in [Events -> {"none", "S", "E"}]
      /\ busy \in [Tracers -> Events \cup {NoEvent}]
      /\ epoch \in [Events -> 0..(MaxFaults + 1)]
      /\ DeliveryTypes
  BY DeliveryAssumption DEF RefuseInv, DeliveryTypes, TypeOK, TracerTypes, WireTypes, ServerTypes
<1>f. CASE faults' # 0
  BY <1>f DEF RefusalUnderWay, InnocentRefusedOnlyByLeaks
<1>g. ASSUME faults' = 0, Fault PROVE FALSE
  BY <1>t, <1>g DEF Fault
<1>z. CASE faults' = 0 /\ faults # 0
  <2>1. faults' = faults + 1 \/ faults' = faults
    BY <1>t DEF Next, NextNoRow, Storing, Receive, Finish, TracerCrash, Dial, DialFails, Send,
       Reconnect, Resend, ConnectionLost, HoldRequest, NoticeHangUp, ServerStart, TakeRequest,
       InsertRow, InsertRefused, InsertAnswerLost, Reply, ServerCrash, DbStop, DbStart, Fault, vars
  <2> QED
    BY <1>t, <1>z, <2>1
<1> SUFFICES ASSUME faults = 0, faults' = 0
             PROVE  RefusalUnderWay' /\ InnocentRefusedOnlyByLeaks'
  BY <1>f, <1>z
<1>u. /\ dbUp
      /\ \A m \in Events \ Quoted : answer[m] = "E" => leaked = MaxConn
      /\ \A m \in Events \ Quoted, e \in Epochs : "E" \in ToSet(replies[m][e]) => leaked = MaxConn
      /\ srv = "reply" /\ ~result /\ cur[1] \notin Quoted => leaked = MaxConn
  BY DEF RefuseInv, RefusalUnderWay, InnocentRefusedOnlyByLeaks
<1>1. ASSUME UNCHANGED <<answer, leaked, dbUp, replies>>,
             srv' = "reply" /\ ~result' => UNCHANGED <<srv, cur, result>>
      PROVE  RefusalUnderWay' /\ InnocentRefusedOnlyByLeaks'
  BY <1>u, <1>1, RefusalKept
<1>2. ASSUME NEW m \in Events, HangUp(m), UNCHANGED <<answer, leaked, dbUp, srv, cur, result>>
      PROVE  RefusalUnderWay' /\ InnocentRefusedOnlyByLeaks'
  BY <1>t, <1>u, <1>2, HangUpLosesReplies, RefusalKept
<1>3. ASSUME NEW t \in Tracers, NEW m \in Events, Finish(t, m)
      PROVE  RefusalUnderWay' /\ InnocentRefusedOnlyByLeaks'
  <2>1. /\ up[m] /\ replies[m][epoch[m]] # <<>> /\ HangUp(m)
        /\ answer' = [answer EXCEPT ![m] = Head(replies[m][epoch[m]])]
        /\ UNCHANGED <<srv, cur, result, leaked, dbUp>>
    BY <1>3 DEF Finish, serverVars
  <2>2. epoch[m] \in Epochs
    <3>1. epoch[m] > 0
      BY <1>t, <2>1 DEF DeliveryTypes, EpochBound
    <3> QED
      BY <1>t, <3>1 DEF Epochs
  <2>3. Head(replies[m][epoch[m]]) \in ToSet(replies[m][epoch[m]])
    BY <1>t, <2>1, <2>2, TakeFacts
  <2>4. \A n \in Events \ Quoted : answer'[n] = "E" => leaked' = MaxConn
    BY <1>t, <1>u, <2>1, <2>2, <2>3
  <2>5. \A n \in Events \ Quoted, e \in Epochs : "E" \in ToSet(replies'[n][e]) => leaked' = MaxConn
    BY <1>t, <1>u, <2>1, HangUpLosesReplies
  <2>6. srv' = "reply" /\ ~result' /\ cur'[1] \notin Quoted => leaked' = MaxConn
    BY <1>u, <2>1
  <2> QED
    BY <1>u, <2>1, <2>4, <2>5, <2>6 DEF RefusalUnderWay, InnocentRefusedOnlyByLeaks
<1>4. CASE InsertRefused
  <2>1. /\ UNCHANGED <<answer, replies, dbUp, cur>> /\ srv' = "reply" /\ result' = FALSE
        /\ \/ leaked >= MaxConn /\ leaked' = leaked
           \/ leaked < MaxConn /\ cur[1] \in Quoted /\ leaked' = leaked + 1
    BY <1>4, <1>t, <1>u DEF InsertRefused, InsertReturns, CanConnect, tracerVars, wireVars
  <2>2. CASE leaked >= MaxConn /\ leaked' = leaked
    <3>1. leaked' = MaxConn
      BY <1>t, <2>2
    <3> QED
      BY <1>u, <2>1, <3>1 DEF RefusalUnderWay, InnocentRefusedOnlyByLeaks
  <2>3. CASE leaked < MaxConn /\ cur[1] \in Quoted
    <3>1. leaked # MaxConn
      BY <1>t, <2>3
    <3> QED
      BY <1>u, <2>1, <2>3, <3>1 DEF RefusalUnderWay, InnocentRefusedOnlyByLeaks
  <2> QED
    BY <2>1, <2>2, <2>3
<1>5. CASE Reply
  <2>1. /\ srv = "reply" /\ srv' = "recv" /\ UNCHANGED <<answer, leaked, dbUp>>
    BY <1>5 DEF Reply, tracerVars
  <2>w. cur \in Links /\ cur[1] \in Events /\ cur[2] \in Epochs
    BY <1>t, <2>1 DEF DeliveryTypes, WorkedOn, Links
  <2>2. ASSUME NEW n \in Events \ Quoted, NEW e \in Epochs, "E" \in ToSet(replies'[n][e])
        PROVE  leaked = MaxConn
    <3>1. CASE replies'[n][e] = replies[n][e]
      BY <1>u, <2>2, <3>1
    <3>2. CASE replies'[n][e] # replies[n][e]
      <4>1. /\ n = cur[1] /\ e = cur[2]
            /\ replies'[n][e] = Append(replies[n][e], IF result THEN "S" ELSE "E")
        BY <1>5, <1>t, <2>w, <3>2 DEF Reply
      <4>2. CASE ~result
        BY <1>u, <2>1, <4>1, <4>2
      <4>3. CASE result
        <5>1. ToSet(replies'[n][e]) = ToSet(replies[n][e]) \cup {"S"}
          <6>1. replies[n][e] \in Seq({"S", "E"}) /\ "S" \in {"S", "E"}
            BY <1>t
          <6>2. replies'[n][e] = Append(replies[n][e], "S")
            BY <4>1, <4>3
          <6> QED
            BY <6>1, <6>2, AppendFacts
        <5> QED
          BY <1>u, <2>2, <5>1
      <4> QED
        BY <4>2, <4>3
    <3> QED
      BY <3>1, <3>2
  <2> QED
    BY <1>u, <2>1, <2>2 DEF RefusalUnderWay, InnocentRefusedOnlyByLeaks
<1>6. CASE Next
  <2>1. CASE \/ \E t \in Tracers : TracerCrash(t)
             \/ InsertAnswerLost \/ ServerCrash \/ DbStop
    BY <1>g, <2>1 DEF TracerCrash, InsertAnswerLost, ServerCrash, DbStop
  <2>2. ASSUME NEW m \in Events, ConnectionLost(m)
        PROVE  RefusalUnderWay' /\ InnocentRefusedOnlyByLeaks'
    BY <1>2, <2>2 DEF ConnectionLost, serverVars
  <2>3. ASSUME NEW m \in Events,
               \/ \E t \in Tracers : Receive(t, m)
               \/ Dial(m) \/ DialFails(m) \/ Send(m) \/ Reconnect(m) \/ Resend(m)
        PROVE  RefusalUnderWay' /\ InnocentRefusedOnlyByLeaks'
    BY <1>1, <2>3 DEF Receive, Dial, DialFails, Send, Reconnect, Resend, wireVars, serverVars
  <2>4. ASSUME NEW m \in Events, NEW e \in Epochs, HoldRequest(m, e) \/ NoticeHangUp(m, e)
        PROVE  RefusalUnderWay' /\ InnocentRefusedOnlyByLeaks'
    BY <1>1, <2>4 DEF HoldRequest, NoticeHangUp, tracerVars
  <2>5. CASE TakeRequest \/ ServerStart
    BY <1>1, <2>5 DEF TakeRequest, ServerStart, tracerVars, wireVars
  <2>6. CASE InsertRow
    BY <1>1, <2>6 DEF InsertRow, InsertReturns, tracerVars, wireVars
  <2>7. CASE DbStart
    BY <1>u, <2>7 DEF DbStart
  <2> QED
    BY <1>3, <1>4, <1>5, <1>6, <2>1, <2>2, <2>3, <2>4, <2>5, <2>6, <2>7 DEF Next, NextNoRow, Storing
<1>7. CASE UNCHANGED vars
  BY <1>1, <1>7 DEF vars, tracerVars, wireVars, serverVars
<1> QED
  BY <1>6, <1>7

(* As long as nothing fails, a well-formed event is refused only when      *)
(* refused events have leaked every connection the database grants.        *)
THEOREM RefusalsComeFromLeaks == Spec => []InnocentRefusedOnlyByLeaks
<1>1. Init => RefuseInv
  <2> SUFFICES ASSUME Init PROVE RefusalUnderWay /\ InnocentRefusedOnlyByLeaks
    BY DeliveryInit DEF RefuseInv
  <2>1. \A m \in Events, e \in Epochs : ToSet(replies[m][e]) = {}
    BY DEF Init, ToSet
  <2> QED
    BY <2>1 DEF Init, RefusalUnderWay, InnocentRefusedOnlyByLeaks
<1>2. RefuseInv => InnocentRefusedOnlyByLeaks
  BY DEF RefuseInv
<1> QED
  BY <1>1, <1>2, RefuseNext, PTL DEF Spec

-----------------------------------------------------------------------------
(* Every row costs a transmission.                                         *)

(* The positions of a sequence that satisfy a condition are finitely many. *)
LEMMA OccurrencesFinite ==
  ASSUME NEW S, NEW s \in Seq(S), NEW T \in SUBSET (DOMAIN s)
  PROVE  IsFiniteSet(T) /\ Cardinality(T) \in Nat
<1>1. DOMAIN s = 1..Len(s) /\ Len(s) \in Nat
  BY LenProperties
<1>2. IsFiniteSet(DOMAIN s)
  BY <1>1, FS_Interval
<1> QED
  BY <1>2, FS_Subset, FS_CardinalityType

(* The copies on the wire are finitely many.                               *)
LEMMA OnWireFinite ==
  ASSUME DeliveryTypes, NEW m \in Events
  PROVE  IsFiniteSet(OnWire(m)) /\ Cardinality(OnWire(m)) \in Nat
<1> DEFINE f == [e \in Epochs |-> {e} \X (1..inbox[m][e])]
           T == {f[e] : e \in Epochs}
<1>1. inbox \in [Events -> [Epochs -> Nat]] /\ MaxFaults \in Nat
  BY DeliveryAssumption DEF DeliveryTypes, TypeOK, WireTypes
<1>2. IsFiniteSet(Epochs)
  BY <1>1, FS_Interval DEF Epochs
<1>3. f \in Surjection(Epochs, T)
  BY DEF Surjection
<1>4. IsFiniteSet(T)
  BY <1>2, <1>3, FS_Surjection
<1>5. ASSUME NEW e \in Epochs PROVE IsFiniteSet(f[e])
  <2>0. inbox[m][e] \in Nat
    BY <1>1
  <2>1. IsFiniteSet({e})
    BY FS_Singleton
  <2>2. IsFiniteSet(1..inbox[m][e])
    BY <2>0, FS_Interval
  <2> QED
    BY <2>1, <2>2, FS_Product
<1>6. OnWire(m) = UNION T
  BY DEF OnWire
<1>7. IsFiniteSet(UNION T)
  BY <1>4, <1>5, FS_UNION
<1> QED
  BY <1>6, <1>7, FS_CardinalityType

(* A transmission adds at most one copy to the wire.                       *)
LEMMA OnWireGrows ==
  ASSUME DeliveryTypes, NEW n \in Events, NEW m \in Events, NEW e,
         inbox' \in {inbox, [inbox EXCEPT ![m][e] = @ + 1]}
  PROVE  /\ Cardinality(OnWire(n)') \in Nat
         /\ Cardinality(OnWire(n)') <= Cardinality(OnWire(n)) + (IF n = m THEN 1 ELSE 0)
<1> DEFINE w == OnWire(n)
           x == <<e, inbox[m][e] + 1>>
<1>1. inbox \in [Events -> [Epochs -> Nat]]
  BY DEF DeliveryTypes, TypeOK, WireTypes
<1>2. IsFiniteSet(w) /\ Cardinality(w) \in Nat
  BY OnWireFinite
<1>3. n # m => w' = w
  <2>1. n # m => inbox'[n] = inbox[n]
    BY <1>1
  <2> QED
    BY <2>1 DEF OnWire, Epochs
<1>4. w' \subseteq w \cup {x}
  <2> SUFFICES ASSUME NEW y \in w' PROVE y \in w \cup {x}
    OBVIOUS
  <2>1. PICK d \in Epochs : y \in {d} \X (1..inbox'[n][d])
    BY DEF OnWire, Epochs
  <2>2. CASE inbox'[n][d] = inbox[n][d]
    BY <2>1, <2>2 DEF OnWire
  <2>3. CASE inbox'[n][d] # inbox[n][d]
    <3>1. n = m /\ d = e /\ inbox'[n][d] = inbox[n][d] + 1 /\ inbox[n][d] \in Nat
      BY <1>1, <2>3
    <3>2. 1..inbox'[n][d] = (1..inbox[n][d]) \cup {inbox[n][d] + 1}
      BY <3>1
    <3>3. y \in {d} \X (1..inbox[n][d]) \/ y = x
      BY <2>1, <3>1, <3>2
    <3> QED
      BY <3>3 DEF OnWire
  <2> QED
    BY <2>2, <2>3
<1> HIDE DEF w, x
<1>5. /\ IsFiniteSet(w \cup {x})
      /\ Cardinality(w \cup {x}) = IF x \in w THEN Cardinality(w) ELSE Cardinality(w) + 1
  BY <1>2, FS_AddElement
<1>6. IsFiniteSet(w') /\ Cardinality(w') \in Nat /\ Cardinality(w') <= Cardinality(w \cup {x})
  BY <1>4, <1>5, FS_Subset, FS_CardinalityType
<1>7. Cardinality(w') \in Nat /\ Cardinality(w') <= Cardinality(w) + (IF n = m THEN 1 ELSE 0)
  BY <1>2, <1>3, <1>5, <1>6
<1> QED
  BY <1>7 DEF w

(* Copies that are dropped, or none at all.                                *)
LEMMA OnWireShrinks ==
  ASSUME DeliveryTypes, NEW n \in Events,
         \A d \in Epochs : inbox'[n][d] \in 0..inbox[n][d]
  PROVE  /\ Cardinality(OnWire(n)') \in Nat
         /\ Cardinality(OnWire(n)') <= Cardinality(OnWire(n))
<1>1. inbox \in [Events -> [Epochs -> Nat]]
  BY DEF DeliveryTypes, TypeOK, WireTypes
<1>2. OnWire(n)' \subseteq OnWire(n)
  <2> SUFFICES ASSUME NEW y \in OnWire(n)' PROVE y \in OnWire(n)
    OBVIOUS
  <2>1. PICK d \in Epochs : y \in {d} \X (1..inbox'[n][d])
    BY DEF OnWire, Epochs
  <2>2. 1..inbox'[n][d] \subseteq 1..inbox[n][d]
    BY <1>1
  <2> QED
    BY <2>1, <2>2 DEF OnWire
<1> QED
  BY <1>2, OnWireFinite, FS_Subset, FS_CardinalityType

(* A request that rep0 reads leaves the wire.                              *)
LEMMA OnWireTaken ==
  ASSUME DeliveryTypes, NEW m \in Events, NEW e \in Epochs, inbox[m][e] > 0,
         inbox' = [inbox EXCEPT ![m][e] = @ - 1]
  PROVE  /\ Cardinality(OnWire(m)') \in Nat
         /\ Cardinality(OnWire(m)') <= Cardinality(OnWire(m)) - 1
<1> DEFINE w == OnWire(m)
           x == <<e, inbox[m][e]>>
<1>1. inbox \in [Events -> [Epochs -> Nat]]
  BY DEF DeliveryTypes, TypeOK, WireTypes
<1>2. IsFiniteSet(w) /\ Cardinality(w) \in Nat
  BY OnWireFinite
<1>3. x \in w
  <2>1. inbox[m][e] \in 1..inbox[m][e]
    BY <1>1
  <2>2. x \in {e} \X (1..inbox[m][e])
    BY <2>1
  <2> QED
    BY <2>2 DEF OnWire
<1>4. w' \subseteq w \ {x}
  <2> SUFFICES ASSUME NEW y \in w' PROVE y \in w /\ y # x
    OBVIOUS
  <2>1. PICK d \in Epochs : y \in {d} \X (1..inbox'[m][d])
    BY DEF OnWire, Epochs
  <2>2. inbox'[m][d] = IF d = e THEN inbox[m][d] - 1 ELSE inbox[m][d]
    BY <1>1
  <2>3. inbox[m][d] \in Nat /\ inbox[m][e] \in Nat
    BY <1>1
  <2>4. 1..inbox'[m][d] \subseteq 1..inbox[m][d]
    BY <2>2, <2>3
  <2>5. y \in w
    BY <2>1, <2>4 DEF OnWire
  <2>6. y # x
    BY <2>1, <2>2, <2>3
  <2> QED
    BY <2>5, <2>6
<1> HIDE DEF w, x
<1>5. IsFiniteSet(w \ {x}) /\ Cardinality(w \ {x}) = Cardinality(w) - 1
  BY <1>2, <1>3, FS_RemoveElement
<1>6. Cardinality(w') \in Nat /\ Cardinality(w') <= Cardinality(w \ {x})
  BY <1>4, <1>5, FS_Subset, FS_CardinalityType
<1>7. Cardinality(w') \in Nat /\ Cardinality(w') <= Cardinality(w) - 1
  BY <1>5, <1>6
<1> QED
  BY <1>7 DEF w

(* The positions at which a list of connections names event m.             *)
At(s, m) == {k \in DOMAIN s : s[k][1] = m}

(* A request that leaves the list of held ones is counted no longer.       *)
LEMMA HeldDropped ==
  ASSUME NEW s \in Seq(Links), NEW i \in 1..Len(s), NEW t \in Seq(Links),
         Len(t) = Len(s) - 1,
         \A k \in 1..Len(t) : t[k] = s[IF k < i THEN k ELSE k + 1],
         NEW m
  PROVE  Cardinality(At(t, m)) <= Cardinality(At(s, m)) - (IF s[i][1] = m THEN 1 ELSE 0)
<1> DEFINE a == {k \in DOMAIN s : s[k][1] = m}
           b == {k \in DOMAIN t : t[k][1] = m}
           f == [k \in b |-> IF k < i THEN k ELSE k + 1]
<1>1. DOMAIN s = 1..Len(s) /\ DOMAIN t = 1..Len(t) /\ Len(s) \in Nat /\ Len(t) \in Nat
  BY LenProperties
<1>2. IsFiniteSet(a) /\ Cardinality(a) \in Nat /\ IsFiniteSet(b) /\ Cardinality(b) \in Nat
  <2>1. a \in SUBSET (DOMAIN s) /\ b \in SUBSET (DOMAIN t)
    OBVIOUS
  <2> HIDE DEF a, b
  <2> QED
    BY <2>1, OccurrencesFinite
<1>3. ASSUME NEW k \in b PROVE f[k] \in a \ {i}
  <2>1. k \in 1..Len(t) /\ t[k][1] = m
    BY <1>1
  <2>2. f[k] \in 1..Len(s) /\ f[k] # i /\ s[f[k]] = t[k]
    BY <1>1, <2>1
  <2> QED
    BY <1>1, <2>1, <2>2
<1>4. ASSUME NEW j \in b, NEW k \in b, f[j] = f[k] PROVE j = k
  BY <1>1, <1>4
<1>5. f \in Injection(b, a \ {i})
  <2> DEFINE c == a \ {i}
  <2> HIDE DEF a, b, c
  <2>1. \A k \in b : f[k] \in c
    BY <1>3 DEF c
  <2>2. f \in [b -> c]
    BY <2>1
  <2> HIDE DEF f
  <2>3. f \in Injection(b, c)
    BY <1>4, <2>2 DEF Injection, IsInjective
  <2> QED
    BY <2>3 DEF c
<1>6. /\ IsFiniteSet(a \ {i})
      /\ Cardinality(a \ {i}) = IF i \in a THEN Cardinality(a) - 1 ELSE Cardinality(a)
  <2> HIDE DEF a
  <2> QED
    BY <1>2, FS_RemoveElement
<1>7. Cardinality(b) <= Cardinality(a \ {i})
  BY <1>5, <1>6, FS_Injection
<1>8. i \in a <=> s[i][1] = m
  BY <1>1
<1>9. At(s, m) = a /\ At(t, m) = b
  BY DEF At
<1> HIDE DEF a, b
<1> QED
  BY <1>2, <1>6, <1>7, <1>8, <1>9

(* What a step has to show of one event.                                   *)
Account(m) == Count(rows, m) + CopiesUnderWay(m) <= sent[m]

LEMMA AccountTypes ==
  ASSUME DeliveryTypes, NEW m \in Events
  PROVE  /\ Count(rows, m) \in Nat /\ Cardinality(OnWire(m)) \in Nat
         /\ Cardinality(Held(m)) \in Nat /\ sent[m] \in Nat
<1>1. rows \in Seq(Events) /\ ready \in Seq(Links) /\ sent[m] \in Nat
  BY DEF DeliveryTypes, TypeOK, TracerTypes, ServerTypes
<1>2. /\ {k \in DOMAIN rows : rows[k] = m} \in SUBSET (DOMAIN rows)
      /\ Held(m) \in SUBSET (DOMAIN ready)
  BY DEF Held
<1> QED
  BY <1>1, <1>2, OccurrencesFinite, OnWireFinite DEF Count

(* Steps that add no copy and take none for another.                       *)
LEMMA AccountKept ==
  ASSUME DeliveryTypes, NEW m \in Events, Account(m), rows' = rows,
         Cardinality(OnWire(m)') \in Nat,
         Cardinality(OnWire(m)') <= Cardinality(OnWire(m)),
         ready' = ready, BeingInserted(m)' => BeingInserted(m), sent' = sent
  PROVE  Account(m)'
<1>1. Held(m)' = Held(m) /\ Count(rows, m)' = Count(rows, m)
  BY DEF Held, Count
<1> QED
  BY <1>1, AccountTypes DEF Account, CopiesUnderWay

(* What moves from one place to the next is not one more.                  *)
Inserting(m) == IF BeingInserted(m) THEN 1 ELSE 0

LEMMA AccountMoved ==
  ASSUME NEW m, Account(m), sent'[m] = sent[m], sent[m] \in Nat,
         Count(rows, m) \in Nat, Cardinality(OnWire(m)) \in Nat, Cardinality(Held(m)) \in Nat,
         Count(rows, m)' = Count(rows, m),
         Cardinality(OnWire(m)') \in Nat, Cardinality(Held(m)') \in Nat,
         Cardinality(OnWire(m)') + Cardinality(Held(m)') + Inserting(m)'
           <= Cardinality(OnWire(m)) + Cardinality(Held(m)) + Inserting(m)
  PROVE  Account(m)'
<1>1. Inserting(m) \in 0..1 /\ Inserting(m)' \in 0..1
  BY DEF Inserting
<1>2. /\ Account(m) <=> Count(rows, m) + (Cardinality(OnWire(m)) + Cardinality(Held(m)) + Inserting(m)) <= sent[m]
      /\ Account(m)' <=> Count(rows, m)' + (Cardinality(OnWire(m)') + Cardinality(Held(m)') + Inserting(m)') <= sent'[m]
  BY DEF Account, CopiesUnderWay, Inserting
<1> DEFINE c == Count(rows, m) d == Count(rows, m)' w == Cardinality(OnWire(m)) x == Cardinality(OnWire(m)')
           h == Cardinality(Held(m)) k == Cardinality(Held(m)') i == Inserting(m) j == Inserting(m)'
           s == sent[m] t == sent'[m]
<1>3. /\ c + (w + h + i) <= s /\ x + k + j <= w + h + i /\ c = d /\ s = t
      /\ c \in Nat /\ w \in Nat /\ x \in Nat /\ h \in Nat /\ k \in Nat /\ s \in Nat
      /\ i \in 0..1 /\ j \in 0..1
  BY <1>1, <1>2
<1>4. d + (x + k + j) <= t
  <2> HIDE DEF c, d, w, x, h, k, i, j, s, t
  <2> QED
    BY <1>3
<1> QED
  BY <1>2, <1>4

(* A transmission counts for the copy it puts on the wire.                 *)
LEMMA AccountSent ==
  ASSUME DeliveryTypes, NEW n \in Events, Account(n), NEW m \in Events, NEW e,
         NEW alive, Transmit(m, e, alive), UNCHANGED <<ready, srv, cur, rows>>
  PROVE  Account(n)'
<1>1. sent \in [Events -> Nat]
  BY DEF DeliveryTypes, TypeOK, TracerTypes
<1>2. /\ sent' = [sent EXCEPT ![m] = @ + 1]
      /\ inbox' \in {inbox, [inbox EXCEPT ![m][e] = @ + 1]}
  BY DEF Transmit
<1>3. /\ Cardinality(OnWire(n)') \in Nat
      /\ Cardinality(OnWire(n)') <= Cardinality(OnWire(n)) + (IF n = m THEN 1 ELSE 0)
  BY <1>2, OnWireGrows
<1>4. Held(n)' = Held(n) /\ Count(rows, n)' = Count(rows, n) /\ BeingInserted(n)' = BeingInserted(n)
  BY DEF Held, Count, BeingInserted
<1>5. sent'[n] = sent[n] + (IF n = m THEN 1 ELSE 0)
  BY <1>1, <1>2
<1> QED
  BY <1>3, <1>4, <1>5, AccountTypes DEF Account, CopiesUnderWay

(* Every step keeps the account.                                           *)
LEMMA CopiesNext == DeliveryTypes /\ CopiesConserved /\ [Next]_vars => CopiesConserved'
<1> SUFFICES ASSUME DeliveryTypes, CopiesConserved, [Next]_vars, NEW n \in Events
             PROVE  Account(n)'
  BY DEF CopiesConserved, Account
<1>0. /\ Account(n) /\ DeliveryTypes'
      /\ inbox \in [Events -> [Epochs -> Nat]] /\ ready \in Seq(Links) /\ rows \in Seq(Events)
      /\ Cardinality(OnWire(n)) \in Nat /\ Cardinality(Held(n)) \in Nat
      /\ Count(rows, n) \in Nat /\ sent[n] \in Nat
  BY DeliveryTypesNext, AccountTypes
     DEF CopiesConserved, Account, DeliveryTypes, TypeOK, WireTypes, ServerTypes
<1>1. ASSUME UNCHANGED <<sent, ready, rows>>, srv' = "insert" => UNCHANGED <<srv, cur>>,
             inbox' = inbox
      PROVE  Account(n)'
  <2>1. OnWire(n)' = OnWire(n)
    BY <1>1 DEF OnWire, Epochs
  <2> QED
    BY <1>0, <1>1, <2>1, AccountKept DEF BeingInserted
<1>2. ASSUME NEW m \in Events, Send(m) \/ Reconnect(m) \/ Resend(m)
      PROVE  Account(n)'
  <2>1. UNCHANGED <<ready, srv, cur, rows>>
    BY <1>2 DEF Send, Reconnect, Resend, serverVars
  <2>2. \/ \E e, alive : Transmit(m, e, alive)
        \/ UNCHANGED <<sent, inbox>>
    BY <1>2 DEF Send, Reconnect, Resend
  <2>3. CASE UNCHANGED <<sent, inbox>>
    BY <1>1, <2>1, <2>3
  <2>4. ASSUME NEW e, NEW alive, Transmit(m, e, alive) PROVE Account(n)'
    BY <1>0, <2>1, <2>4, AccountSent
  <2> QED
    BY <2>2, <2>3, <2>4
<1>3. ASSUME NEW m \in Events, NEW e \in Epochs, HoldRequest(m, e) PROVE Account(n)'
  <2>1. /\ inbox[m][e] > 0 /\ inbox' = [inbox EXCEPT ![m][e] = @ - 1]
        /\ ready' = Append(ready, <<m, e>>) /\ <<m, e>> \in Links
        /\ UNCHANGED <<sent, srv, cur, rows>>
    BY <1>3 DEF HoldRequest, tracerVars, Links
  <2>2. /\ Len(ready) \in Nat /\ DOMAIN ready = 1..Len(ready)
        /\ DOMAIN ready' = 1..(Len(ready) + 1)
        /\ \A k \in 1..Len(ready) : ready'[k] = ready[k]
        /\ ready'[Len(ready) + 1] = <<m, e>>
    <3> DEFINE l == <<m, e>>
    <3> HIDE DEF l
    <3>1. l \in Links /\ ready' = Append(ready, l)
      BY <2>1 DEF l
    <3>2. /\ ready' \in Seq(Links) /\ Len(ready') = Len(ready) + 1
          /\ \A k \in 1..Len(ready) : ready'[k] = ready[k]
          /\ ready'[Len(ready) + 1] = l
      BY <1>0, <3>1, AppendProperties
    <3>3. ready'[Len(ready) + 1] = <<m, e>>
      BY <3>2 DEF l
    <3> QED
      BY <1>0, <3>2, <3>3, LenProperties
  <2>3. Held(n)' = IF n = m THEN Held(n) \cup {Len(ready) + 1} ELSE Held(n)
    BY <2>2 DEF Held
  <2>4. IsFiniteSet(Held(n)) /\ Len(ready) + 1 \notin Held(n)
    <3>1. Held(n) \in SUBSET (DOMAIN ready)
      BY DEF Held
    <3> QED
      BY <1>0, <2>2, <3>1, OccurrencesFinite
  <2>5. Cardinality(Held(n)') = Cardinality(Held(n)) + (IF n = m THEN 1 ELSE 0)
    <3> DEFINE h == Held(n)
    <3>1. IsFiniteSet(h) /\ Len(ready) + 1 \notin h /\ Cardinality(h) \in Nat
      BY <1>0, <2>4
    <3> HIDE DEF h
    <3>2. Cardinality(h \cup {Len(ready) + 1}) = Cardinality(h) + 1
      BY <3>1, FS_AddElement
    <3>3. Held(n)' = IF n = m THEN h \cup {Len(ready) + 1} ELSE h
      BY <2>3 DEF h
    <3>4. Cardinality(Held(n)') = Cardinality(h) + (IF n = m THEN 1 ELSE 0)
      BY <3>1, <3>2, <3>3
    <3> QED
      BY <3>4 DEF h
  <2>6. /\ Cardinality(OnWire(n)') \in Nat
        /\ Cardinality(OnWire(n)') <= Cardinality(OnWire(n)) - (IF n = m THEN 1 ELSE 0)
    <3>1. CASE n = m
      BY <1>0, <2>1, <3>1, OnWireTaken
    <3>2. CASE n # m
      <4>1. inbox'[n] = inbox[n]
        BY <1>0, <2>1, <3>2
      <4>2. OnWire(n)' = OnWire(n)
        BY <4>1 DEF OnWire, Epochs
      <4> QED
        BY <1>0, <3>2, <4>2
    <3> QED
      BY <3>1, <3>2
  <2>7. Count(rows, n)' = Count(rows, n) /\ BeingInserted(n)' = BeingInserted(n)
    BY <2>1 DEF Count, BeingInserted
  <2>8. /\ Cardinality(Held(n)') \in Nat
        /\ Cardinality(OnWire(n)') + Cardinality(Held(n)') <=
             Cardinality(OnWire(n)) + Cardinality(Held(n))
    BY <1>0, <2>5, <2>6
  <2>9. sent'[n] = sent[n]
    BY <2>1
  <2>10. Inserting(n)' = Inserting(n) /\ Inserting(n) \in 0..1
    BY <2>7 DEF Inserting
  <2>11. Cardinality(OnWire(n)') + Cardinality(Held(n)') + Inserting(n)'
           <= Cardinality(OnWire(n)) + Cardinality(Held(n)) + Inserting(n)
    BY <1>0, <2>6, <2>8, <2>10
  <2> QED
    BY <1>0, <2>6, <2>7, <2>8, <2>9, <2>11, AccountMoved
<1>4. ASSUME NEW m \in Events, NEW e \in Epochs, NoticeHangUp(m, e) PROVE Account(n)'
  <2>1. /\ inbox' = [inbox EXCEPT ![m][e] = 0] /\ UNCHANGED <<sent, srv, cur, rows>>
        /\ ready' = ready \/ \E k \in DOMAIN ready : ready' = RemoveAt(ready, k)
    BY <1>4 DEF NoticeHangUp, tracerVars
  <2>2. \A d \in Epochs : inbox'[n][d] \in 0..inbox[n][d]
    BY <1>0, <2>1
  <2>3. /\ Cardinality(OnWire(n)') \in Nat
        /\ Cardinality(OnWire(n)') <= Cardinality(OnWire(n))
    BY <2>2, OnWireShrinks
  <2>4. Cardinality(Held(n)') <= Cardinality(Held(n))
    <3>1. CASE ready' = ready
      BY <1>0, <3>1 DEF Held
    <3>2. ASSUME NEW k \in DOMAIN ready, ready' = RemoveAt(ready, k)
          PROVE  Cardinality(Held(n)') <= Cardinality(Held(n))
      <4>1. k \in 1..Len(ready)
        BY <1>0, LenProperties
      <4>2. /\ ready' \in Seq(Links) /\ Len(ready') = Len(ready) - 1
            /\ \A j \in 1..Len(ready') : ready'[j] = ready[IF j < k THEN j ELSE j + 1]
        BY <1>0, <3>2, RemoveAtFacts
      <4>3. Cardinality(At(ready', n)) <=
              Cardinality(At(ready, n)) - (IF ready[k][1] = n THEN 1 ELSE 0)
        BY <1>0, <4>1, <4>2, HeldDropped
      <4>4. Cardinality(Held(n)') <= Cardinality(Held(n)) - (IF ready[k][1] = n THEN 1 ELSE 0)
        BY <4>3 DEF Held, At
      <4>5. Cardinality(Held(n)') \in Nat
        <5>1. Held(n)' \in SUBSET (DOMAIN ready')
          BY DEF Held
        <5> QED
          BY <4>2, <5>1, OccurrencesFinite
      <4> QED
        BY <1>0, <4>4, <4>5
    <3> QED
      BY <2>1, <3>1, <3>2
  <2>5. Count(rows, n)' = Count(rows, n) /\ BeingInserted(n)' = BeingInserted(n)
    BY <2>1 DEF Count, BeingInserted
  <2>6. Cardinality(Held(n)') \in Nat
    BY <1>0, OccurrencesFinite DEF Held, DeliveryTypes, TypeOK, ServerTypes
  <2>7. Inserting(n)' = Inserting(n) /\ Inserting(n) \in 0..1 /\ sent'[n] = sent[n]
    BY <2>1, <2>5 DEF Inserting
  <2>8. Cardinality(OnWire(n)') + Cardinality(Held(n)') + Inserting(n)'
          <= Cardinality(OnWire(n)) + Cardinality(Held(n)) + Inserting(n)
    BY <1>0, <2>3, <2>4, <2>6, <2>7
  <2> QED
    BY <1>0, <2>3, <2>5, <2>6, <2>7, <2>8, AccountMoved
<1>5. CASE TakeRequest
  <2>1. /\ srv = "recv" /\ ready # <<>> /\ cur' = Head(ready) /\ ready' = Tail(ready)
        /\ srv' = "insert" /\ UNCHANGED <<sent, inbox, rows>>
    BY <1>5 DEF TakeRequest, tracerVars, wireVars
  <2>2. /\ Len(ready) \in Nat \ {0} /\ Head(ready) = ready[1]
        /\ ready' \in Seq(Links) /\ Len(ready') = Len(ready) - 1
        /\ \A k \in 1..Len(ready') : ready'[k] = ready[k + 1]
    BY <1>0, <2>1, EmptySeq, LenProperties, HeadTailProperties
  <2>3. /\ 1 \in 1..Len(ready)
        /\ \A k \in 1..Len(ready') : ready'[k] = ready[IF k < 1 THEN k ELSE k + 1]
    BY <2>2
  <2>4. Cardinality(At(ready', n)) <=
          Cardinality(At(ready, n)) - (IF ready[1][1] = n THEN 1 ELSE 0)
    BY <1>0, <2>2, <2>3, HeldDropped
  <2>5. Cardinality(Held(n)') <= Cardinality(Held(n)) - (IF BeingInserted(n)' THEN 1 ELSE 0)
    BY <2>1, <2>2, <2>4 DEF Held, At, BeingInserted
  <2>6. ~BeingInserted(n) /\ OnWire(n)' = OnWire(n) /\ Count(rows, n)' = Count(rows, n)
    BY <2>1 DEF BeingInserted, OnWire, Epochs, Count
  <2>7. Cardinality(Held(n)') \in Nat
    BY <2>2, OccurrencesFinite DEF Held
  <2>8. Inserting(n) = 0 /\ Inserting(n)' \in 0..1 /\ sent'[n] = sent[n]
        /\ Cardinality(Held(n)') <= Cardinality(Held(n)) - Inserting(n)'
    BY <2>1, <2>5, <2>6 DEF Inserting
  <2>9. Cardinality(OnWire(n)') + Cardinality(Held(n)') + Inserting(n)'
          <= Cardinality(OnWire(n)) + Cardinality(Held(n)) + Inserting(n)
    BY <1>0, <2>6, <2>7, <2>8
  <2>10. Cardinality(OnWire(n)') \in Nat
    BY <1>0, <2>6
  <2> QED
    BY <1>0, <2>6, <2>7, <2>8, <2>9, <2>10, AccountMoved
<1>6. CASE Storing
  <2>1. /\ srv = "insert" /\ rows' = Append(rows, cur[1]) /\ srv' = "reply"
        /\ UNCHANGED <<sent, inbox, ready>>
    BY <1>6 DEF Storing, InsertRow, InsertAnswerLost, InsertReturns, tracerVars, wireVars
  <2>2. cur[1] \in Events
    BY <2>1 DEF DeliveryTypes, WorkedOn, Links
  <2>3. /\ Len(rows) \in Nat /\ DOMAIN rows = 1..Len(rows)
        /\ DOMAIN rows' = 1..(Len(rows) + 1)
        /\ \A k \in 1..Len(rows) : rows'[k] = rows[k]
        /\ rows'[Len(rows) + 1] = cur[1]
    BY <1>0, <2>1, <2>2, AppendProperties, LenProperties
  <2> DEFINE c == {k \in DOMAIN rows : rows[k] = n}
  <2>4. c' = IF cur[1] = n THEN c \cup {Len(rows) + 1} ELSE c
    BY <2>3
  <2>5. IsFiniteSet(c) /\ Len(rows) + 1 \notin c
    <3>1. c \in SUBSET (DOMAIN rows) /\ Len(rows) + 1 \notin c
      BY <2>3
    <3> HIDE DEF c
    <3> QED
      BY <1>0, <3>1, OccurrencesFinite
  <2>6. Cardinality(c') = Cardinality(c) + (IF cur[1] = n THEN 1 ELSE 0)
    <3>1. Cardinality(c) \in Nat
      BY <2>5, FS_CardinalityType
    <3> DEFINE d == c'
    <3>2. d = IF cur[1] = n THEN c \cup {Len(rows) + 1} ELSE c
      BY <2>4
    <3> HIDE DEF c, d
    <3>3. Cardinality(c \cup {Len(rows) + 1}) = Cardinality(c) + 1
      BY <2>5, <3>1, FS_AddElement
    <3>4. Cardinality(d) = Cardinality(c) + (IF cur[1] = n THEN 1 ELSE 0)
      BY <3>1, <3>2, <3>3
    <3> QED
      BY <3>4 DEF d
  <2>7. Count(rows, n)' = Count(rows, n) + (IF BeingInserted(n) THEN 1 ELSE 0)
    BY <2>1, <2>6 DEF Count, BeingInserted
  <2>8. ~BeingInserted(n)' /\ OnWire(n)' = OnWire(n) /\ Held(n)' = Held(n)
    BY <2>1 DEF BeingInserted, OnWire, Epochs, Held
  <2> QED
    BY <1>0, <2>1, <2>7, <2>8 DEF Account, CopiesUnderWay
<1>7. CASE ServerCrash
  <2>1. /\ ready' = <<>> /\ srv' = "down" /\ UNCHANGED <<sent, rows>>
        /\ inbox' = [m \in Events |-> [e \in Epochs |-> 0]]
    BY <1>7 DEF ServerCrash, tracerVars
  <2>2. \A d \in Epochs : inbox'[n][d] \in 0..inbox[n][d]
    BY <1>0, <2>1
  <2>3. /\ Cardinality(OnWire(n)') \in Nat
        /\ Cardinality(OnWire(n)') <= Cardinality(OnWire(n))
    BY <2>2, OnWireShrinks
  <2>4. Held(n)' = {} /\ ~BeingInserted(n)' /\ Count(rows, n)' = Count(rows, n)
    BY <2>1 DEF Held, BeingInserted, Count
  <2>5. Cardinality({}) = 0
    BY FS_EmptySet
  <2> QED
    BY <1>0, <2>1, <2>3, <2>4, <2>5 DEF Account, CopiesUnderWay
<1>8. CASE Next
  <2>1. ASSUME NEW t \in Tracers, NEW m \in Events, Receive(t, m) \/ Finish(t, m)
        PROVE  Account(n)'
    BY <1>1, <2>1 DEF Receive, Finish, wireVars, serverVars
  <2>2. ASSUME NEW m \in Events, Dial(m) \/ DialFails(m) \/ ConnectionLost(m)
        PROVE  Account(n)'
    BY <1>1, <2>2 DEF Dial, DialFails, ConnectionLost, wireVars, serverVars
  <2>3. CASE \E t \in Tracers : TracerCrash(t)
    BY <1>1, <2>3 DEF TracerCrash, serverVars
  <2>4. CASE ServerStart \/ InsertRefused \/ Reply \/ DbStop \/ DbStart
    BY <1>1, <2>4 DEF ServerStart, InsertRefused, InsertReturns, Reply, DbStop, DbStart,
                      tracerVars, wireVars, serverVars
  <2> QED
    BY <1>2, <1>3, <1>4, <1>5, <1>6, <1>7, <1>8, <2>1, <2>2, <2>3, <2>4 DEF Next, NextNoRow
<1>9. CASE UNCHANGED vars
  BY <1>1, <1>9 DEF vars, tracerVars, wireVars, serverVars
<1> QED
  BY <1>8, <1>9

(* An event has no more rows than its request was sent; the copies on the  *)
(* wire, in rep0 and with main() count against that too, so that no order  *)
(* of resends, crashes and lost connections makes a row out of nothing.    *)
THEOREM RowsCostTransmissions == Spec => []CopiesConserved
<1>1. Init => DeliveryTypes /\ CopiesConserved
  <2> SUFFICES ASSUME Init, NEW m \in Events PROVE Account(m)
    BY DeliveryInit DEF CopiesConserved, Account
  <2>1. /\ rows = <<>> /\ ready = <<>> /\ srv = "down" /\ sent[m] = 0
        /\ \A e \in Epochs : 1..inbox[m][e] = {}
    BY DEF Init
  <2>2. OnWire(m) = {} /\ Held(m) = {} /\ ~BeingInserted(m)
        /\ {k \in DOMAIN rows : rows[k] = m} = {}
    BY <2>1 DEF OnWire, Held, BeingInserted
  <2>3. Cardinality({}) = 0
    BY FS_EmptySet
  <2> QED
    BY <2>1, <2>2, <2>3 DEF Account, CopiesUnderWay, Count
<1>2. DeliveryTypes /\ CopiesConserved /\ [Next]_vars => DeliveryTypes' /\ CopiesConserved'
  BY DeliveryTypesNext, CopiesNext
<1> QED
  BY <1>1, <1>2, PTL DEF Spec

=============================================================================
