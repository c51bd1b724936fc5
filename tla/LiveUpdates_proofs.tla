--------------------------- MODULE LiveUpdates_proofs ---------------------------
(***************************************************************************)
(* The hub keeps its limits, and a broadcast misses no subscriber, for any *)
(* zones, sockets, addresses and limits.                                   *)
(***************************************************************************)
EXTENDS LiveUpdates, FiniteSetTheorems, TLAPS

\* What the listener holds.
NotifyOK ==
    /\ version \in [Zone -> Version]
    /\ cached \in [Zone -> Version \cup {NotCached}]
    /\ task \in [Zone -> [pc : {"none", "due", "refreshing", "refreshed"}, from : Version,
                          found : {"nothing", "changes", "error"}]]
    /\ pending \subseteq Zone /\ \A z \in pending : task[z].pc # "none"

\* What the hub holds.
HubOK ==
    /\ byZone \in [Zone -> SUBSET Socket] /\ all \subseteq Socket
    /\ ips = Subscribers
    /\ Cardinality(Subscribers) <= MaxConnections
    /\ \A s \in ips : Cardinality({t \in ips : IpOf[t] = IpOf[s]}) <= MaxPerIp
    /\ \A s \in Subscribers : sock[s] # "new"

SocketOK == sock \in [Socket -> {"new", "listening", "gone", "closed", "leaked"}]

\* The sockets a broadcast c is due to are still among those it will take, or did take; and
\* those it takes off are no subscribers any more.  (By zone, for all zones, where the
\* sockets are and which were slow.)
CastFits(c, zones, every, at, late) ==
    /\ \A s \in c.due \cup c.dead : at[s] # "new"
    /\ \A s \in c.dead : at[s] = "listening" => s \in late
    /\ \A s \in c.due : at[s] = "listening" /\ s \notin late =>
          /\ (c.pc = "scheduled" => s \in zones[c.zone] \cup every)
          /\ (c.pc = "sending" => s \in c.left \cup c.got)

CastsOK ==
    /\ casts \in Seq(Cast)
    /\ \A i \in 1 .. Len(casts) : CastFits(casts[i], byZone, all, sock, slow)

IInv == NotifyOK /\ HubOK /\ SocketOK /\ CastsOK
--------------------------------------------------------------------------------
(* Sequences of broadcasts *)

LEMMA Appended ==
    ASSUME NEW S, NEW s \in Seq(S), NEW x \in S
    PROVE  /\ Append(s, x) \in Seq(S)
           /\ \A i \in 1 .. Len(Append(s, x)) :
                 (i \in 1 .. Len(s) /\ Append(s, x)[i] = s[i]) \/ Append(s, x)[i] = x
OBVIOUS

LEMMA Joined ==
    ASSUME NEW S, NEW a \in Seq(S), NEW b \in Seq(S)
    PROVE  /\ a \o b \in Seq(S) /\ Len(a \o b) = Len(a) + Len(b)
           /\ \A j \in 1 .. Len(a) : (a \o b)[j] = a[j]
           /\ \A j \in 1 .. Len(b) : (a \o b)[Len(a) + j] = b[j]
OBVIOUS

\* What is left of a sequence without one element.
LEMMA Removed ==
    ASSUME NEW S, NEW s \in Seq(S), NEW i \in 1 .. Len(s)
    PROVE  /\ RemoveAt(s, i) \in Seq(S)
           /\ \A j \in 1 .. Len(RemoveAt(s, i)) :
                 \E k \in 1 .. Len(s) : RemoveAt(s, i)[j] = s[k]
<1> DEFINE a == SubSeq(s, 1, i - 1)
           b == SubSeq(s, i + 1, Len(s))
<1>1. /\ a \in Seq(S) /\ b \in Seq(S) /\ Len(a) = i - 1 /\ Len(b) = Len(s) - i
      /\ \A j \in 1 .. Len(a) : a[j] = s[j]
      /\ \A j \in 1 .. Len(b) : b[j] = s[i + j]
  OBVIOUS
<1>2. RemoveAt(s, i) = a \o b
  BY DEF RemoveAt
<1> HIDE DEF a, b
<1>3. /\ a \o b \in Seq(S) /\ Len(a \o b) = Len(a) + Len(b)
      /\ \A j \in 1 .. Len(a) : (a \o b)[j] = a[j]
      /\ \A j \in 1 .. Len(b) : (a \o b)[Len(a) + j] = b[j]
  <2>1. a \in Seq(S) /\ b \in Seq(S)
    BY <1>1
  <2> QED BY <2>1, Joined
<1>4. ASSUME NEW j \in 1 .. Len(a \o b) PROVE \E k \in 1 .. Len(s) : (a \o b)[j] = s[k]
  <2>1. CASE j \in 1 .. Len(a)
    BY <1>1, <1>3, <2>1
  <2>2. CASE j \notin 1 .. Len(a)
    <3>1. j - Len(a) \in 1 .. Len(b) /\ j = Len(a) + (j - Len(a))
      BY <1>1, <1>3, <2>2
    <3>2. (a \o b)[j] = b[j - Len(a)]
      BY <1>3, <3>1
    <3>3. b[j - Len(a)] = s[i + (j - Len(a))]
      BY <1>1, <3>1
    <3>4. i + (j - Len(a)) \in 1 .. Len(s)
      BY <1>1, <3>1
    <3> QED BY <3>2, <3>3, <3>4
  <2> QED BY <2>1, <2>2
<1> QED BY <1>2, <1>3, <1>4
--------------------------------------------------------------------------------
LEMMA InitIInv == Init => IInv
<1> SUFFICES ASSUME Init PROVE IInv
  OBVIOUS
<1> USE DEF Init
<1>1. MaxVersion \in Nat /\ 0 \in Version /\ MaxConnections \in Nat
  BY LiveAssumption DEF Version
<1>2. NotifyOK
  BY <1>1 DEF NotifyOK
<1>3. Subscribers = {}
  BY DEF Subscribers
<1>4. HubOK
  BY <1>1, <1>3, FS_EmptySet DEF HubOK
<1>5. SocketOK /\ CastsOK
  BY DEF SocketOK, CastsOK
<1> QED BY <1>2, <1>4, <1>5 DEF IInv

LEMMA SameHub ==
    ASSUME IInv, UNCHANGED <<hubVars, sock>>
    PROVE  HubOK' /\ SocketOK'
BY DEF IInv, HubOK, SocketOK, hubVars, Subscribers

\* A new broadcast is due to the subscribers there are.
LEMMA ScheduledStep ==
    ASSUME IInv, NEW z \in Zone, NEW v \in Version,
           casts' = Scheduled(z, v), UNCHANGED <<hubVars, sock, slow>>
    PROVE  CastsOK'
<1> DEFINE c == [zone |-> z, version |-> v, pc |-> "scheduled", due |-> byZone[z] \cup all,
                 left |-> {}, dead |-> {}, got |-> {}]
<1>1. c \in Cast
  BY DEF Cast, IInv, HubOK
<1>2. CastFits(c, byZone, all, sock, slow)
  <2>1. /\ c.zone = z /\ c.due = byZone[z] \cup all /\ c.dead = {} /\ c.pc = "scheduled"
        /\ c.due \subseteq Subscribers
    BY DEF Subscribers
  <2> QED BY <2>1 DEF IInv, HubOK, CastFits
<1>3. casts' = Append(casts, c)
  BY DEF Scheduled
<1> HIDE DEF c
<1>4. /\ casts' \in Seq(Cast)
      /\ \A i \in 1 .. Len(casts') : (\E k \in 1 .. Len(casts) : casts'[i] = casts[k]) \/ casts'[i] = c
  BY <1>1, <1>3, Appended DEF IInv, CastsOK
<1>5. \A i \in 1 .. Len(casts') : CastFits(casts'[i], byZone, all, sock, slow)
  BY <1>2, <1>4 DEF IInv, CastsOK
<1> QED BY <1>4, <1>5 DEF CastsOK, hubVars
--------------------------------------------------------------------------------
(* The listener *)

LEMMA AgainStep ==
    ASSUME IInv, NEW z \in Zone, Again(z), UNCHANGED <<version, cached>>
    PROVE  NotifyOK'
BY DEF IInv, NotifyOK, Again

LEMMA SameCasts ==
    ASSUME IInv, UNCHANGED <<casts, hubVars, sock, slow>>
    PROVE  CastsOK'
BY DEF IInv, CastsOK, hubVars

\* What the listener holds of a zone.
Callback == [pc : {"none", "due", "refreshing", "refreshed"}, from : Version,
             found : {"nothing", "changes", "error"}]

\* The callback of one zone goes on.
LEMMA OneCallback ==
    ASSUME IInv, NEW z \in Zone, NEW t \in Callback, t.pc # "none",
           task' = [task EXCEPT ![z] = t], cached' \in [Zone -> Version \cup {NotCached}],
           UNCHANGED <<pending, version>>
    PROVE  NotifyOK'
<1>1. task \in [Zone -> Callback]
  BY DEF IInv, NotifyOK, Callback
<1>2. task' \in [Zone -> Callback] /\ task'[z] = t /\ \A y \in Zone \ {z} : task'[y] = task[y]
  BY <1>1
<1> QED BY <1>2 DEF IInv, NotifyOK, Callback

LEMMA ListenerStep ==
    ASSUME IInv, NEW z \in Zone,
           \/ Change(z) \/ Write(z) \/ Silent(z) \/ Notify(z)
           \/ StartCallback(z) \/ Refresh(z) \/ RefreshFails(z) \/ EndCallback(z)
    PROVE  IInv'
<1>1. UNCHANGED <<hubVars, sock, slow>>
  BY DEF Change, Write, Silent, Notify, StartCallback, Refresh, RefreshFails, EndCallback
<1>2. /\ version[z] \in Version /\ cached[z] \in Version \cup {NotCached} /\ MaxVersion \in Nat
      /\ 0 \in Version /\ task[z].from \in Version /\ task[z].found \in {"nothing", "changes", "error"}
  BY LiveAssumption DEF IInv, NotifyOK, Version
<1>12. task \in [Zone -> Callback]
  BY DEF IInv, NotifyOK, Callback
<1>3. HubOK' /\ SocketOK'
  BY <1>1, SameHub
<1>4. CASE Change(z)
  <2>1. NotifyOK'
    BY <1>2, <1>4 DEF Change, notifyVars, IInv, NotifyOK, Version
  <2> QED BY <1>1, <1>3, <1>4, <2>1, SameCasts DEF Change, IInv
<1>5. CASE Write(z)
  <2>1. NotifyOK'
    BY <1>2, <1>5 DEF Write, notifyVars, IInv, NotifyOK, Version
  <2> QED BY <1>1, <1>2, <1>3, <1>5, <2>1, ScheduledStep DEF Write, IInv
<1>6. CASE Silent(z)
  <2>1. NotifyOK'
    BY <1>2, <1>6 DEF Silent, IInv, NotifyOK
  <2> QED BY <1>1, <1>3, <1>6, <2>1, SameCasts DEF Silent, IInv
<1>7. CASE Notify(z)
  <2>1. NotifyOK'
    <3>1. CASE task[z].pc # "none"
      BY <1>7, <3>1 DEF Notify, ScheduleCallback, IInv, NotifyOK
    <3>2. CASE task[z].pc = "none"
      <4> DEFINE t == [task[z] EXCEPT !.pc = "due"]
      <4>1. t \in Callback /\ t.pc = "due"
        BY <1>12 DEF Callback
      <4>2. task' = [task EXCEPT ![z] = t] /\ UNCHANGED <<pending, version, cached>>
        BY <1>7, <1>12, <3>2 DEF Notify, ScheduleCallback
      <4> QED BY <4>1, <4>2, OneCallback DEF IInv, NotifyOK
    <3> QED BY <3>1, <3>2
  <2> QED BY <1>1, <1>3, <1>7, <2>1, SameCasts DEF Notify, IInv
<1>8. CASE StartCallback(z)
  <2>1. NotifyOK'
    <3>1. CASE cached[z] = NotCached
      BY <1>8, <3>1, AgainStep DEF StartCallback
    <3>2. CASE cached[z] # NotCached
      <4>1. /\ task' = [task EXCEPT ![z].pc = "refreshing", ![z].from = version[z]]
            /\ UNCHANGED <<pending, version, cached>>
        BY <1>8, <3>2 DEF StartCallback
      <4> DEFINE t == [task[z] EXCEPT !.pc = "refreshing", !.from = version[z]]
      <4>2. t \in Callback /\ t.pc = "refreshing"
        BY <1>2, <1>12 DEF Callback
      <4>3. task' = [task EXCEPT ![z] = t] /\ UNCHANGED <<pending, version, cached>>
        BY <4>1, <1>12
      <4> QED BY <4>2, <4>3, OneCallback DEF IInv, NotifyOK
    <3> QED BY <3>1, <3>2
  <2> QED BY <1>1, <1>3, <1>8, <2>1, SameCasts DEF StartCallback, IInv
<1>9. CASE Refresh(z)
  <2> DEFINE t == [task[z] EXCEPT !.pc = "refreshed", !.from = version[z],
                       !.found = IF cached[z] = version[z] THEN "nothing" ELSE "changes"]
  <2>2. t \in Callback /\ t.pc = "refreshed"
    BY <1>2, <1>12 DEF Callback
  <2>3. task' = [task EXCEPT ![z] = t] /\ UNCHANGED <<pending, version>>
    BY <1>9, <1>12 DEF Refresh, Callback
  <2>4. cached' \in [Zone -> Version \cup {NotCached}]
    BY <1>2, <1>9 DEF Refresh, IInv, NotifyOK
  <2>1. NotifyOK'
    BY <2>2, <2>3, <2>4, OneCallback
  <2> QED BY <1>1, <1>3, <1>9, <2>1, SameCasts DEF Refresh, IInv
<1>10. CASE RefreshFails(z)
  <2> DEFINE t == [task[z] EXCEPT !.pc = "refreshed", !.found = "error"]
  <2>2. t \in Callback /\ t.pc = "refreshed"
    BY <1>2, <1>12 DEF Callback
  <2>3. task' = [task EXCEPT ![z] = t] /\ UNCHANGED <<pending, version, cached>>
    BY <1>10, <1>12 DEF RefreshFails
  <2>1. NotifyOK'
    BY <2>2, <2>3, OneCallback DEF IInv, NotifyOK
  <2> QED BY <1>1, <1>3, <1>10, <2>1, SameCasts DEF RefreshFails, IInv
<1>11. CASE EndCallback(z)
  <2>1. NotifyOK'
    BY <1>11, AgainStep DEF EndCallback
  <2>2. CastsOK'
    BY <1>1, <1>2, <1>11, SameCasts, ScheduledStep DEF EndCallback
  <2> QED BY <1>3, <2>1, <2>2 DEF IInv
<1> QED BY <1>4, <1>5, <1>6, <1>7, <1>8, <1>9, <1>10, <1>11
--------------------------------------------------------------------------------
(* The hub *)

LEMMA SameNotify ==
    ASSUME IInv, UNCHANGED <<version, notifyVars>>
    PROVE  NotifyOK'
BY DEF IInv, NotifyOK, notifyVars

\* There are no more sockets than there are.
LEMMA Finite ==
    ASSUME NEW S \in SUBSET Socket
    PROVE  IsFiniteSet(S) /\ Cardinality(S) \in Nat
BY LiveAssumption, FS_Subset, FS_CardinalityType

LEMMA SubscribeStep ==
    ASSUME IInv, NEW s \in Socket, Subscribe(s)
    PROVE  IInv'
<1>1. /\ sock[s] = "new" /\ MaySubscribe(s)
      /\ byZone' = [z \in Zone |-> byZone[z] \cup {t \in {s} : Wants[t] = z}]
      /\ all' = all \cup {t \in {s} : Wants[t] = All}
      /\ ips' = ips \cup {s} /\ sock' = [sock EXCEPT ![s] = "listening"]
      /\ UNCHANGED <<version, notifyVars, casts, slow>>
  BY DEF Subscribe
<1>2. /\ byZone \in [Zone -> SUBSET Socket] /\ all \subseteq Socket /\ ips = Subscribers
      /\ Subscribers \subseteq Socket
  BY DEF IInv, HubOK, Subscribers
<1>3. Subscribers' = Subscribers \cup {s}
  <2>1. Wants[s] \in Zone \cup {All}
    BY LiveAssumption
  <2> QED BY <1>1, <1>2, <2>1 DEF Subscribers
<1>4. sock'[s] = "listening" /\ \A t \in Socket \ {s} : sock'[t] = sock[t]
  BY <1>1 DEF IInv, SocketOK
<1>5. HubOK'
  <2>1. byZone' \in [Zone -> SUBSET Socket] /\ all' \subseteq Socket
    BY <1>1, <1>2
  <2>2. \A S \in SUBSET Socket : Cardinality(S \cup {s}) <= Cardinality(S) + 1
    <3> TAKE S \in SUBSET Socket
    <3> QED BY Finite, FS_AddElement
  <2>3. Cardinality(Subscribers') <= MaxConnections
    <3>1. Cardinality(Subscribers) \in Nat /\ Cardinality(Subscribers') \in Nat
      BY <1>2, <1>3, Finite
    <3> QED BY <1>1, <1>2, <1>3, <2>2, <3>1, LiveAssumption DEF MaySubscribe
  <2>4. ASSUME NEW r \in ips'
        PROVE  Cardinality({t \in ips' : IpOf[t] = IpOf[r]}) <= MaxPerIp
    <3> DEFINE near == {t \in ips : IpOf[t] = IpOf[r]}
    <3>1. CASE IpOf[r] = IpOf[s]
      <4>1. {t \in ips' : IpOf[t] = IpOf[r]} = near \cup {s}
        BY <1>1, <3>1
      <4>2. /\ Cardinality(near) < MaxPerIp /\ near \in SUBSET Socket /\ Cardinality(near) \in Nat
            /\ Cardinality(near \cup {s}) \in Nat
        <5>1. near = {t \in ips : IpOf[t] = IpOf[s]}
          BY <3>1
        <5> QED BY <1>1, <1>2, <5>1, Finite DEF MaySubscribe
      <4> QED BY <2>2, <4>1, <4>2, LiveAssumption
    <3>2. CASE IpOf[r] # IpOf[s]
      <4>1. {t \in ips' : IpOf[t] = IpOf[r]} = near /\ r \in ips
        BY <1>1, <3>2
      <4> QED BY <4>1 DEF IInv, HubOK
    <3> QED BY <3>1, <3>2
  <2>5. \A t \in Subscribers' : sock'[t] # "new"
    BY <1>2, <1>3, <1>4 DEF IInv, HubOK
  <2>6. ips' = Subscribers'
    BY <1>1, <1>2, <1>3
  <2> QED BY <2>1, <2>3, <2>4, <2>5, <2>6 DEF HubOK
<1>6. CastsOK'
  <2>1. ASSUME NEW c \in Cast, CastFits(c, byZone, all, sock, slow)
        PROVE  CastFits(c, byZone', all', sock', slow')
    <3>1. s \notin c.due \cup c.dead /\ c.due \subseteq Socket /\ c.dead \subseteq Socket
      BY <1>1, <2>1 DEF CastFits, Cast
    <3>2. \A t \in c.due \cup c.dead : sock'[t] = sock[t]
      BY <1>4, <3>1
    <3>3. byZone[c.zone] \subseteq byZone'[c.zone] /\ all \subseteq all'
      BY <1>1 DEF Cast
    <3> QED BY <1>1, <2>1, <3>1, <3>2, <3>3 DEF CastFits
  <2>2. casts' = casts /\ casts \in Seq(Cast)
    BY <1>1 DEF IInv, CastsOK
  <2>3. \A i \in 1 .. Len(casts) : casts[i] \in Cast /\ CastFits(casts[i], byZone, all, sock, slow)
    BY <2>2 DEF IInv, CastsOK
  <2> QED BY <2>1, <2>2, <2>3 DEF CastsOK
<1>7. SocketOK'
  BY <1>1 DEF IInv, SocketOK
<1> QED BY <1>1, <1>5, <1>6, <1>7, SameNotify DEF IInv

States == {"new", "listening", "gone", "closed", "leaked"}
Live(at, late) == {s \in Socket : at[s] = "listening" /\ s \notin late}

\* Taking sockets off the hub that are no subscribers any more.
LEMMA DiscardStep ==
    ASSUME IInv, NEW S \in SUBSET Socket, Discard(S), sock' \in [Socket -> States],
           \A t \in Socket : sock[t] # "new" => sock'[t] # "new",
           S \cap Live(sock', slow') = {}, Live(sock', slow') \subseteq Live(sock, slow),
           slow \subseteq slow'
    PROVE  /\ HubOK'
           /\ \A c \in Cast : CastFits(c, byZone, all, sock, slow) =>
                                CastFits(c, byZone', all', sock', slow')
<1>1. /\ byZone' = [z \in Zone |-> byZone[z] \ S] /\ all' = all \ S /\ ips' = ips \ S
      /\ byZone \in [Zone -> SUBSET Socket] /\ all \subseteq Socket /\ ips = Subscribers
      /\ Subscribers \subseteq Socket
  BY DEF Discard, IInv, HubOK, Subscribers
<1>2. Subscribers' = Subscribers \ S
  BY <1>1 DEF Subscribers
<1>3. \A A \in SUBSET Socket : \A B \in SUBSET A : Cardinality(B) <= Cardinality(A)
  BY Finite, FS_Subset
<1>4. HubOK'
  <2>1. byZone' \in [Zone -> SUBSET Socket] /\ all' \subseteq Socket /\ ips' = Subscribers'
    BY <1>1, <1>2
  <2>2. Cardinality(Subscribers') <= MaxConnections
    <3>1. Cardinality(Subscribers') <= Cardinality(Subscribers)
      BY <1>1, <1>2, <1>3
    <3>2. Cardinality(Subscribers') \in Nat /\ Cardinality(Subscribers) \in Nat
      BY <1>1, <1>2, Finite
    <3> QED BY <3>1, <3>2, LiveAssumption DEF IInv, HubOK
  <2>3. ASSUME NEW r \in ips'
        PROVE  Cardinality({t \in ips' : IpOf[t] = IpOf[r]}) <= MaxPerIp
    <3> DEFINE A == {t \in ips : IpOf[t] = IpOf[r]}
               B == {t \in ips' : IpOf[t] = IpOf[r]}
    <3>1. A \in SUBSET Socket /\ B \in SUBSET A /\ B \in SUBSET Socket /\ r \in ips
      BY <1>1
    <3>2. Cardinality(A) \in Nat /\ Cardinality(B) \in Nat /\ Cardinality(B) <= Cardinality(A)
      BY <1>3, <3>1, Finite
    <3>3. Cardinality(A) <= MaxPerIp
      BY <3>1 DEF IInv, HubOK
    <3> QED BY <3>2, <3>3, LiveAssumption
  <2>4. \A t \in Subscribers' : sock'[t] # "new"
    BY <1>1, <1>2 DEF IInv, HubOK
  <2> QED BY <2>1, <2>2, <2>3, <2>4 DEF HubOK
<1>5. ASSUME NEW c \in Cast, CastFits(c, byZone, all, sock, slow)
      PROVE  CastFits(c, byZone', all', sock', slow')
  <2>1. c.due \subseteq Socket /\ c.dead \subseteq Socket /\ c.zone \in Zone
    BY DEF Cast
  <2>2. \A t \in c.due \cup c.dead : sock'[t] # "new"
    BY <1>5, <2>1 DEF CastFits
  <2>3. \A t \in c.due \cup c.dead : sock'[t] = "listening" /\ t \notin slow' =>
            sock[t] = "listening" /\ t \notin slow /\ t \notin S
    BY <2>1 DEF Live
  <2>4. \A t \in byZone[c.zone] \cup all : t \notin S => t \in byZone'[c.zone] \cup all'
    BY <1>1, <2>1
  <2> QED BY <1>5, <2>2, <2>3, <2>4 DEF CastFits
<1> QED BY <1>4, <1>5

LEMMA HandlerStep ==
    ASSUME IInv, NEW s \in Socket, Reject(s) \/ Leave(s) \/ EndHandler(s)
    PROVE  IInv'
<1>1. UNCHANGED <<version, notifyVars, casts, slow>> /\ sock \in [Socket -> States]
  BY DEF Reject, Leave, EndHandler, IInv, SocketOK, States
<1>2. PICK to \in {"gone", "closed", "leaked"} : sock' = [sock EXCEPT ![s] = to]
  BY DEF Reject, Leave, EndHandler
<1>3. /\ sock' \in [Socket -> States]
      /\ \A t \in Socket : sock[t] # "new" => sock'[t] # "new"
      /\ s \notin Live(sock', slow') /\ Live(sock', slow') \subseteq Live(sock, slow)
  BY <1>1, <1>2 DEF States, Live
<1>4. SocketOK'
  BY <1>3 DEF SocketOK, States
<1>5. PICK S \in SUBSET {s} : Discard(S)
  <2>1. CASE EndHandler(s)
    BY <2>1 DEF EndHandler
  <2>2. CASE Reject(s) \/ Leave(s)
    <3>1. Discard({})
      BY <2>2 DEF Reject, Leave, hubVars, Discard, IInv, HubOK
    <3> QED BY <3>1
  <2> QED BY <2>1, <2>2
<1>6. /\ HubOK'
      /\ \A c \in Cast : CastFits(c, byZone, all, sock, slow) =>
                           CastFits(c, byZone', all', sock', slow')
  BY <1>1, <1>3, <1>5, DiscardStep
<1>7. CastsOK'
  BY <1>1, <1>6 DEF IInv, CastsOK
<1> QED BY <1>1, <1>4, <1>6, <1>7, SameNotify DEF IInv
--------------------------------------------------------------------------------
(* Broadcasts *)

\* One broadcast goes on, the others stay.
LEMMA OneCast ==
    ASSUME IInv, NEW i \in 1 .. Len(casts), NEW c \in Cast, casts' = [casts EXCEPT ![i] = c],
           UNCHANGED <<hubVars, sock>>, slow \subseteq slow',
           CastFits(c, byZone, all, sock, slow')
    PROVE  CastsOK'
<1>1. casts' \in Seq(Cast) /\ Len(casts') = Len(casts)
  BY DEF IInv, CastsOK
<1>2. \A k \in 1 .. Len(casts) : casts'[k] = (IF k = i THEN c ELSE casts[k])
  BY DEF IInv, CastsOK
<1>3. \A d : CastFits(d, byZone, all, sock, slow) => CastFits(d, byZone, all, sock, slow')
  BY DEF CastFits
<1>4. \A k \in 1 .. Len(casts') : CastFits(casts'[k], byZone, all, sock, slow')
  BY <1>1, <1>2, <1>3 DEF IInv, CastsOK
<1> QED BY <1>1, <1>4 DEF CastsOK, hubVars

LEMMA CastStep ==
    ASSUME IInv, NEW i \in DOMAIN casts, StartCast(i) \/ Send(i) \/ EndCast(i)
    PROVE  IInv'
<1>1. /\ i \in 1 .. Len(casts) /\ casts \in Seq(Cast) /\ casts[i] \in Cast
      /\ CastFits(casts[i], byZone, all, sock, slow) /\ casts[i].zone \in Zone
      /\ casts[i].due \subseteq Socket /\ casts[i].left \subseteq Socket
      /\ casts[i].dead \subseteq Socket /\ casts[i].got \subseteq Socket
  <2>1. casts \in Seq(Cast) /\ i \in 1 .. Len(casts)
    BY DEF IInv, CastsOK
  <2>2. casts[i] \in Cast /\ CastFits(casts[i], byZone, all, sock, slow)
    BY <2>1 DEF IInv, CastsOK
  <2> QED BY <2>1, <2>2 DEF Cast
<1>2. UNCHANGED <<version, notifyVars, sock>> /\ NotifyOK' /\ SocketOK'
  BY SameNotify DEF StartCast, Send, EndCast, IInv, SocketOK
<1>3. CASE StartCast(i)
  <2> DEFINE c == [casts[i] EXCEPT !.pc = "sending", !.left = byZone[casts[i].zone] \cup all]
  <2>1. /\ casts' = [casts EXCEPT ![i] = c] /\ UNCHANGED <<hubVars, sock, slow>>
        /\ casts[i].pc = "scheduled"
    BY <1>1, <1>3 DEF StartCast
  <2>2. c \in Cast /\ c.pc = "sending" /\ c.due = casts[i].due /\ c.dead = casts[i].dead
        /\ c.left = byZone[casts[i].zone] \cup all
    BY <1>1 DEF Cast, IInv, HubOK
  <2> HIDE DEF c
  <2>3. CastFits(c, byZone, all, sock, slow)
    BY <1>1, <2>1, <2>2 DEF CastFits
  <2> QED BY <1>1, <1>2, <2>1, <2>2, <2>3, OneCast, SameHub DEF IInv
<1>4. CASE Send(i)
  <2>1. PICK s \in casts[i].left : \E dead, got \in SUBSET {s} :
          /\ Sent(i, s, dead, got)
          /\ s \in dead => (sock[s] # "new" /\ (sock[s] = "listening" => s \in slow'))
          /\ sock[s] = "listening" => (s \in slow' \/ s \in got)
          /\ slow \subseteq slow'
    BY <1>4 DEF Send
  <2>p. PICK dead, got \in SUBSET {s} :
          /\ Sent(i, s, dead, got)
          /\ s \in dead => (sock[s] # "new" /\ (sock[s] = "listening" => s \in slow'))
          /\ sock[s] = "listening" => (s \in slow' \/ s \in got)
          /\ slow \subseteq slow'
    BY <2>1
  <2> DEFINE c == [casts[i] EXCEPT !.left = @ \ {s}, !.dead = @ \cup dead, !.got = @ \cup got]
  <2>2. /\ casts' = [casts EXCEPT ![i] = c] /\ UNCHANGED hubVars
        /\ casts[i].pc = "sending"
    BY <1>1, <1>4, <2>p DEF Send, Sent
  <2>3. /\ c \in Cast /\ c.pc = "sending" /\ c.due = casts[i].due
        /\ c.dead = casts[i].dead \cup dead /\ c.left = casts[i].left \ {s}
        /\ c.got = casts[i].got \cup got
    BY <1>1, <2>p, <2>2 DEF Cast
  <2> HIDE DEF c
  <2>4. CastFits(c, byZone, all, sock, slow')
    BY <1>1, <2>p, <2>2, <2>3 DEF CastFits
  <2> QED BY <1>1, <1>2, <2>p, <2>2, <2>3, <2>4, OneCast, SameHub DEF IInv
<1>5. CASE EndCast(i)
  <2>1. casts' = RemoveAt(casts, i) /\ Discard(casts[i].dead) /\ UNCHANGED <<sock, slow>>
    BY <1>5 DEF EndCast
  <2>2. sock \in [Socket -> States] /\ casts[i].dead \cap Live(sock, slow) = {}
    BY <1>1 DEF IInv, SocketOK, States, CastFits, Live
  <2>3. /\ HubOK'
        /\ \A c \in Cast : CastFits(c, byZone, all, sock, slow) =>
                             CastFits(c, byZone', all', sock', slow')
    BY <1>1, <2>1, <2>2, DiscardStep DEF Live
  <2>4. /\ casts' \in Seq(Cast)
        /\ \A j \in 1 .. Len(casts') : \E k \in 1 .. Len(casts) : casts'[j] = casts[k]
    BY <1>1, <2>1, Removed
  <2>5. \A k \in 1 .. Len(casts) : casts[k] \in Cast /\ CastFits(casts[k], byZone, all, sock, slow)
    BY <1>1 DEF IInv, CastsOK
  <2>6. CastsOK'
    BY <2>3, <2>4, <2>5 DEF CastsOK
  <2> QED BY <1>2, <2>3, <2>6 DEF IInv
<1> QED BY <1>3, <1>4, <1>5
--------------------------------------------------------------------------------
LEMMA NextIInv == IInv /\ [Next]_vars => IInv'
<1> SUFFICES ASSUME IInv, [Next]_vars PROVE IInv'
  OBVIOUS
<1>1. CASE UNCHANGED vars
  BY <1>1, SameHub, SameNotify, SameCasts DEF vars, IInv
<1>2. CASE Next
  BY <1>2, ListenerStep, CastStep, SubscribeStep, HandlerStep DEF Next
<1> QED BY <1>1, <1>2

LEMMA SpecIInv == Spec => []IInv
<1>1. Init => IInv
  BY InitIInv
<1>2. IInv /\ [Next]_vars => IInv'
  BY NextIInv
<1> QED BY <1>1, <1>2, PTL DEF Spec

\* The hub never holds more subscribers than it may, nor more of one address, and it holds
\* the addresses of its subscribers only, whoever leaves or is dropped by a broadcast.
THEOREM LiveTypeCorrect == Spec => []TypeOK
<1>1. IInv => TypeOK
  BY DEF IInv, NotifyOK, HubOK, SocketOK, CastsOK, TypeOK
<1> QED BY <1>1, SpecIInv, PTL

\* A broadcast reaches everyone who subscribed when it was made and still listens, unless
\* a send to him failed: no other broadcast takes him off the hub meanwhile.
THEOREM NothingMissedAlways == Spec => []NothingMissed
<1>1. IInv => NothingMissed
  <2> SUFFICES ASSUME IInv, NEW i \in DOMAIN casts, casts[i].pc = "sending",
                      NEW s \in casts[i].due, Subscribed(s)
               PROVE  s \in casts[i].left \cup casts[i].got
    BY DEF NothingMissed
  <2>1. i \in 1 .. Len(casts) /\ CastFits(casts[i], byZone, all, sock, slow)
    BY DEF IInv, CastsOK
  <2> QED BY <2>1 DEF CastFits, Subscribed
<1> QED BY <1>1, SpecIInv, PTL
================================================================================
