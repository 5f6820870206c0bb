--------------------------- MODULE MeshDirect_proofs ---------------------------
(***************************************************************************)
(* A remote switch shows its target, for every network that is wired as    *)
(* the protocol expects and any number of commands, questions and          *)
(* restarts, as long as the mesh loses and repeats nothing.                *)
(***************************************************************************)
EXTENDS MeshDirect, SequenceTheorems, WellFoundedInduction, TLAPS

-----------------------------------------------------------------------------
(* The last frame of a kind.                                               *)

Has(s, F) == \E k \in DOMAIN s : s[k] \in F

(* The last frame of F in s, if there is one, says x. *)
Final(s, F, x) ==
  \A k \in DOMAIN s :
    s[k] \in F /\ (\A j \in DOMAIN s : j > k => s[j] \notin F)
      => (s[k].val > 0 <=> x = 1)

(* After every frame of F there is one of G. *)
Followed(s, F, G) ==
  \A k \in DOMAIN s : s[k] \in F => \E j \in DOMAIN s : j > k /\ s[j] \in G

LEMMA Joined ==
  ASSUME NEW S, NEW s \in Seq(S), NEW o \in Seq(S)
  PROVE  /\ s \o o \in Seq(S)
         /\ DOMAIN (s \o o) = 1 .. Len(s) + Len(o)
         /\ DOMAIN s = 1 .. Len(s) /\ DOMAIN o = 1 .. Len(o)
         /\ Len(s) \in Nat /\ Len(o) \in Nat
         /\ \A k \in DOMAIN s : (s \o o)[k] = s[k] /\ k \in DOMAIN (s \o o)
         /\ \A k \in DOMAIN o : (s \o o)[k + Len(s)] = o[k] /\ k + Len(s) \in DOMAIN (s \o o)
         /\ \A k \in DOMAIN (s \o o) :
              k \in DOMAIN s \/ (k - Len(s) \in DOMAIN o /\ (s \o o)[k] = o[k - Len(s)])
<1>1. /\ s \o o \in Seq(S) /\ Len(s \o o) = Len(s) + Len(o)
      /\ \A k \in 1 .. Len(s) + Len(o) :
           (s \o o)[k] = IF k <= Len(s) THEN s[k] ELSE o[k - Len(s)]
  BY ConcatProperties
<1>2. Len(s) \in Nat /\ Len(o) \in Nat /\ DOMAIN s = 1 .. Len(s) /\ DOMAIN o = 1 .. Len(o)
  BY LenProperties
<1>3. DOMAIN (s \o o) = 1 .. Len(s) + Len(o)
  BY <1>1, <1>2, LenProperties
<1>4. \A k \in DOMAIN s : (s \o o)[k] = s[k] /\ k \in DOMAIN (s \o o)
  BY <1>1, <1>2, <1>3
<1>5. \A k \in DOMAIN o : (s \o o)[k + Len(s)] = o[k] /\ k + Len(s) \in DOMAIN (s \o o)
  BY <1>1, <1>2, <1>3
<1>6. \A k \in DOMAIN (s \o o) :
        k \in DOMAIN s \/ (k - Len(s) \in DOMAIN o /\ (s \o o)[k] = o[k - Len(s)])
  BY <1>1, <1>2, <1>3
<1> QED
  BY <1>1, <1>2, <1>3, <1>4, <1>5, <1>6

LEMMA Tailed ==
  ASSUME NEW S, NEW s \in Seq(S), s # <<>>
  PROVE  /\ Tail(s) \in Seq(S) /\ Head(s) \in S /\ Head(s) = s[1] /\ 1 \in DOMAIN s
         /\ \A k \in DOMAIN s : k = 1 \/ (k > 1 /\ k - 1 \in DOMAIN Tail(s)
                                          /\ Tail(s)[k - 1] = s[k])
         /\ \A k \in DOMAIN Tail(s) : k \in Nat /\ k > 0 /\ k + 1 \in DOMAIN s
                                      /\ Tail(s)[k] = s[k + 1]
<1>1. /\ Tail(s) \in Seq(S) /\ Head(s) \in S /\ Head(s) = s[1]
      /\ Len(Tail(s)) = Len(s) - 1 /\ Len(s) \in Nat /\ Len(s) > 0
      /\ \A k \in 1 .. Len(s) - 1 : Tail(s)[k] = s[k + 1]
  BY HeadTailProperties, EmptySeq, LenProperties
<1>2. DOMAIN s = 1 .. Len(s) /\ DOMAIN Tail(s) = 1 .. Len(s) - 1
  BY <1>1, LenProperties
<1> QED
  BY <1>1, <1>2

(* What is joined. *)
LEMMA HasJoined ==
  ASSUME NEW S, NEW s \in Seq(S), NEW o \in Seq(S), NEW F
  PROVE  Has(s \o o, F) <=> Has(s, F) \/ Has(o, F)
<1>1. Has(s \o o, F) => Has(s, F) \/ Has(o, F)
  BY Joined DEF Has
<1>2. Has(s, F) => Has(s \o o, F)
  BY Joined DEF Has
<1>3. Has(o, F) => Has(s \o o, F)
  <2> SUFFICES ASSUME NEW k \in DOMAIN o, o[k] \in F
               PROVE  Has(s \o o, F)
    BY DEF Has
  <2>1. (s \o o)[k + Len(s)] = o[k] /\ k + Len(s) \in DOMAIN (s \o o)
    BY Joined
  <2> QED
    BY <2>1 DEF Has
<1> QED
  BY <1>1, <1>2, <1>3

LEMMA FinalOld ==
  ASSUME NEW S, NEW s \in Seq(S), NEW o \in Seq(S), NEW F, NEW x,
         Final(s, F, x), ~Has(o, F)
  PROVE  Final(s \o o, F, x)
<1> SUFFICES ASSUME NEW k \in DOMAIN (s \o o), (s \o o)[k] \in F,
                    \A j \in DOMAIN (s \o o) : j > k => (s \o o)[j] \notin F
             PROVE  (s \o o)[k].val > 0 <=> x = 1
  BY DEF Final
<1>1. k \in DOMAIN s /\ s[k] \in F /\ (s \o o)[k] = s[k]
  BY Joined DEF Has
<1>2. \A j \in DOMAIN s : j > k => s[j] \notin F
  BY Joined
<1> QED
  BY <1>1, <1>2 DEF Final

LEMMA FinalNew ==
  ASSUME NEW S, NEW s \in Seq(S), NEW o \in Seq(S), NEW F, NEW x,
         Final(o, F, x), Has(o, F)
  PROVE  Final(s \o o, F, x)
<1> SUFFICES ASSUME NEW k \in DOMAIN (s \o o), (s \o o)[k] \in F,
                    \A j \in DOMAIN (s \o o) : j > k => (s \o o)[j] \notin F
             PROVE  (s \o o)[k].val > 0 <=> x = 1
  BY DEF Final
<1> DEFINE n == Len(s)
<1>1. n \in Nat /\ DOMAIN s = 1 .. n
  BY Joined
<1>2. PICK h \in DOMAIN o : o[h] \in F
  BY DEF Has
<1>3. h \in Nat /\ h > 0 /\ h + n \in DOMAIN (s \o o) /\ (s \o o)[h + n] \in F
  BY Joined, <1>2
<1>4. k \notin DOMAIN s
  BY <1>1, <1>3
<1>5. k \in Nat /\ k - n \in DOMAIN o /\ (s \o o)[k] = o[k - n]
  BY <1>4, Joined
<1>6. \A j \in DOMAIN o : j \in Nat /\ j + n \in DOMAIN (s \o o) /\ (s \o o)[j + n] = o[j]
  BY Joined
<1>7. \A j \in DOMAIN o : j > k - n => o[j] \notin F
  <2> SUFFICES ASSUME NEW j \in DOMAIN o, j > k - n PROVE o[j] \notin F
    OBVIOUS
  <2>1. j \in Nat /\ j + n \in DOMAIN (s \o o) /\ (s \o o)[j + n] = o[j]
    BY <1>6
  <2>2. j + n > k
    BY <1>1, <1>5, <2>1
  <2> QED
    BY <2>1, <2>2
<1>8. o[k - n] \in F
  BY <1>5
<1> QED
  BY <1>5, <1>7, <1>8 DEF Final

LEMMA FollowedOld ==
  ASSUME NEW S, NEW s \in Seq(S), NEW o \in Seq(S), NEW F, NEW G,
         Followed(s, F, G), ~Has(o, F)
  PROVE  Followed(s \o o, F, G)
<1> SUFFICES ASSUME NEW k \in DOMAIN (s \o o), (s \o o)[k] \in F
             PROVE  \E j \in DOMAIN (s \o o) : j > k /\ (s \o o)[j] \in G
  BY DEF Followed
<1>1. k \in DOMAIN s /\ s[k] \in F
  BY Joined DEF Has
<1>2. PICK j \in DOMAIN s : j > k /\ s[j] \in G
  BY <1>1 DEF Followed
<1> QED
  BY <1>2, Joined

(* A frame of G at the end follows every other. *)
LEMMA FollowedNew ==
  ASSUME NEW S, NEW s \in Seq(S), NEW g \in S, NEW F, NEW G, g \in G, g \notin F
  PROVE  Followed(s \o <<g>>, F, G)
<1>1. <<g>> \in Seq(S) /\ Len(<<g>>) = 1 /\ <<g>>[1] = g /\ DOMAIN <<g>> = 1 .. 1
  OBVIOUS
<1>2. Len(s) \in Nat /\ DOMAIN s = 1 .. Len(s) /\ DOMAIN (s \o <<g>>) = 1 .. Len(s) + 1
  BY <1>1, Joined
<1>3. (s \o <<g>>)[1 + Len(s)] = g
  BY <1>1, Joined
<1>4. \A k \in DOMAIN (s \o <<g>>) : k # Len(s) + 1 => k < Len(s) + 1
  BY <1>2
<1>5. Len(s) + 1 \in DOMAIN (s \o <<g>>) /\ 1 + Len(s) = Len(s) + 1
  BY <1>2
<1> QED
  BY <1>3, <1>4, <1>5 DEF Followed

(* What is left when the head is gone. *)
LEMMA HasTail ==
  ASSUME NEW S, NEW s \in Seq(S), s # <<>>, NEW F
  PROVE  /\ Has(Tail(s), F) => Has(s, F)
         /\ Has(s, F) => Has(Tail(s), F) \/ Head(s) \in F
<1>1. Has(Tail(s), F) => Has(s, F)
  <2> SUFFICES ASSUME NEW k \in DOMAIN Tail(s), Tail(s)[k] \in F PROVE Has(s, F)
    BY DEF Has
  <2> QED
    BY Tailed DEF Has
<1>2. Has(s, F) => Has(Tail(s), F) \/ Head(s) \in F
  <2> SUFFICES ASSUME NEW k \in DOMAIN s, s[k] \in F, Head(s) \notin F
               PROVE  Has(Tail(s), F)
    BY DEF Has
  <2>1. k - 1 \in DOMAIN Tail(s) /\ Tail(s)[k - 1] = s[k]
    BY Tailed
  <2> QED
    BY <2>1 DEF Has
<1> QED
  BY <1>1, <1>2

LEMMA FinalTail ==
  ASSUME NEW S, NEW s \in Seq(S), s # <<>>, NEW F, NEW x, Final(s, F, x)
  PROVE  Final(Tail(s), F, x)
<1> SUFFICES ASSUME NEW k \in DOMAIN Tail(s), Tail(s)[k] \in F,
                    \A j \in DOMAIN Tail(s) : j > k => Tail(s)[j] \notin F
             PROVE  Tail(s)[k].val > 0 <=> x = 1
  BY DEF Final
<1>1. k \in Nat /\ k + 1 \in DOMAIN s /\ s[k + 1] = Tail(s)[k]
  BY Tailed
<1>2. \A j \in DOMAIN s : j > k + 1 => s[j] \notin F
  <2> SUFFICES ASSUME NEW j \in DOMAIN s, j > k + 1 PROVE s[j] \notin F
    OBVIOUS
  <2>1. j \in Nat
    BY LenProperties
  <2>2. j # 1
    BY <1>1, <2>1, Tailed
  <2>3. j - 1 \in DOMAIN Tail(s) /\ Tail(s)[j - 1] = s[j]
    BY <2>2, Tailed
  <2>4. j - 1 > k
    BY <1>1, <2>1
  <2> QED
    BY <2>3, <2>4
<1> QED
  BY <1>1, <1>2 DEF Final

LEMMA FinalHead ==
  ASSUME NEW S, NEW s \in Seq(S), s # <<>>, NEW F, NEW x, Final(s, F, x),
         Head(s) \in F, ~Has(Tail(s), F)
  PROVE  Head(s).val > 0 <=> x = 1
<1>1. \A j \in DOMAIN s : j > 1 => s[j] \notin F
  BY Tailed DEF Has
<1> QED
  BY <1>1, Tailed DEF Final

LEMMA FollowedTail ==
  ASSUME NEW S, NEW s \in Seq(S), s # <<>>, NEW F, NEW G, Followed(s, F, G)
  PROVE  Followed(Tail(s), F, G)
<1> SUFFICES ASSUME NEW k \in DOMAIN Tail(s), Tail(s)[k] \in F
             PROVE  \E j \in DOMAIN Tail(s) : j > k /\ Tail(s)[j] \in G
  BY DEF Followed
<1>1. k \in Nat /\ k + 1 \in DOMAIN s /\ s[k + 1] \in F
  BY Tailed
<1>2. PICK j \in DOMAIN s : j > k + 1 /\ s[j] \in G
  BY <1>1 DEF Followed
<1>3. j \in Nat
  BY LenProperties
<1>4. j - 1 \in DOMAIN Tail(s) /\ Tail(s)[j - 1] = s[j]
  BY <1>1, <1>2, <1>3, Tailed
<1> QED
  BY <1>1, <1>2, <1>3, <1>4

LEMMA FollowedNone ==
  ASSUME NEW s, NEW F, NEW G, Followed(s, F, G), ~Has(s, G)
  PROVE  ~Has(s, F)
BY DEF Has, Followed

-----------------------------------------------------------------------------
(* The configuration.                                                      *)

LEMMA Entities ==
  ASSUME DirectConstants, NEW n \in Device, NEW i \in Index(n)
  PROVE  /\ i \in Nat /\ i > 0
         /\ Entity[n][i].type \in Type /\ Entity[n][i].hash \in Nat
         /\ Entity[n][i].target \in Nat
         /\ Entity[n][i].addr \in Device \cup {NoDevice}
         /\ Entity[n][i].pub \in {<<>>} \cup (Device \X Nat)
         /\ Level[n] \in [Index(n) -> Unknown .. Full]
<1> DEFINE R == [type : Type, hash : Nat, target : Nat, addr : Device \cup {NoDevice},
                 pub : {<<>>} \cup (Device \X Nat)]
<1>1. Entity[n] \in Seq(R) /\ Level[n] \in [Index(n) -> Unknown .. Full]
  BY DEF DirectConstants
<1>2. i \in 1 .. Len(Entity[n]) /\ Len(Entity[n]) \in Nat
  BY <1>1, LenProperties DEF Index
<1>3. Entity[n][i] \in R
  <2> HIDE DEF R
  <2> QED
    BY <1>1, <1>2
<1>4. \A e \in R : /\ e.type \in Type /\ e.hash \in Nat /\ e.target \in Nat
                   /\ e.addr \in Device \cup {NoDevice}
                   /\ e.pub \in {<<>>} \cup (Device \X Nat)
  OBVIOUS
<1>5. i \in Nat /\ i > 0
  BY <1>2
<1> HIDE DEF R
<1> QED
  BY <1>1, <1>3, <1>4, <1>5

LEMMA Numbers ==
  ASSUME DirectConstants
  PROVE  Half \in Nat /\ Half > 10 /\ Full \in Nat /\ Full > 0
BY DEF DirectConstants

LEMMA Nobody ==
  ASSUME DirectConstants
  PROVE  \A x \in Device : x # NoDevice
BY DEF DirectConstants

(* The lowest of a set of numbers is in it. *)
LEMMA LowestOf ==
  ASSUME NEW S \in SUBSET Nat, S # {}
  PROVE  \E x \in S : \A y \in S : x <= y
<1> DEFINE R == OpToRel(<, Nat)
<1>1. PICK x \in S : \A y \in S : <<y, x>> \notin R
  <2>1. IsWellFoundedOn(R, Nat)
    BY NatLessThanWellFounded
  <2> HIDE DEF R
  <2> QED
    BY <2>1, WFMin, Zenon
<1>2. \A y \in S : ~(y < x)
  BY <1>1 DEF OpToRel
<1>3. \A y \in S : x <= y
  BY <1>2
<1> QED
  BY <1>3

LEMMA LowestIn ==
  ASSUME NEW S \in SUBSET Nat, S # {}
  PROVE  Lowest(S) \in S
BY LowestOf DEF Lowest, Min

(* So is the highest, if there is a bound. *)
LEMMA HighestIn ==
  ASSUME NEW N \in Nat, NEW S \in SUBSET (0 .. N), S # {}
  PROVE  Highest(S) \in S
<1> DEFINE T == {N - x : x \in S}
<1>1. T \in SUBSET Nat /\ T # {}
  <2>1. \A x \in S : x \in 0 .. N
    OBVIOUS
  <2>2. \A x \in S : N - x \in Nat
    BY <2>1
  <2> QED
    BY <2>2
<1>2. PICK y \in T : \A z \in T : y <= z
  <2> HIDE DEF T
  <2> QED
    BY <1>1, LowestOf
<1>3. PICK x \in S : y = N - x
  BY <1>2
<1>4. \A z \in S : x >= z
  <2> SUFFICES ASSUME NEW z \in S PROVE x >= z
    OBVIOUS
  <2>1. N - x <= N - z
    BY <1>2, <1>3
  <2> QED
    BY <2>1
<1> QED
  BY <1>3, <1>4 DEF Highest, Max

LEMMA Found ==
  ASSUME DirectConstants, NEW n \in Device, NEW t, NEW h
  PROVE  LET i == FindEntity(n, t, h) IN
         i # 0 => i \in Index(n) /\ Entity[n][i].type = t /\ Entity[n][i].hash = h
<1> DEFINE S == {i \in Index(n) : Entity[n][i].type = t /\ Entity[n][i].hash = h}
<1>1. S \in SUBSET Nat
  BY Entities
<1>2. FindEntity(n, t, h) = Lowest(S)
  BY DEF FindEntity
<1>3. S # {} => Lowest(S) \in S
  BY <1>1, LowestIn
<1>4. S = {} => Lowest(S) = 0
  BY DEF Lowest
<1> QED
  BY <1>2, <1>3, <1>4

LEMMA SensorFound ==
  ASSUME DirectConstants, NEW n \in Device, NEW h, FindSensor(n, h) # 0
  PROVE  FindSensor(n, h) \in Index(n)
<1> DEFINE S == {i \in Index(n) : Entity[n][i].type = "sensor"}  N == Len(Entity[n])
<1>1. N \in Nat /\ Index(n) = 1 .. N
  BY LenProperties DEF DirectConstants, Index
<1>2. S \in SUBSET (0 .. N)
  BY <1>1
<1>3. S # {} => Highest(S) \in S
  <2> HIDE DEF S, N
  <2> QED
    BY <1>1, <1>2, HighestIn
<1>4. S = {} => Highest(S) = 0
  BY DEF Highest
<1> QED
  BY <1>3, <1>4, Found DEF FindSensor

-----------------------------------------------------------------------------
(* What a link may carry: every frame has a cause that the configuration   *)
(* names.                                                                  *)

Links == Device \X Device
Own(r) == Entity[r[1]][r[2]].hash
Goal(r) == Entity[r[1]][r[2]].target
Home(r) == Entity[r[1]][r[2]].addr

(* The remote switches whose requests go by link l. *)
Toward(l) == {r \in Remotes : r[1] = l[1] /\ Home(r) = l[2]}
Publishers(l) ==
  {i \in Index(l[1]) : /\ Entity[l[1]][i].type = "switch" /\ Entity[l[1]][i].pub # <<>>
                       /\ Entity[l[1]][i].pub[1] = l[2]}

Questions(l) == {f \in Asked : l[1] = Hub}
Queries(l) == {GetReq(Goal(r)) : r \in Toward(l)}
Orders(l) == {SetReq("switch", Goal(r), v) : r \in Toward(l), v \in {0, 10}}
Publications(l) == {PubReq(Entity[l[1]][i].pub[2], v) : i \in Publishers(l), v \in {0, 10}}
Answers(l) == {GetRep(1, Goal(r), v) : r \in Toward(<<l[2], l[1]>>), v \in {0, 1}}
Asides(l) == {SetRep, PubRep, CountRep(l[1])}
Reports(l) == {HashRep(l[1], f.type, f.index) : f \in {f \in Asked : l[2] = Hub}}
Values(l) == {GetRep(vt, f.hash, v) : vt \in {1, 2}, v \in Int, f \in {f \in Asked : l[2] = Hub}}

Carried(l) == Questions(l) \cup Queries(l) \cup Orders(l) \cup Publications(l)
              \cup Answers(l) \cup Asides(l) \cup Reports(l) \cup Values(l)

LEMMA Commands ==
  ASSUME NEW l
  PROVE  /\ \A f \in Queries(l) : f.cmd = "GET_ENTITY_STATE_REQ"
         /\ \A f \in Orders(l) : f.cmd = "SET_ENTITY_STATE_REQ"
         /\ \A f \in Publications(l) : f.cmd = "PUB_ENTITY_STATE_REQ"
         /\ \A f \in Answers(l) \cup Values(l) : f.cmd = "GET_ENTITY_STATE_REP"
         /\ \A f \in Reports(l) : f.cmd = "GET_ENTITY_HASH_REP"
         /\ \A f \in Asides(l) : \/ f.cmd \in {"PUB_ENTITY_STATE_REP", "ENTITIES_COUNT_REP"}
                                 \/ f.cmd = "GET_ENTITY_STATE_REP" /\ f.value_type = 0
<1>1. \A f \in Queries(l) : f.cmd = "GET_ENTITY_STATE_REQ"
  BY DEF Queries, GetReq
<1>2. \A f \in Orders(l) : f.cmd = "SET_ENTITY_STATE_REQ"
  BY DEF Orders, SetReq
<1>3. \A f \in Publications(l) : f.cmd = "PUB_ENTITY_STATE_REQ"
  BY DEF Publications, PubReq
<1>4. \A f \in Answers(l) \cup Values(l) : f.cmd = "GET_ENTITY_STATE_REP"
  BY DEF Answers, Values, GetRep
<1>5. \A f \in Reports(l) : f.cmd = "GET_ENTITY_HASH_REP"
  BY DEF Reports, HashRep
<1>6. \A f \in Asides(l) : \/ f.cmd \in {"PUB_ENTITY_STATE_REP", "ENTITIES_COUNT_REP"}
                           \/ f.cmd = "GET_ENTITY_STATE_REP" /\ f.value_type = 0
  <2>1. SetRep.cmd = "GET_ENTITY_STATE_REP" /\ SetRep.value_type = 0
    BY DEF SetRep
  <2>2. PubRep.cmd = "PUB_ENTITY_STATE_REP"
    BY DEF PubRep
  <2>3. CountRep(l[1]).cmd = "ENTITIES_COUNT_REP"
    BY DEF CountRep
  <2> QED
    BY <2>1, <2>2, <2>3 DEF Asides
<1> QED
  BY <1>1, <1>2, <1>3, <1>4, <1>5, <1>6

(* Where a frame comes from that asks, sets, publishes or answers. *)
LEMMA Causes ==
  ASSUME Wired, NEW l, NEW f \in Carried(l)
  PROVE  /\ f.cmd = "GET_ENTITY_STATE_REQ" => f \in Questions(l) \cup Queries(l)
         /\ f.cmd = "SET_ENTITY_STATE_REQ" => f \in Questions(l) \cup Orders(l)
         /\ f.cmd = "GET_ENTITY_HASH_REQ" => f \in Questions(l)
         /\ f.cmd = "PUB_ENTITY_STATE_REQ" => f \in Publications(l)
         /\ f.cmd = "GET_ENTITY_STATE_REP" /\ f.value_type = 1
              => f \in Answers(l) \cup Values(l)
<1>1. \A q \in Questions(l) : q.cmd \notin Reply \cup {"PUB_ENTITY_STATE_REQ"}
  BY DEF Wired, Questions
<1>2. \A q \in Questions(l) : q.cmd # "PUB_ENTITY_STATE_REQ" /\ q.cmd # "GET_ENTITY_STATE_REP"
  BY <1>1 DEF Reply
<1> QED
  BY <1>2, Commands DEF Carried

-----------------------------------------------------------------------------
(* States have their types, and links carry what they may.                 *)

States(st) == DOMAIN st = Device /\ \A n \in Device : st[n] \in [Index(n) -> Unknown .. Full]

Carries(nw) == DOMAIN nw = Links /\ \A l \in Links : nw[l] \in Seq(Carried(l))

Sound == States(state) /\ Carries(net)

Puts(n, i, b) == state' = [state EXCEPT ![n][i] = b]

LEMMA SetState ==
  ASSUME DirectConstants, States(state), NEW n \in Device, NEW i \in Index(n),
         NEW b \in Unknown .. Full, Puts(n, i, b)
  PROVE  /\ States(state)'
         /\ state'[n][i] = b
         /\ \A a \in Device : \A k \in Index(a) :
              a # n \/ k # i => state'[a][k] = state[a][k]
<1>1. state[n] \in [Index(n) -> Unknown .. Full] /\ DOMAIN state = Device
  BY DEF States
<1>2. [state[n] EXCEPT ![i] = b] \in [Index(n) -> Unknown .. Full]
  BY <1>1
<1>3. DOMAIN state' = Device /\ state'[n] = [state[n] EXCEPT ![i] = b]
      /\ \A a \in Device : a # n => state'[a] = state[a]
  BY <1>1 DEF Puts
<1>4. state'[n][i] = b /\ \A k \in Index(n) : k # i => state'[n][k] = state[n][k]
  BY <1>1, <1>3
<1>5. States(state)'
  BY <1>2, <1>3 DEF States
<1> QED
  BY <1>3, <1>4, <1>5

(* What n sends may be carried to each node. *)
Sendable(n, out) == \A x \in Device : out[x] \in Seq(Carried(<<n, x>>))

LEMMA NothingSendable ==
  ASSUME NEW n
  PROVE  Sendable(n, Nothing) /\ \A x \in Device : Nothing[x] = <<>>
<1>1. \A x \in Device : Nothing[x] = <<>>
  BY DEF Nothing
<1>2. \A x \in Device : <<>> \in Seq(Carried(<<n, x>>))
  OBVIOUS
<1>3. \A x \in Device : Nothing[x] \in Seq(Carried(<<n, x>>))
  BY <1>1, <1>2, Zenon
<1> QED
  BY <1>1, <1>3 DEF Sendable

LEMMA ToSendable ==
  ASSUME NEW n, NEW m, NEW f, m \in Device => f \in Carried(<<n, m>>)
  PROVE  /\ Sendable(n, To(m, f))
         /\ \A x \in Device : To(m, f)[x] = IF x = m THEN <<f>> ELSE <<>>
<1>1. \A x \in Device : To(m, f)[x] = IF x = m THEN <<f>> ELSE <<>>
  BY DEF To
<1>2. \A x \in Device : x = m => <<f>> \in Seq(Carried(<<n, x>>))
  <2> DEFINE S == Carried(<<n, m>>)
  <2>1. f \in S => <<f>> \in Seq(S)
    <3> HIDE DEF S
    <3> QED
      OBVIOUS
  <2> QED
    BY <2>1
<1>3. \A x \in Device : <<>> \in Seq(Carried(<<n, x>>))
  OBVIOUS
<1> QED
  BY <1>1, <1>2, <1>3 DEF Sendable

LEMMA ThenSendable ==
  ASSUME NEW n, NEW first, NEW second, Sendable(n, first), Sendable(n, second)
  PROVE  /\ Sendable(n, Then(first, second))
         /\ \A x \in Device : Then(first, second)[x] = first[x] \o second[x]
<1>1. \A x \in Device : Then(first, second)[x] = first[x] \o second[x]
  BY DEF Then
<1>2. ASSUME NEW x \in Device
      PROVE  Then(first, second)[x] \in Seq(Carried(<<n, x>>))
  <2>1. first[x] \in Seq(Carried(<<n, x>>)) /\ second[x] \in Seq(Carried(<<n, x>>))
    BY DEF Sendable
  <2> DEFINE S == Carried(<<n, x>>)
  <2>2. first[x] \o second[x] \in Seq(S)
    <3>1. first[x] \in Seq(S) /\ second[x] \in Seq(S)
      BY <2>1
    <3> HIDE DEF S
    <3> QED
      BY <3>1, Joined
  <2> QED
    BY <1>1, <2>2
<1> QED
  BY <1>1, <1>2 DEF Sendable

LEMMA PublishSendable ==
  ASSUME DirectConstants, NEW n \in Device, NEW i \in Index(n),
         Entity[n][i].type = "switch", NEW b
  PROVE  Sendable(n, PublishOut(n, i, b))
<1>1. CASE state[n][i] # b /\ Entity[n][i].pub # <<>>
  <2> DEFINE m == Entity[n][i].pub[1]  f == PubReq(Entity[n][i].pub[2], OnOff(b))
  <2>1. OnOff(b) \in {0, 10}
    BY DEF OnOff
  <2>2. i \in Publishers(<<n, m>>)
    BY <1>1 DEF Publishers
  <2>3. f \in Publications(<<n, m>>)
    BY <2>1, <2>2 DEF Publications
  <2>4. f \in Carried(<<n, m>>)
    BY <2>3 DEF Carried
  <2>5. PublishOut(n, i, b) = To(m, f)
    BY <1>1 DEF PublishOut
  <2> HIDE DEF m, f
  <2> QED
    BY <2>4, <2>5, ToSendable
<1>2. CASE ~(state[n][i] # b /\ Entity[n][i].pub # <<>>)
  BY <1>2, NothingSendable DEF PublishOut
<1> QED
  BY <1>1, <1>2

LEMMA RemoteIs ==
  ASSUME NEW n, NEW i
  PROVE  <<n, i>> \in Remotes <=> n \in Device /\ i \in Index(n) /\ IsRemote(n, i)
BY DEF Remotes

LEMMA OrderSendable ==
  ASSUME NEW n \in Device, NEW i \in Index(n), IsRemote(n, i), NEW b
  PROVE  SetReq("switch", Entity[n][i].target, OnOff(b))
           \in Carried(<<n, Entity[n][i].addr>>)
<1> DEFINE r == <<n, i>>  m == Entity[n][i].addr
<1>1. OnOff(b) \in {0, 10}
  BY DEF OnOff
<1>2. r \in Toward(<<n, m>>) /\ Goal(r) = Entity[n][i].target
  BY RemoteIs DEF Toward, Home, Goal
<1>3. SetReq("switch", Goal(r), OnOff(b)) \in Orders(<<n, m>>)
  BY <1>1, <1>2 DEF Orders
<1> QED
  BY <1>2, <1>3 DEF Carried

(* What a command to a remote switch sends first. *)
OrderOut(n, i, b) ==
  IF IsRemote(n, i)
  THEN To(Entity[n][i].addr, SetReq("switch", Entity[n][i].target, OnOff(b)))
  ELSE Nothing

LEMMA CommandSendable ==
  ASSUME DirectConstants, NEW n \in Device, NEW i \in Index(n),
         Entity[n][i].type = "switch", NEW b
  PROVE  /\ Sendable(n, OrderOut(n, i, b)) /\ Sendable(n, PublishOut(n, i, b))
         /\ Sendable(n, CommandOut(n, i, b))
         /\ \A x \in Device :
              CommandOut(n, i, b)[x] = OrderOut(n, i, b)[x] \o PublishOut(n, i, b)[x]
<1>1. Sendable(n, OrderOut(n, i, b))
  <2>1. CASE IsRemote(n, i)
    BY <2>1, OrderSendable, ToSendable DEF OrderOut
  <2>2. CASE ~IsRemote(n, i)
    BY <2>2, NothingSendable DEF OrderOut
  <2> QED
    BY <2>1, <2>2
<1>2. Sendable(n, PublishOut(n, i, b))
  BY PublishSendable
<1>3. CommandOut(n, i, b) = Then(OrderOut(n, i, b), PublishOut(n, i, b))
  BY DEF CommandOut, OrderOut
<1> DEFINE o == OrderOut(n, i, b)  p == PublishOut(n, i, b)
<1>4. Sendable(n, Then(o, p)) /\ \A x \in Device : Then(o, p)[x] = o[x] \o p[x]
  <2>1. Sendable(n, o) /\ Sendable(n, p)
    BY <1>1, <1>2
  <2> HIDE DEF o, p
  <2>2. Sendable(n, Then(o, p))
    BY <2>1, ThenSendable
  <2>3. ASSUME NEW x \in Device PROVE Then(o, p)[x] = o[x] \o p[x]
    BY DEF Then
  <2> QED
    BY <2>2, <2>3
<1> QED
  BY <1>1, <1>2, <1>3, <1>4

LEMMA SentCarries ==
  ASSUME NEW nw, Carries(nw), NEW n \in Device, NEW out, Sendable(n, out)
  PROVE  /\ Carries(Sent(nw, n, out))
         /\ \A y \in Device : Sent(nw, n, out)[<<n, y>>] = nw[<<n, y>>] \o out[y]
         /\ \A x \in Device, y \in Device :
              x # n => Sent(nw, n, out)[<<x, y>>] = nw[<<x, y>>]
<1> DEFINE nx == Sent(nw, n, out)
<1>1. /\ DOMAIN nx = Links
      /\ \A y \in Device : nx[<<n, y>>] = nw[<<n, y>>] \o out[y]
      /\ \A x \in Device, y \in Device : x # n => nx[<<x, y>>] = nw[<<x, y>>]
  BY DEF Sent, Links
<1> HIDE DEF nx
<1>2. ASSUME NEW x \in Device, NEW y \in Device
      PROVE  nx[<<x, y>>] \in Seq(Carried(<<x, y>>))
  <2> DEFINE l == <<x, y>>  S == Carried(l)
  <2>1. nw[l] \in Seq(S)
    BY DEF Carries, Links
  <2>2. CASE x = n
    <3>1. nx[l] = nw[l] \o out[y]
      BY <1>1, <2>2
    <3>2. out[y] \in Seq(S)
      BY <2>2 DEF Sendable
    <3> HIDE DEF S, l
    <3>3. nw[l] \o out[y] \in Seq(S)
      BY <2>1, <3>2, Joined
    <3> QED
      BY <3>1, <3>3 DEF S, l
  <2>3. CASE x # n
    BY <1>1, <2>1, <2>3
  <2> QED
    BY <2>2, <2>3
<1>3. Carries(nx)
  <2>1. \A l \in Links : \E x \in Device, y \in Device : l = <<x, y>>
    BY DEF Links
  <2> QED
    BY <1>1, <1>2, <2>1 DEF Carries
<1> QED
  BY <1>1, <1>3 DEF nx

After(s, o) == s \o o

(* A frame is taken from its link and the answers follow what the other    *)
(* links already carry.                                                    *)
LEMMA Answered ==
  ASSUME Carries(net), NEW n \in Device, NEW m \in Device, NEW out, Sendable(n, out),
         net[<<m, n>>] # <<>>, Answer(n, m, out)
  PROVE  /\ Carries(net')
         /\ m # n => net'[<<m, n>>] = Tail(net[<<m, n>>])
         /\ \A y \in Device : m # n \/ y # n => net'[<<n, y>>] = After(net[<<n, y>>], out[y])
         /\ \A x \in Device, y \in Device :
              x # n /\ (x # m \/ y # n) => net'[<<x, y>>] = net[<<x, y>>]
<1> DEFINE nw == [net EXCEPT ![<<m, n>>] = Tail(@)]
<1>1. /\ DOMAIN nw = Links /\ nw[<<m, n>>] = Tail(net[<<m, n>>])
      /\ \A l \in Links : l # <<m, n>> => nw[l] = net[l]
  BY DEF Carries, Links
<1>2. net' = Sent(nw, n, out)
  BY DEF Answer
<1> HIDE DEF nw
<1>3. Tail(net[<<m, n>>]) \in Seq(Carried(<<m, n>>))
  <2> DEFINE S == Carried(<<m, n>>)  s == net[<<m, n>>]
  <2>1. s \in Seq(S) /\ s # <<>>
    BY DEF Carries, Links
  <2> HIDE DEF S, s
  <2>2. Tail(s) \in Seq(S)
    BY <2>1, Tailed
  <2> QED
    BY <2>2 DEF S, s
<1>4. Carries(nw)
  BY <1>1, <1>3 DEF Carries
<1>5. /\ \A y \in Device : Sent(nw, n, out)[<<n, y>>] = nw[<<n, y>>] \o out[y]
      /\ \A x \in Device, y \in Device :
           x # n => Sent(nw, n, out)[<<x, y>>] = nw[<<x, y>>]
  BY DEF Sent
<1>7. Carries(Sent(nw, n, out))
  BY <1>4, SentCarries
<1>6. \A x \in Device, y \in Device : x # m \/ y # n => nw[<<x, y>>] = net[<<x, y>>]
  BY <1>1 DEF Links
<1> QED
  BY <1>1, <1>2, <1>5, <1>6, <1>7 DEF After

-----------------------------------------------------------------------------
(* What is true of a remote switch r whose requests w are under way to its *)
(* target, whose answers and publications c are under way back, whose own  *)
(* state is x and whose target's is y; M are the remote switches whose     *)
(* query is due, P the spoiled ones.                                       *)

Qry(r) == {GetReq(Goal(r))}
Ord(r) == {SetReq("switch", Goal(r), v) : v \in {0, 10}}
Tell(r) == {GetRep(1, Goal(r), v) : v \in {0, 1}} \cup {PubReq(Own(r), v) : v \in {0, 10}}

(* A target that publishes: the last word under way to r is the target's   *)
(* state, and if there is none, r agrees with the target, or is about to   *)
(* ask, or has asked, or has last ordered its own state.                   *)
MirrorAt(r, w, c, x, y, M) ==
  /\ Has(c, Tell(r)) => Final(c, Tell(r), y)
  /\ ~Has(c, Tell(r)) => \/ r \in M \/ Has(w, Qry(r))
                         \/ Has(w, Ord(r)) /\ Final(w, Ord(r), x)
                         \/ (x = 1 <=> y = 1)

(* A target that does not: while the query or its answer is under way      *)
(* nothing is ordered after the query; an answer that no query follows is  *)
(* the target's state; and after it r has last ordered its own state, or   *)
(* agrees with the target.                                                 *)
CopyAt(r, w, c, x, y, M, P) ==
  r \notin M /\ r \notin P =>
    /\ Has(w, Qry(r)) \/ Has(c, Tell(r)) => Followed(w, Ord(r), Qry(r))
    /\ ~Has(w, Qry(r)) /\ Has(c, Tell(r)) => Final(c, Tell(r), y)
    /\ ~Has(w, Qry(r)) /\ ~Has(c, Tell(r)) =>
         /\ Has(w, Ord(r)) => Final(w, Ord(r), x)
         /\ ~Has(w, Ord(r)) => (x = 1 <=> y = 1)

ShownAt(r, w, c, x, y, M, P) ==
  /\ Mirrored(r) => MirrorAt(r, w, c, x, y, M)
  /\ ~Mirrored(r) => CopyAt(r, w, c, x, y, M, P)

(* Nothing that matters to r happens to the requests, or to the answers. *)
SameRequests(r, w, w2) ==
  /\ Has(w2, Qry(r)) <=> Has(w, Qry(r))
  /\ Has(w2, Ord(r)) <=> Has(w, Ord(r))
  /\ \A x : Final(w, Ord(r), x) => Final(w2, Ord(r), x)
  /\ Followed(w, Ord(r), Qry(r)) => Followed(w2, Ord(r), Qry(r))
SameAnswers(r, c, c2) ==
  /\ Has(c2, Tell(r)) <=> Has(c, Tell(r))
  /\ \A y : Final(c, Tell(r), y) => Final(c2, Tell(r), y)

LEMMA FinalSame ==
  ASSUME NEW s, NEW F, NEW x, NEW x2, x = 1 <=> x2 = 1, Final(s, F, x)
  PROVE  Final(s, F, x2)
BY DEF Final

(* The ways a step can touch r.  Not at all: *)
LEMMA StepStill ==
  ASSUME NEW r, NEW w, NEW c, NEW x, NEW y, NEW M, NEW P,
         NEW w2, NEW c2, NEW x2, NEW y2, NEW M2, NEW P2,
         ShownAt(r, w, c, x, y, M, P),
         SameRequests(r, w, w2), SameAnswers(r, c, c2), x2 = x, y2 = y,
         r \in M <=> r \in M2, r \in P => r \in P2
  PROVE  ShownAt(r, w2, c2, x2, y2, M2, P2)
<1>1. ASSUME Mirrored(r) PROVE MirrorAt(r, w2, c2, x2, y2, M2)
  BY <1>1 DEF ShownAt, MirrorAt, SameRequests, SameAnswers
<1>2. ASSUME ~Mirrored(r) PROVE CopyAt(r, w2, c2, x2, y2, M2, P2)
  BY <1>2 DEF ShownAt, CopyAt, SameRequests, SameAnswers
<1> QED
  BY <1>1, <1>2 DEF ShownAt

(* It sends its query. *)
LEMMA StepAsks ==
  ASSUME NEW r, NEW w, NEW c, NEW x, NEW y, NEW M, NEW P,
         NEW w2, NEW M2, NEW P2,
         ShownAt(r, w, c, x, y, M, P),
         Has(w2, Qry(r)), Followed(w2, Ord(r), Qry(r))
  PROVE  ShownAt(r, w2, c, x, y, M2, P2)
BY DEF ShownAt, MirrorAt, CopyAt

(* It is written and sends the order. *)
LEMMA StepWrites ==
  ASSUME NEW r, NEW w, NEW c, NEW x, NEW y, NEW M, NEW P,
         NEW w2, NEW c2, NEW x2, NEW P2,
         ShownAt(r, w, c, x, y, M, P),
         Has(w2, Ord(r)), Final(w2, Ord(r), x2), Has(w2, Qry(r)) <=> Has(w, Qry(r)),
         SameAnswers(r, c, c2), r \in P => r \in P2,
         ~Mirrored(r) /\ (Has(w, Qry(r)) \/ Has(c, Tell(r))) => r \in P2
  PROVE  ShownAt(r, w2, c2, x2, y, M, P2)
<1>1. ASSUME Mirrored(r) PROVE MirrorAt(r, w2, c2, x2, y, M)
  BY <1>1 DEF ShownAt, MirrorAt, SameAnswers
<1>2. ASSUME ~Mirrored(r) PROVE CopyAt(r, w2, c2, x2, y, M, P2)
  BY <1>2 DEF ShownAt, CopyAt, SameAnswers
<1> QED
  BY <1>1, <1>2 DEF ShownAt

(* Its target changes, and tells it if it publishes. *)
LEMMA StepTold ==
  ASSUME NEW r, NEW w2, NEW c2, NEW x2, NEW y2, NEW M2, NEW P2,
         Mirrored(r) => Has(c2, Tell(r)) /\ Final(c2, Tell(r), y2),
         ~Mirrored(r) => r \in P2
  PROVE  ShownAt(r, w2, c2, x2, y2, M2, P2)
BY DEF ShownAt, MirrorAt, CopyAt

(* Its target obeys its order. *)
LEMMA StepObeys ==
  ASSUME NEW r, NEW S, NEW w \in Seq(S), NEW c, NEW x, NEW y, NEW M, NEW P,
         NEW c2, NEW y2, NEW P2,
         ShownAt(r, w, c, x, y, M, P),
         w # <<>>, Head(w) \in Ord(r), Head(w) \notin Qry(r),
         Head(w).val > 0 <=> y2 = 1, r \in P => r \in P2,
         Mirrored(r) => \/ Has(c2, Tell(r)) /\ Final(c2, Tell(r), y2)
                        \/ y2 = y /\ SameAnswers(r, c, c2),
         ~Mirrored(r) => SameAnswers(r, c, c2)
  PROVE  ShownAt(r, Tail(w), c2, x, y2, M, P2)
<1> DEFINE w2 == Tail(w)
<1>1. /\ Has(w2, Qry(r)) <=> Has(w, Qry(r))
      /\ Has(w, Ord(r)) /\ (Has(w2, Ord(r)) => Has(w, Ord(r)))
      /\ Followed(w, Ord(r), Qry(r)) => Followed(w2, Ord(r), Qry(r))
  <2>1. Has(w, Ord(r))
    BY Tailed DEF Has
  <2> QED
    BY <2>1, HasTail, FollowedTail
<1>2. Final(w, Ord(r), x) => Final(w2, Ord(r), x) /\ (~Has(w2, Ord(r)) => (x = 1 <=> y2 = 1))
  BY FinalTail, FinalHead
<1>3. Followed(w, Ord(r), Qry(r)) => Has(w, Qry(r))
  BY <1>1, FollowedNone
<1> HIDE DEF w2
<1>4. ASSUME Mirrored(r) PROVE MirrorAt(r, w2, c2, x, y2, M)
  BY <1>1, <1>2, <1>4 DEF ShownAt, MirrorAt, SameAnswers
<1>5. ASSUME ~Mirrored(r) PROVE CopyAt(r, w2, c2, x, y2, M, P2)
  BY <1>1, <1>2, <1>3, <1>5 DEF ShownAt, CopyAt, SameAnswers
<1> QED
  BY <1>4, <1>5 DEF ShownAt, w2

(* Its target answers its query. *)
LEMMA StepAnswers ==
  ASSUME NEW r, NEW S, NEW w \in Seq(S), NEW c, NEW x, NEW y, NEW M, NEW P, NEW c2,
         ShownAt(r, w, c, x, y, M, P),
         w # <<>>, Head(w) \in Qry(r), Has(c2, Tell(r)), Final(c2, Tell(r), y)
  PROVE  ShownAt(r, Tail(w), c2, x, y, M, P)
<1>1. Has(w, Qry(r))
  BY Tailed DEF Has
<1>2. Followed(w, Ord(r), Qry(r)) => Followed(Tail(w), Ord(r), Qry(r))
  BY FollowedTail
<1> QED
  BY <1>1, <1>2 DEF ShownAt, MirrorAt, CopyAt

(* It hears of its target. *)
LEMMA StepHears ==
  ASSUME NEW r, NEW S, NEW c \in Seq(S), NEW w, NEW x, NEW y, NEW M, NEW P,
         NEW w2, NEW x2, NEW P2,
         ShownAt(r, w, c, x, y, M, P), SameRequests(r, w, w2),
         c # <<>>, Head(c) \in Tell(r), Head(c).val > 0 <=> x2 = 1, r \in P => r \in P2
  PROVE  ShownAt(r, w2, Tail(c), x2, y, M, P2)
<1> DEFINE c2 == Tail(c)
<1>1. Has(c, Tell(r))
  BY Tailed DEF Has
<1>2. Final(c, Tell(r), y) => Final(c2, Tell(r), y) /\ (~Has(c2, Tell(r)) => (x2 = 1 <=> y = 1))
  BY FinalTail, FinalHead
<1>3. Followed(w, Ord(r), Qry(r)) /\ ~Has(w, Qry(r)) => ~Has(w, Ord(r))
  BY FollowedNone
<1> HIDE DEF c2
<1>4. ASSUME Mirrored(r) PROVE MirrorAt(r, w2, c2, x2, y, M)
  BY <1>1, <1>2, <1>4 DEF ShownAt, MirrorAt
<1>5. ASSUME ~Mirrored(r) PROVE CopyAt(r, w2, c2, x2, y, M, P2)
  BY <1>1, <1>2, <1>3, <1>5 DEF ShownAt, CopyAt, SameRequests
<1> QED
  BY <1>4, <1>5 DEF ShownAt, c2

(* Its node restarts. *)
LEMMA StepRestarts ==
  ASSUME NEW r, NEW w, NEW x2, NEW y, NEW M2, NEW P, r \in M2
  PROVE  ShownAt(r, w, <<>>, x2, y, M2, P)
<1>1. ~Has(<<>>, Tell(r))
  BY DEF Has
<1> QED
  BY <1>1 DEF ShownAt, MirrorAt, CopyAt

-----------------------------------------------------------------------------
(* The two ends of a remote switch and the frames that matter to it.       *)

(* The remote switches the property is about. *)
Linked(r) == r \in Remotes /\ TargetOf(r)[2] # 0 /\ Distinct(r)
Place(r) == TargetOf(r)[2]

LEMMA Ends ==
  ASSUME DirectConstants, Wired, NEW r, Linked(r)
  PROVE  /\ r = <<r[1], r[2]>> /\ r \in Remotes
         /\ r[1] \in Device /\ r[2] \in Index(r[1]) /\ IsRemote(r[1], r[2])
         /\ Entity[r[1]][r[2]].type = "switch"
         /\ Home(r) \in Device /\ Home(r) # r[1] /\ r[1] # Hub
         /\ TargetOf(r) = <<Home(r), Place(r)>>
         /\ FindEntity(Home(r), "switch", Goal(r)) = Place(r) /\ Place(r) # 0
         /\ Place(r) \in Index(Home(r))
         /\ Entity[Home(r)][Place(r)].type = "switch"
         /\ Entity[Home(r)][Place(r)].hash = Goal(r)
         /\ FindEntity(r[1], "switch", Own(r)) = r[2]
<1>1. /\ r \in Remotes /\ r = <<r[1], r[2]>> /\ r[1] \in Device /\ r[2] \in Index(r[1])
      /\ IsRemote(r[1], r[2])
  BY DEF Linked, Remotes
<1>2. Entity[r[1]][r[2]].type = "switch" /\ Home(r) # NoDevice
  BY <1>1 DEF IsRemote, Home
<1>3. Home(r) \in Device
  BY <1>1, <1>2, Entities DEF Home
<1>4. Home(r) # r[1] /\ r[1] # Hub /\ FindEntity(r[1], "switch", Own(r)) = r[2]
  BY <1>1 DEF Wired, Home, Own
<1>5. /\ TargetOf(r) = <<Home(r), Place(r)>> /\ Place(r) # 0
      /\ FindEntity(Home(r), "switch", Goal(r)) = Place(r)
  BY DEF TargetOf, Place, Home, Goal, Linked
<1>6. /\ Place(r) \in Index(Home(r)) /\ Entity[Home(r)][Place(r)].type = "switch"
      /\ Entity[Home(r)][Place(r)].hash = Goal(r)
  BY <1>3, <1>5, Found
<1> QED
  BY <1>1, <1>2, <1>3, <1>4, <1>5, <1>6

(* Of the remote switches of its node, r alone stands for its target's hash. *)
LEMMA Alone ==
  ASSUME NEW r, Linked(r), NEW q \in Remotes, q[1] = r[1], Goal(q) = Goal(r)
  PROVE  q = r
BY DEF Linked, Distinct, Goal

(* A request of r's node to its target's node. *)
LEMMA Requests ==
  ASSUME DirectConstants, Wired, NEW r, Linked(r), NEW f \in Carried(<<r[1], Home(r)>>)
  PROVE  /\ f \in Qry(r) <=> f.cmd = "GET_ENTITY_STATE_REQ" /\ f.hash = Goal(r)
         /\ f \in Ord(r) <=> /\ f.cmd = "SET_ENTITY_STATE_REQ" /\ f.type = "switch"
                             /\ f.hash = Goal(r)
         /\ f \in Qry(r) => f.type = "switch"
         /\ f \in Ord(r) => f.val \in {0, 10}
<1> DEFINE l == <<r[1], Home(r)>>
<1>1. r[1] # Hub /\ r \in Remotes
  BY Ends
<1>2. f \notin Questions(l)
  BY <1>1 DEF Questions
<1>3. f.cmd = "GET_ENTITY_STATE_REQ" => f \in Queries(l)
  BY <1>2, Causes
<1>4. f.cmd = "SET_ENTITY_STATE_REQ" => f \in Orders(l)
  BY <1>2, Causes
<1>5. \A q \in Toward(l) : q \in Remotes /\ q[1] = r[1]
  BY DEF Toward
<1>6. ASSUME f.cmd = "GET_ENTITY_STATE_REQ", f.hash = Goal(r) PROVE f \in Qry(r)
  <2>1. PICK q \in Toward(l) : f = GetReq(Goal(q))
    BY <1>3, <1>6 DEF Queries
  <2>2. Goal(q) = Goal(r)
    BY <1>6, <2>1 DEF GetReq
  <2> QED
    BY <2>1, <2>2 DEF Qry
<1>7. ASSUME f.cmd = "SET_ENTITY_STATE_REQ", f.hash = Goal(r) PROVE f \in Ord(r)
  <2>1. PICK q \in Toward(l), v \in {0, 10} : f = SetReq("switch", Goal(q), v)
    BY <1>4, <1>7 DEF Orders
  <2>2. Goal(q) = Goal(r)
    BY <1>7, <2>1 DEF SetReq
  <2> QED
    BY <2>1, <2>2 DEF Ord
<1>8. ASSUME f \in Qry(r)
      PROVE  f.cmd = "GET_ENTITY_STATE_REQ" /\ f.hash = Goal(r) /\ f.type = "switch"
  BY <1>8 DEF Qry, GetReq
<1>9. ASSUME f \in Ord(r)
      PROVE  /\ f.cmd = "SET_ENTITY_STATE_REQ" /\ f.hash = Goal(r) /\ f.type = "switch"
             /\ f.val \in {0, 10}
  BY <1>9 DEF Ord, SetReq
<1> QED
  BY <1>6, <1>7, <1>8, <1>9

(* A frame that tells r's node something r would take comes from r's       *)
(* target.                                                                 *)
LEMMA Tellers ==
  ASSUME DirectConstants, Wired, NEW r, Linked(r), NEW s \in Device,
         NEW f \in Carried(<<s, r[1]>>)
  PROVE  /\ f.cmd = "GET_ENTITY_STATE_REP" /\ f.value_type = 1 /\ f.hash = Goal(r)
              => s = Home(r) /\ f \in Tell(r) /\ f.val \in {0, 1}
         /\ f.cmd = "PUB_ENTITY_STATE_REQ" /\ f.hash = Own(r)
              => s = Home(r) /\ f \in Tell(r) /\ f.val \in {0, 10} /\ Mirrored(r)
<1> DEFINE l == <<s, r[1]>>
<1>1. r[1] # Hub /\ r \in Remotes /\ r[1] \in Device /\ r[2] \in Index(r[1])
  BY Ends
<1>2. ASSUME f.cmd = "GET_ENTITY_STATE_REP", f.value_type = 1, f.hash = Goal(r)
      PROVE  s = Home(r) /\ f \in Tell(r) /\ f.val \in {0, 1}
  <2>1. f \in Answers(l) \cup Values(l)
    BY <1>2, Causes
  <2>2. f \notin Values(l)
    BY <1>1 DEF Values
  <2>3. PICK q \in Toward(<<r[1], s>>), v \in {0, 1} : f = GetRep(1, Goal(q), v)
    BY <2>1, <2>2 DEF Answers
  <2>4. Goal(q) = Goal(r) /\ f.val = v
    BY <1>2, <2>3 DEF GetRep
  <2>5. q \in Remotes /\ q[1] = r[1] /\ Home(q) = s
    BY <2>3 DEF Toward
  <2>6. q = r
    BY <2>4, <2>5, Alone
  <2> QED
    BY <2>3, <2>4, <2>5, <2>6 DEF Tell
<1>3. ASSUME f.cmd = "PUB_ENTITY_STATE_REQ", f.hash = Own(r)
      PROVE  s = Home(r) /\ f \in Tell(r) /\ f.val \in {0, 10} /\ Mirrored(r)
  <2>1. f \in Publications(l)
    BY <1>3, Causes
  <2>2. PICK k \in Publishers(l), v \in {0, 10} : f = PubReq(Entity[s][k].pub[2], v)
    BY <2>1 DEF Publications
  <2>3. Entity[s][k].pub[2] = Own(r) /\ f.val = v
    BY <1>3, <2>2 DEF PubReq
  <2>4. /\ k \in Index(s) /\ Entity[s][k].type = "switch" /\ Entity[s][k].pub # <<>>
        /\ Entity[s][k].pub[1] = r[1]
    BY <2>2 DEF Publishers
  <2>5. Entity[s][k].pub \in Device \X Nat
    BY <2>4, Entities
  <2>6. Entity[s][k].pub = <<r[1], Own(r)>>
    BY <2>3, <2>4, <2>5
  <2>7. TargetOf(r) = <<s, k>>
    BY <1>1, <2>4, <2>6 DEF Wired, Own
  <2>8. Mirrored(r)
    BY <2>6, <2>7, Ends DEF Mirrored, Own, Place
  <2>9. s = Home(r)
    BY <2>7, Ends
  <2> QED
    BY <2>2, <2>3, <2>8, <2>9 DEF Tell
<1> QED
  BY <1>2, <1>3

LEMMA Telling ==
  ASSUME NEW r, NEW f \in Tell(r)
  PROVE  \/ f.cmd = "GET_ENTITY_STATE_REP" /\ f.value_type = 1 /\ f.hash = Goal(r)
         \/ f.cmd = "PUB_ENTITY_STATE_REQ" /\ f.type = "switch" /\ f.hash = Own(r)
<1>1. \A v : GetRep(1, Goal(r), v).cmd = "GET_ENTITY_STATE_REP"
             /\ GetRep(1, Goal(r), v).value_type = 1 /\ GetRep(1, Goal(r), v).hash = Goal(r)
  BY DEF GetRep
<1>2. \A v : PubReq(Own(r), v).cmd = "PUB_ENTITY_STATE_REQ"
             /\ PubReq(Own(r), v).type = "switch" /\ PubReq(Own(r), v).hash = Own(r)
  BY DEF PubReq
<1> QED
  BY <1>1, <1>2 DEF Tell

-----------------------------------------------------------------------------
(* What does not matter to a remote switch.                                *)

LEMMA RequestsJoined ==
  ASSUME NEW r, NEW S, NEW w \in Seq(S), NEW o \in Seq(S),
         ~Has(o, Qry(r)), ~Has(o, Ord(r))
  PROVE  SameRequests(r, w, w \o o)
<1>1. Has(w \o o, Qry(r)) <=> Has(w, Qry(r))
  BY HasJoined
<1>2. Has(w \o o, Ord(r)) <=> Has(w, Ord(r))
  BY HasJoined
<1>3. \A x : Final(w, Ord(r), x) => Final(w \o o, Ord(r), x)
  BY FinalOld
<1>4. Followed(w, Ord(r), Qry(r)) => Followed(w \o o, Ord(r), Qry(r))
  BY FollowedOld
<1> QED
  BY <1>1, <1>2, <1>3, <1>4 DEF SameRequests

LEMMA RequestsTail ==
  ASSUME NEW r, NEW S, NEW w \in Seq(S), w # <<>>,
         Head(w) \notin Qry(r), Head(w) \notin Ord(r)
  PROVE  SameRequests(r, w, Tail(w))
<1>1. Has(Tail(w), Qry(r)) <=> Has(w, Qry(r))
  BY HasTail
<1>2. Has(Tail(w), Ord(r)) <=> Has(w, Ord(r))
  BY HasTail
<1>3. \A x : Final(w, Ord(r), x) => Final(Tail(w), Ord(r), x)
  BY FinalTail
<1>4. Followed(w, Ord(r), Qry(r)) => Followed(Tail(w), Ord(r), Qry(r))
  BY FollowedTail
<1> QED
  BY <1>1, <1>2, <1>3, <1>4 DEF SameRequests

LEMMA AnswersJoined ==
  ASSUME NEW r, NEW S, NEW c \in Seq(S), NEW o \in Seq(S), ~Has(o, Tell(r))
  PROVE  SameAnswers(r, c, c \o o)
<1>1. Has(c \o o, Tell(r)) <=> Has(c, Tell(r))
  BY HasJoined
<1>2. \A x : Final(c, Tell(r), x) => Final(c \o o, Tell(r), x)
  BY FinalOld
<1> QED
  BY <1>1, <1>2 DEF SameAnswers

LEMMA AnswersTail ==
  ASSUME NEW r, NEW S, NEW c \in Seq(S), c # <<>>, Head(c) \notin Tell(r)
  PROVE  SameAnswers(r, c, Tail(c))
<1>1. Has(Tail(c), Tell(r)) <=> Has(c, Tell(r))
  BY HasTail
<1>2. \A x : Final(c, Tell(r), x) => Final(Tail(c), Tell(r), x)
  BY FinalTail
<1> QED
  BY <1>1, <1>2 DEF SameAnswers

LEMMA SameSame ==
  ASSUME NEW r, NEW w, NEW c
  PROVE  SameRequests(r, w, w) /\ SameAnswers(r, c, c)
BY DEF SameRequests, SameAnswers

(* What a sends holds nothing that matters to r. *)
Mute(r, a, out) ==
  /\ a = r[1] => ~Has(out[Home(r)], Qry(r)) /\ ~Has(out[Home(r)], Ord(r))
  /\ a = Home(r) => ~Has(out[r[1]], Tell(r))

LEMMA HasNone ==
  ASSUME NEW F
  PROVE  ~Has(<<>>, F) /\ \A f : Has(<<f>>, F) <=> f \in F
BY DEF Has

LEMMA FinalOne ==
  ASSUME NEW F, NEW f, NEW x, f.val > 0 <=> x = 1
  PROVE  Final(<<f>>, F, x)
BY DEF Final

LEMMA MuteNothing ==
  ASSUME DirectConstants, Wired, NEW r, Linked(r), NEW a
  PROVE  Mute(r, a, Nothing)
BY Ends, NothingSendable, HasNone DEF Mute

LEMMA MuteTo ==
  ASSUME DirectConstants, Wired, NEW r, Linked(r), NEW a, NEW m, NEW f,
         m \in Device => f \in Carried(<<a, m>>),
         a = r[1] /\ m = Home(r) => f \notin Qry(r) /\ f \notin Ord(r),
         a = Home(r) /\ m = r[1] => f \notin Tell(r)
  PROVE  Mute(r, a, To(m, f))
<1>1. \A x \in Device : To(m, f)[x] = IF x = m THEN <<f>> ELSE <<>>
  BY ToSendable
<1>2. r[1] \in Device /\ Home(r) \in Device
  BY Ends
<1> QED
  BY <1>1, <1>2, HasNone DEF Mute

LEMMA MuteThen ==
  ASSUME DirectConstants, Wired, NEW r, Linked(r), NEW a,
         NEW first, NEW second, Sendable(a, first), Sendable(a, second),
         Mute(r, a, first), Mute(r, a, second)
  PROVE  Mute(r, a, Then(first, second))
<1>1. r[1] \in Device /\ Home(r) \in Device
  BY Ends
<1>2. ASSUME NEW x \in Device, NEW F, ~Has(first[x], F), ~Has(second[x], F)
      PROVE  ~Has(Then(first, second)[x], F)
  <2> DEFINE S == Carried(<<a, x>>)  p == first[x]  q == second[x]
  <2>1. p \in Seq(S) /\ q \in Seq(S) /\ Then(first, second)[x] = p \o q
    BY DEF Sendable, Then
  <2>2. ~Has(p, F) /\ ~Has(q, F)
    BY <1>2
  <2> HIDE DEF S, p, q
  <2>3. ~Has(p \o q, F)
    BY <2>1, <2>2, HasJoined
  <2> QED
    BY <2>1, <2>3
<1> QED
  BY <1>1, <1>2 DEF Mute

(* A frame by its command. *)
LEMMA Dull ==
  ASSUME NEW r, NEW f
  PROVE  /\ f \in Qry(r) => f.cmd = "GET_ENTITY_STATE_REQ"
         /\ f \in Ord(r) => f.cmd = "SET_ENTITY_STATE_REQ"
         /\ f \in Tell(r) => \/ f.cmd = "GET_ENTITY_STATE_REP" /\ f.value_type = 1
                             \/ f.cmd = "PUB_ENTITY_STATE_REQ"
<1>1. f \in Qry(r) => f.cmd = "GET_ENTITY_STATE_REQ"
  BY DEF Qry, GetReq
<1>2. f \in Ord(r) => f.cmd = "SET_ENTITY_STATE_REQ"
  BY DEF Ord, SetReq
<1> QED
  BY <1>1, <1>2, Telling

LEMMA OnOffIs ==
  ASSUME NEW b \in 0 .. 1
  PROVE  OnOff(b) \in {0, 10} /\ (OnOff(b) > 0 <=> b = 1)
BY DEF OnOff

(* Only a change of r's target that publishes it tells r. *)
LEMMA PublishMute ==
  ASSUME DirectConstants, Wired, NEW r, Linked(r), NEW a \in Device, NEW k \in Index(a),
         Entity[a][k].type = "switch", NEW b,
         ~(a = Home(r) /\ k = Place(r) /\ Mirrored(r) /\ state[a][k] # b)
  PROVE  Mute(r, a, PublishOut(a, k, b))
<1>1. CASE state[a][k] # b /\ Entity[a][k].pub # <<>>
  <2> DEFINE m == Entity[a][k].pub[1]  f == PubReq(Entity[a][k].pub[2], OnOff(b))
  <2>1. Entity[a][k].pub \in Device \X Nat
    BY <1>1, Entities
  <2>2. f.cmd = "PUB_ENTITY_STATE_REQ" /\ f.hash = Entity[a][k].pub[2]
    BY DEF PubReq
  <2>3. f \in Carried(<<a, m>>)
    <3>1. OnOff(b) \in {0, 10}
      BY DEF OnOff
    <3>2. k \in Publishers(<<a, m>>)
      BY <1>1 DEF Publishers
    <3>3. f \in Publications(<<a, m>>)
      BY <3>1, <3>2 DEF Publications
    <3> QED
      BY <3>3 DEF Carried
  <2>4. PublishOut(a, k, b) = To(m, f)
    BY <1>1 DEF PublishOut
  <2>5. a = Home(r) /\ m = r[1] => f \notin Tell(r)
    <3> SUFFICES ASSUME a = Home(r), m = r[1], f \in Tell(r) PROVE FALSE
      OBVIOUS
    <3>1. f.hash = Own(r)
      BY <2>2, Telling
    <3>2. Entity[a][k].pub = <<r[1], Own(r)>>
      <4>1. \A p \in Device \X Nat : p = <<p[1], p[2]>>
        OBVIOUS
      <4>2. Entity[a][k].pub[1] = r[1] /\ Entity[a][k].pub[2] = Own(r)
        BY <2>2, <3>1
      <4> QED
        BY <2>1, <4>1, <4>2
    <3>3. TargetOf(r) = <<a, k>>
      BY <3>2, Ends DEF Wired, Own
    <3>4. k = Place(r)
      BY <3>3 DEF Place
    <3>5. Mirrored(r)
      BY <3>2, <3>3, Ends DEF Mirrored, Own
    <3> QED
      BY <1>1, <3>4, <3>5
  <2>6. f \notin Qry(r) /\ f \notin Ord(r)
    BY <2>2, Dull
  <2> HIDE DEF m, f
  <2> QED
    BY <2>3, <2>4, <2>5, <2>6, MuteTo
<1>2. CASE ~(state[a][k] # b /\ Entity[a][k].pub # <<>>)
  BY <1>2, MuteNothing DEF PublishOut
<1> QED
  BY <1>1, <1>2

LEMMA PublishTells ==
  ASSUME DirectConstants, Wired, NEW r, Linked(r), Mirrored(r), NEW b \in 0 .. 1,
         state[Home(r)][Place(r)] # b
  PROVE  LET o == PublishOut(Home(r), Place(r), b)[r[1]] IN
         Has(o, Tell(r)) /\ Final(o, Tell(r), b)
<1> DEFINE f == PubReq(Own(r), OnOff(b))  o == PublishOut(Home(r), Place(r), b)[r[1]]
<1>1. Entity[Home(r)][Place(r)].pub = <<r[1], Own(r)>>
  BY Ends DEF Mirrored, Own
<1>2. PublishOut(Home(r), Place(r), b) = To(r[1], f)
  BY <1>1 DEF PublishOut
<1>3. o = <<f>>
  BY <1>2, Ends DEF To
<1>4. f \in Tell(r) /\ (f.val > 0 <=> b = 1)
  BY OnOffIs DEF Tell, PubReq
<1> HIDE DEF f, o
<1>5. Has(o, Tell(r)) /\ Final(o, Tell(r), b)
  BY <1>3, <1>4, HasNone, FinalOne
<1> QED
  BY <1>5 DEF o

(* Only a command to r itself orders what r's commands order. *)
LEMMA OrderMute ==
  ASSUME DirectConstants, Wired, NEW r, Linked(r), NEW a \in Device, NEW k \in Index(a),
         <<a, k>> # r, NEW b
  PROVE  Mute(r, a, OrderOut(a, k, b))
<1>1. CASE IsRemote(a, k)
  <2> DEFINE m == Entity[a][k].addr  f == SetReq("switch", Entity[a][k].target, OnOff(b))
  <2>1. f \in Carried(<<a, m>>)
    BY <1>1, OrderSendable
  <2>2. f.cmd = "SET_ENTITY_STATE_REQ" /\ f.hash = Entity[a][k].target
    BY DEF SetReq
  <2>3. f \notin Qry(r) /\ f \notin Tell(r)
    BY <2>2, Dull
  <2>4. a = r[1] /\ m = Home(r) => f \notin Ord(r)
    <3> SUFFICES ASSUME a = r[1], m = Home(r), f \in Ord(r) PROVE FALSE
      OBVIOUS
    <3>1. f.hash = Goal(r)
      BY <2>1, Requests
    <3>2. <<a, k>> \in Remotes /\ Goal(<<a, k>>) = Goal(r)
      BY <1>1, <2>2, <3>1, RemoteIs DEF Goal
    <3> QED
      BY <3>2, Alone
  <2>5. OrderOut(a, k, b) = To(m, f)
    BY <1>1 DEF OrderOut
  <2> HIDE DEF m, f
  <2> QED
    BY <2>1, <2>3, <2>4, <2>5, MuteTo
<1>2. CASE ~IsRemote(a, k)
  BY <1>2, MuteNothing DEF OrderOut
<1> QED
  BY <1>1, <1>2

LEMMA OrderGives ==
  ASSUME DirectConstants, Wired, NEW r, Linked(r), NEW b \in 0 .. 1
  PROVE  LET o == OrderOut(r[1], r[2], b)[Home(r)] IN
         Has(o, Ord(r)) /\ ~Has(o, Qry(r)) /\ Final(o, Ord(r), b)
<1> DEFINE f == SetReq("switch", Goal(r), OnOff(b))
           o == OrderOut(r[1], r[2], b)[Home(r)]
<1>1. OrderOut(r[1], r[2], b) = To(Home(r), f)
  BY Ends DEF OrderOut, Home, Goal
<1>2. o = <<f>>
  BY <1>1, Ends DEF To
<1>3. f \in Ord(r) /\ (f.val > 0 <=> b = 1) /\ f.cmd = "SET_ENTITY_STATE_REQ"
  BY OnOffIs DEF Ord, SetReq
<1>4. f \notin Qry(r)
  BY <1>3, Dull
<1> HIDE DEF f, o
<1>5. Has(o, Ord(r)) /\ ~Has(o, Qry(r)) /\ Final(o, Ord(r), b)
  BY <1>2, <1>3, <1>4, HasNone, FinalOne
<1> QED
  BY <1>5 DEF o

-----------------------------------------------------------------------------
(* A node takes a frame and answers: what that does to the two links of a  *)
(* remote switch.                                                          *)

ToTarget(r) == <<r[1], Home(r)>>
FromTarget(r) == <<Home(r), r[1]>>

ShownNow(r) ==
  ShownAt(r, net[ToTarget(r)], net[FromTarget(r)], state[r[1]][r[2]],
          state[Home(r)][Place(r)], mRequestUpdate, spoiled)

LEMMA LinksTyped ==
  ASSUME DirectConstants, Wired, Carries(net), NEW r, Linked(r)
  PROVE  /\ ToTarget(r) \in Links /\ FromTarget(r) \in Links
         /\ net[ToTarget(r)] \in Seq(Carried(ToTarget(r)))
         /\ net[FromTarget(r)] \in Seq(Carried(FromTarget(r)))
<1>1. r[1] \in Device /\ Home(r) \in Device
  BY Ends
<1> QED
  BY <1>1 DEF Carries, Links, ToTarget, FromTarget

(* Node a takes a frame of node s, or, if s is nobody, acts by itself, and *)
(* sends out.                                                              *)
Taken(a, s, out) ==
  /\ a \in Device /\ Sendable(a, out)
  /\ s = NoDevice => net' = Sent(net, a, out)
  /\ s # NoDevice => s \in Device /\ net[<<s, a>>] # <<>> /\ Answer(a, s, out)

LEMMA TakenCarries ==
  ASSUME Carries(net), NEW a, NEW s, NEW out, Taken(a, s, out)
  PROVE  Carries(net)'
<1>1. CASE s # NoDevice
  BY <1>1, Answered DEF Taken, Carries
<1>2. CASE s = NoDevice
  <2>1. a \in Device /\ Sendable(a, out) /\ net' = Sent(net, a, out)
    BY <1>2 DEF Taken
  <2>2. Carries(Sent(net, a, out))
    BY <2>1, SentCarries
  <2> QED
    BY <2>1, <2>2 DEF Carries
<1> QED
  BY <1>1, <1>2

LEMMA AtTarget ==
  ASSUME DirectConstants, Wired, Carries(net), NEW r, Linked(r),
         NEW a, NEW s, NEW out, a = Home(r), Taken(a, s, out)
  PROVE  /\ out[r[1]] \in Seq(Carried(FromTarget(r)))
         /\ net'[FromTarget(r)] = net[FromTarget(r)] \o out[r[1]]
         /\ s = r[1] => /\ net[ToTarget(r)] # <<>>
                      /\ net'[ToTarget(r)] = Tail(net[ToTarget(r)])
         /\ s # r[1] => net'[ToTarget(r)] = net[ToTarget(r)]
<1>1. r[1] \in Device /\ Home(r) \in Device /\ Home(r) # r[1]
  BY Ends
<1>2. out[r[1]] \in Seq(Carried(<<a, r[1]>>))
  BY <1>1 DEF Taken, Sendable
<1>3. CASE s # NoDevice
  <2>1. /\ a \in Device /\ s \in Device /\ Sendable(a, out)
        /\ net[<<s, a>>] # <<>> /\ Answer(a, s, out)
    BY <1>3 DEF Taken
  <2>2. s # a => net'[<<s, a>>] = Tail(net[<<s, a>>])
    BY <2>1, Answered
  <2>3. \A x \in Device, y \in Device :
          x # a /\ (x # s \/ y # a) => net'[<<x, y>>] = net[<<x, y>>]
    BY <2>1, Answered
  <2>4. \A y \in Device : s # a \/ y # a => net'[<<a, y>>] = After(net[<<a, y>>], out[y])
    BY <2>1, Answered
  <2> QED
    BY <1>1, <1>2, <2>1, <2>2, <2>3, <2>4 DEF After, ToTarget, FromTarget
<1>4. CASE s = NoDevice
  <2>1. a \in Device /\ net' = Sent(net, a, out) /\ s \notin Device
    BY <1>4 DEF Taken, DirectConstants
  <2>2. /\ \A y \in Device : net'[<<a, y>>] = net[<<a, y>>] \o out[y]
        /\ \A x \in Device, y \in Device : x # a => net'[<<x, y>>] = net[<<x, y>>]
    BY <2>1 DEF Sent
  <2> QED
    BY <1>1, <1>2, <2>1, <2>2 DEF ToTarget, FromTarget
<1> QED
  BY <1>3, <1>4

LEMMA AtRemote ==
  ASSUME DirectConstants, Wired, Carries(net), NEW r, Linked(r),
         NEW a, NEW s, NEW out, a = r[1], Taken(a, s, out)
  PROVE  /\ out[Home(r)] \in Seq(Carried(ToTarget(r)))
         /\ net'[ToTarget(r)] = net[ToTarget(r)] \o out[Home(r)]
         /\ s = Home(r) => /\ net[FromTarget(r)] # <<>>
                      /\ net'[FromTarget(r)] = Tail(net[FromTarget(r)])
         /\ s # Home(r) => net'[FromTarget(r)] = net[FromTarget(r)]
<1>1. r[1] \in Device /\ Home(r) \in Device /\ Home(r) # r[1]
  BY Ends
<1>2. out[Home(r)] \in Seq(Carried(<<a, Home(r)>>))
  BY <1>1 DEF Taken, Sendable
<1>3. CASE s # NoDevice
  <2>1. /\ a \in Device /\ s \in Device /\ Sendable(a, out)
        /\ net[<<s, a>>] # <<>> /\ Answer(a, s, out)
    BY <1>3 DEF Taken
  <2>2. s # a => net'[<<s, a>>] = Tail(net[<<s, a>>])
    BY <2>1, Answered
  <2>3. \A x \in Device, y \in Device :
          x # a /\ (x # s \/ y # a) => net'[<<x, y>>] = net[<<x, y>>]
    BY <2>1, Answered
  <2>4. \A y \in Device : s # a \/ y # a => net'[<<a, y>>] = After(net[<<a, y>>], out[y])
    BY <2>1, Answered
  <2> QED
    BY <1>1, <1>2, <2>1, <2>2, <2>3, <2>4 DEF After, ToTarget, FromTarget
<1>4. CASE s = NoDevice
  <2>1. a \in Device /\ net' = Sent(net, a, out) /\ s \notin Device
    BY <1>4 DEF Taken, DirectConstants
  <2>2. /\ \A y \in Device : net'[<<a, y>>] = net[<<a, y>>] \o out[y]
        /\ \A x \in Device, y \in Device : x # a => net'[<<x, y>>] = net[<<x, y>>]
    BY <2>1 DEF Sent
  <2> QED
    BY <1>1, <1>2, <2>1, <2>2 DEF ToTarget, FromTarget
<1> QED
  BY <1>3, <1>4

LEMMA Elsewhere ==
  ASSUME DirectConstants, Wired, Carries(net), NEW r, Linked(r), NEW a, NEW s, NEW out,
         Taken(a, s, out), a # r[1], a # Home(r)
  PROVE  net'[ToTarget(r)] = net[ToTarget(r)] /\ net'[FromTarget(r)] = net[FromTarget(r)]
<1>1. r[1] \in Device /\ Home(r) \in Device
  BY Ends
<1>2. CASE s # NoDevice
  <2>1. /\ a \in Device /\ s \in Device /\ Sendable(a, out)
        /\ net[<<s, a>>] # <<>> /\ Answer(a, s, out)
    BY <1>2 DEF Taken
  <2>2. \A x \in Device, y \in Device :
          x # a /\ (x # s \/ y # a) => net'[<<x, y>>] = net[<<x, y>>]
    BY <2>1, Answered
  <2> QED
    BY <1>1, <2>2 DEF ToTarget, FromTarget
<1>3. CASE s = NoDevice
  <2>1. \A x \in Device, y \in Device : x # a => net'[<<x, y>>] = net[<<x, y>>]
    BY <1>3 DEF Taken, Sent
  <2> QED
    BY <1>1, <2>1 DEF ToTarget, FromTarget
<1> QED
  BY <1>2, <1>3

(* The frame that is taken does not matter to r. *)
Ignored(r, a, s) ==
  LET f == Head(net[<<s, a>>]) IN
  /\ a = Home(r) /\ s = r[1] => f \notin Qry(r) /\ f \notin Ord(r)
  /\ a = r[1] /\ s = Home(r) => f \notin Tell(r)

LEMMA Unseen ==
  ASSUME DirectConstants, Wired, Carries(net), NEW r, Linked(r), NEW a, NEW s, NEW out,
         Taken(a, s, out), Mute(r, a, out), Ignored(r, a, s)
  PROVE  /\ SameRequests(r, net[ToTarget(r)], net'[ToTarget(r)])
         /\ SameAnswers(r, net[FromTarget(r)], net'[FromTarget(r)])
<1> DEFINE w == net[ToTarget(r)]  c == net[FromTarget(r)]
           w2 == net'[ToTarget(r)]  c2 == net'[FromTarget(r)]
<1>1. w \in Seq(Carried(ToTarget(r))) /\ c \in Seq(Carried(FromTarget(r)))
  BY LinksTyped
<1>2. CASE a = Home(r)
  <2> DEFINE o == out[r[1]]
  <2>1. /\ o \in Seq(Carried(FromTarget(r))) /\ c2 = c \o o
        /\ s = r[1] => w # <<>> /\ w2 = Tail(w)
        /\ s # r[1] => w2 = w
    BY <1>2, AtTarget
  <2>2. ~Has(o, Tell(r))
    BY <1>2 DEF Mute
  <2>3. s = r[1] => Head(w) \notin Qry(r) /\ Head(w) \notin Ord(r)
    BY <1>2 DEF Ignored, ToTarget
  <2> HIDE DEF w, c, w2, c2, o
  <2>4. SameAnswers(r, c, c2)
    BY <1>1, <2>1, <2>2, AnswersJoined
  <2>5. SameRequests(r, w, w2)
    BY <1>1, <2>1, <2>3, RequestsTail, SameSame
  <2> QED
    BY <2>4, <2>5 DEF w, c, w2, c2
<1>3. CASE a = r[1]
  <2> DEFINE o == out[Home(r)]
  <2>1. /\ o \in Seq(Carried(ToTarget(r))) /\ w2 = w \o o
        /\ s = Home(r) => c # <<>> /\ c2 = Tail(c)
        /\ s # Home(r) => c2 = c
    BY <1>3, AtRemote
  <2>2. ~Has(o, Qry(r)) /\ ~Has(o, Ord(r))
    BY <1>3 DEF Mute
  <2>3. s = Home(r) => Head(c) \notin Tell(r)
    BY <1>3 DEF Ignored, FromTarget
  <2> HIDE DEF w, c, w2, c2, o
  <2>4. SameRequests(r, w, w2)
    BY <1>1, <2>1, <2>2, RequestsJoined
  <2>5. SameAnswers(r, c, c2)
    BY <1>1, <2>1, <2>3, AnswersTail, SameSame
  <2> QED
    BY <2>4, <2>5 DEF w, c, w2, c2
<1>4. CASE a # r[1] /\ a # Home(r)
  <2>1. w2 = w /\ c2 = c
    BY <1>4, Elsewhere
  <2> QED
    BY <2>1, SameSame
<1> QED
  BY <1>2, <1>3, <1>4

(* Nothing that matters to r happens. *)
LEMMA Idle ==
  ASSUME DirectConstants, Wired, Carries(net), NEW r, Linked(r), ShownNow(r),
         NEW a, NEW s, NEW out,
         Taken(a, s, out), Mute(r, a, out), Ignored(r, a, s),
         state'[r[1]][r[2]] = state[r[1]][r[2]],
         state'[Home(r)][Place(r)] = state[Home(r)][Place(r)],
         mRequestUpdate' = mRequestUpdate, r \in spoiled => r \in spoiled'
  PROVE  ShownNow(r)'
<1>1. /\ SameRequests(r, net[ToTarget(r)], net'[ToTarget(r)])
      /\ SameAnswers(r, net[FromTarget(r)], net'[FromTarget(r)])
  BY Unseen
<1>2. ShownAt(r, net'[ToTarget(r)], net'[FromTarget(r)], state'[r[1]][r[2]],
              state'[Home(r)][Place(r)], mRequestUpdate', spoiled')
  BY <1>1, StepStill DEF ShownNow
<1> QED
  BY <1>2 DEF ShownNow, ToTarget, FromTarget, Home, Place, TargetOf

-----------------------------------------------------------------------------
(* A switch takes a state: another one, the target, or r itself.           *)

LEMMA OthersKept ==
  ASSUME DirectConstants, Wired, States(state), NEW r, Linked(r),
         NEW a \in Device, NEW k \in Index(a), NEW b \in Unknown .. Full,
         Puts(a, k, b)
  PROVE  /\ r # <<a, k>> => state'[r[1]][r[2]] = state[r[1]][r[2]]
         /\ TargetOf(r) # <<a, k>>
              => state'[Home(r)][Place(r)] = state[Home(r)][Place(r)]
         /\ state'[a][k] = b
<1>1. /\ r = <<r[1], r[2]>> /\ r[1] \in Device /\ r[2] \in Index(r[1])
      /\ TargetOf(r) = <<Home(r), Place(r)>>
      /\ Home(r) \in Device /\ Place(r) \in Index(Home(r))
  BY Ends
<1>2. state'[a][k] = b
  BY SetState
<1>3. ASSUME NEW x \in Device, NEW y \in Index(x), x # a \/ y # k
      PROVE  state'[x][y] = state[x][y]
  BY <1>3, SetState
<1> QED
  BY <1>1, <1>2, <1>3

LEMMA BitIsState ==
  ASSUME DirectConstants, NEW b \in 0 .. 1
  PROVE  b \in Unknown .. Full
BY Numbers DEF Unknown

(* While r's query is under way its node knows. *)
LEMMA OutstandingIs ==
  ASSUME DirectConstants, Wired, Carries(net), NEW r, Linked(r), ~Mirrored(r),
         Has(net[ToTarget(r)], Qry(r)) \/ Has(net[FromTarget(r)], Tell(r))
  PROVE  Outstanding(r)
<1>1. ASSUME Has(net[ToTarget(r)], Qry(r)) PROVE Outstanding(r)
  BY <1>1 DEF Has, Qry, Outstanding, ToTarget, Home, Goal
<1>2. ASSUME Has(net[FromTarget(r)], Tell(r)) PROVE Outstanding(r)
  <2>1. PICK k \in DOMAIN net[FromTarget(r)] : net[FromTarget(r)][k] \in Tell(r)
    BY <1>2 DEF Has
  <2> DEFINE f == net[FromTarget(r)][k]
  <2>2. f \in Carried(<<Home(r), r[1]>>)
    <3> DEFINE S == Carried(FromTarget(r))  c == net[FromTarget(r)]
    <3>1. c \in Seq(S) /\ k \in DOMAIN c
      BY <2>1, LinksTyped
    <3> HIDE DEF S, c
    <3>2. c[k] \in S
      BY <3>1
    <3> QED
      BY <3>2 DEF S, c, FromTarget
  <2>3. ~(f.cmd = "PUB_ENTITY_STATE_REQ" /\ f.hash = Own(r))
    BY <2>2, Tellers, Ends
  <2>4. f.cmd = "GET_ENTITY_STATE_REP" /\ f.value_type = 1 /\ f.hash = Goal(r)
    BY <2>1, <2>3, Telling
  <2> QED
    BY <2>4 DEF Outstanding, FromTarget, Home, Goal
<1> QED
  BY <1>1, <1>2

(* r is written: it orders its new state. *)
LEMMA RemoteWritten ==
  ASSUME DirectConstants, Wired, Sound, NEW r, Linked(r), ShownNow(r),
         NEW a, NEW k, a = r[1], k = r[2], NEW b \in 0 .. 1,
         Puts(a, k, b),
         NEW s, NEW out, Taken(a, s, out), Ignored(r, a, s),
         Has(out[Home(r)], Ord(r)), ~Has(out[Home(r)], Qry(r)),
         Final(out[Home(r)], Ord(r), b),
         mRequestUpdate' = mRequestUpdate, r \in spoiled => r \in spoiled',
         Outstanding(r) => r \in spoiled'
  PROVE  ShownNow(r)'
<1> DEFINE w == net[ToTarget(r)]  c == net[FromTarget(r)]
           w2 == net'[ToTarget(r)]  c2 == net'[FromTarget(r)]  o == out[Home(r)]
<1>1. Carries(net) /\ States(state)
  BY DEF Sound
<1>2. w \in Seq(Carried(ToTarget(r))) /\ c \in Seq(Carried(FromTarget(r)))
  BY <1>1, LinksTyped
<1>3. /\ o \in Seq(Carried(ToTarget(r))) /\ w2 = w \o o
      /\ s = Home(r) => c # <<>> /\ c2 = Tail(c)
      /\ s # Home(r) => c2 = c
  BY <1>1, AtRemote
<1>4. s = Home(r) => Head(c) \notin Tell(r)
  BY DEF Ignored, FromTarget
<1>5. Has(o, Ord(r)) /\ ~Has(o, Qry(r)) /\ Final(o, Ord(r), b)
  OBVIOUS
<1>6. ~Mirrored(r) /\ (Has(w, Qry(r)) \/ Has(c, Tell(r))) => r \in spoiled'
  BY <1>1, OutstandingIs
<1>7. /\ state'[r[1]][r[2]] = b
      /\ state'[Home(r)][Place(r)] = state[Home(r)][Place(r)]
  <2>1. a \in Device /\ k \in Index(a) /\ TargetOf(r) # <<a, k>>
    BY Ends
  <2>2. b \in Unknown .. Full
    BY BitIsState
  <2>3. state'[a][k] = b /\ state'[Home(r)][Place(r)] = state[Home(r)][Place(r)]
    BY <1>1, <2>1, <2>2, OthersKept
  <2> QED
    BY <2>3
<1>8. ShownAt(r, w, c, state[r[1]][r[2]], state[Home(r)][Place(r)], mRequestUpdate, spoiled)
  BY DEF ShownNow
<1> HIDE DEF w, c, w2, c2, o
<1>9. SameAnswers(r, c, c2)
  BY <1>2, <1>3, <1>4, AnswersTail, SameSame
<1>10. Has(w2, Ord(r)) /\ (Has(w2, Qry(r)) <=> Has(w, Qry(r))) /\ Final(w2, Ord(r), b)
  BY <1>2, <1>3, <1>5, HasJoined, FinalNew
<1>11. ShownAt(r, w2, c2, b, state[Home(r)][Place(r)], mRequestUpdate, spoiled')
  BY <1>6, <1>8, <1>9, <1>10, StepWrites
<1>12. ShownAt(r, w2, c2, state'[r[1]][r[2]], state'[Home(r)][Place(r)],
               mRequestUpdate', spoiled')
  BY <1>7, <1>11
<1> QED
  BY <1>12 DEF ShownNow, ToTarget, FromTarget, Home, Place, TargetOf, w2, c2

(* r hears of its target. *)
LEMMA RemoteHears ==
  ASSUME DirectConstants, Wired, Sound, NEW r, Linked(r), ShownNow(r),
         NEW a, NEW k, a = r[1], k = r[2], NEW b \in 0 .. 1,
         Puts(a, k, b),
         NEW s, NEW out, s = Home(r), Taken(a, s, out), Mute(r, a, out),
         Head(net[<<s, a>>]) \in Tell(r), Head(net[<<s, a>>]).val > 0 <=> b = 1,
         mRequestUpdate' = mRequestUpdate, r \in spoiled => r \in spoiled'
  PROVE  ShownNow(r)'
<1> DEFINE w == net[ToTarget(r)]  c == net[FromTarget(r)]
           w2 == net'[ToTarget(r)]  c2 == net'[FromTarget(r)]  o == out[Home(r)]
<1>1. Carries(net) /\ States(state)
  BY DEF Sound
<1>2. w \in Seq(Carried(ToTarget(r))) /\ c \in Seq(Carried(FromTarget(r)))
  BY <1>1, LinksTyped
<1>3. /\ o \in Seq(Carried(ToTarget(r))) /\ w2 = w \o o
      /\ c # <<>> /\ c2 = Tail(c)
  BY <1>1, AtRemote
<1>4. Head(c) \in Tell(r) /\ (Head(c).val > 0 <=> b = 1)
  BY DEF FromTarget
<1>5. ~Has(o, Ord(r)) /\ ~Has(o, Qry(r))
  BY DEF Mute
<1>7. /\ state'[r[1]][r[2]] = b
      /\ state'[Home(r)][Place(r)] = state[Home(r)][Place(r)]
  <2>1. a \in Device /\ k \in Index(a) /\ TargetOf(r) # <<a, k>>
    BY Ends
  <2>2. b \in Unknown .. Full
    BY BitIsState
  <2>3. state'[a][k] = b /\ state'[Home(r)][Place(r)] = state[Home(r)][Place(r)]
    BY <1>1, <2>1, <2>2, OthersKept
  <2> QED
    BY <2>3
<1>8. ShownAt(r, w, c, state[r[1]][r[2]], state[Home(r)][Place(r)], mRequestUpdate, spoiled)
  BY DEF ShownNow
<1> HIDE DEF w, c, w2, c2, o
<1>9. SameRequests(r, w, w2)
  BY <1>2, <1>3, <1>5, RequestsJoined
<1>10. ShownAt(r, w2, Tail(c), b, state[Home(r)][Place(r)], mRequestUpdate, spoiled')
  BY <1>2, <1>3, <1>4, <1>8, <1>9, StepHears
<1>11. ShownAt(r, w2, c2, state'[r[1]][r[2]], state'[Home(r)][Place(r)],
               mRequestUpdate', spoiled')
  BY <1>3, <1>7, <1>10
<1> QED
  BY <1>11 DEF ShownNow, ToTarget, FromTarget, Home, Place, TargetOf, w2, c2

(* What r's target sends with a state b of its own: if it publishes to r   *)
(* and the state is new, r is told, and otherwise it hears nothing.        *)
Informs(r, out, b) ==
  IF Mirrored(r) /\ state[Home(r)][Place(r)] # b
  THEN Has(out[r[1]], Tell(r)) /\ Final(out[r[1]], Tell(r), b)
  ELSE ~Has(out[r[1]], Tell(r))

LEMMA TargetLinks ==
  ASSUME DirectConstants, Wired, Sound, NEW r, Linked(r),
         NEW a, NEW k, a = Home(r), k = Place(r), NEW b \in 0 .. 1, Puts(a, k, b),
         NEW s, NEW out, Taken(a, s, out), Informs(r, out, b)
  PROVE  /\ state'[r[1]][r[2]] = state[r[1]][r[2]]
         /\ state'[Home(r)][Place(r)] = b
         /\ Mirrored(r) /\ state[a][k] # b => /\ Has(net'[FromTarget(r)], Tell(r))
                                              /\ Final(net'[FromTarget(r)], Tell(r), b)
         /\ ~(Mirrored(r) /\ state[a][k] # b)
              => SameAnswers(r, net[FromTarget(r)], net'[FromTarget(r)])
<1> DEFINE c == net[FromTarget(r)]  c2 == net'[FromTarget(r)]  o == out[r[1]]
           S == Carried(FromTarget(r))
<1>1. Carries(net) /\ States(state)
  BY DEF Sound
<1>2. c \in Seq(S)
  BY <1>1, LinksTyped
<1>3. o \in Seq(S) /\ c2 = c \o o
  BY <1>1, AtTarget
<1>4. a \in Device /\ k \in Index(a) /\ r # <<a, k>>
  BY Ends
<1>5. b \in Unknown .. Full
  BY BitIsState
<1>6. state'[a][k] = b /\ state'[r[1]][r[2]] = state[r[1]][r[2]]
  BY <1>1, <1>4, <1>5, OthersKept
<1>7. Mirrored(r) /\ state[a][k] # b => Has(o, Tell(r)) /\ Final(o, Tell(r), b)
  BY DEF Informs
<1>8. ~(Mirrored(r) /\ state[a][k] # b) => ~Has(o, Tell(r))
  BY DEF Informs
<1> HIDE DEF c, c2, o, S
<1>9. Mirrored(r) /\ state[a][k] # b => Has(c2, Tell(r)) /\ Final(c2, Tell(r), b)
  BY <1>2, <1>3, <1>7, HasJoined, FinalNew
<1>10. ~(Mirrored(r) /\ state[a][k] # b) => SameAnswers(r, c, c2)
  BY <1>2, <1>3, <1>8, AnswersJoined
<1> QED
  BY <1>6, <1>9, <1>10 DEF c, c2

(* The target obeys an order of r. *)
LEMMA TargetObeys ==
  ASSUME DirectConstants, Wired, Sound, NEW r, Linked(r), ShownNow(r),
         NEW a, NEW k, a = Home(r), k = Place(r), NEW b \in 0 .. 1, Puts(a, k, b),
         NEW s, NEW out, Taken(a, s, out), Informs(r, out, b),
         s = r[1], Head(net[<<s, a>>]) \in Ord(r), Head(net[<<s, a>>]).val > 0 <=> b = 1,
         mRequestUpdate' = mRequestUpdate, r \in spoiled => r \in spoiled'
  PROVE  ShownNow(r)'
<1> DEFINE w == net[ToTarget(r)]  c == net[FromTarget(r)]
           w2 == net'[ToTarget(r)]  c2 == net'[FromTarget(r)]
           y == state[Home(r)][Place(r)]
<1>1. Carries(net)
  BY DEF Sound
<1>2. w \in Seq(Carried(ToTarget(r)))
  BY <1>1, LinksTyped
<1>3. w # <<>> /\ w2 = Tail(w)
  BY <1>1, AtTarget
<1>4. Head(w) \in Ord(r) /\ (Head(w).val > 0 <=> b = 1)
  BY DEF ToTarget
<1>5. Head(w) \notin Qry(r)
  BY <1>4, Dull
<1>6. /\ state'[r[1]][r[2]] = state[r[1]][r[2]] /\ state'[Home(r)][Place(r)] = b
      /\ Mirrored(r) => \/ Has(c2, Tell(r)) /\ Final(c2, Tell(r), b)
                        \/ b = y /\ SameAnswers(r, c, c2)
      /\ ~Mirrored(r) => SameAnswers(r, c, c2)
  BY TargetLinks
<1>7. ShownAt(r, w, c, state[r[1]][r[2]], y, mRequestUpdate, spoiled)
  BY DEF ShownNow
<1> HIDE DEF w, c, w2, c2, y
<1>8. ShownAt(r, Tail(w), c2, state[r[1]][r[2]], b, mRequestUpdate, spoiled')
  BY <1>2, <1>3, <1>4, <1>5, <1>6, <1>7, StepObeys
<1>9. ShownAt(r, w2, c2, state'[r[1]][r[2]], state'[Home(r)][Place(r)],
              mRequestUpdate', spoiled')
  BY <1>3, <1>6, <1>8
<1> QED
  BY <1>9 DEF ShownNow, ToTarget, FromTarget, Home, Place, TargetOf, w2, c2

(* The target takes a state on somebody else's behalf. *)
LEMMA TargetTurns ==
  ASSUME DirectConstants, Wired, Sound, NEW r, Linked(r), ShownNow(r),
         NEW a, NEW k, a = Home(r), k = Place(r), NEW b \in 0 .. 1, Puts(a, k, b),
         NEW s, NEW out, Taken(a, s, out), Informs(r, out, b), Ignored(r, a, s),
         mRequestUpdate' = mRequestUpdate, r \in spoiled => r \in spoiled',
         state[a][k] # b => r \in spoiled'
  PROVE  ShownNow(r)'
<1> DEFINE c2 == net'[FromTarget(r)]  w2 == net'[ToTarget(r)]
<1>1. Carries(net)
  BY DEF Sound
<1>2. /\ state'[r[1]][r[2]] = state[r[1]][r[2]] /\ state'[Home(r)][Place(r)] = b
      /\ Mirrored(r) /\ state[a][k] # b => Has(c2, Tell(r)) /\ Final(c2, Tell(r), b)
  BY TargetLinks
<1>3. CASE state[a][k] = b
  <2>1. ~Has(out[r[1]], Tell(r))
    BY <1>3 DEF Informs
  <2>2. Mute(r, a, out)
    BY <2>1, Ends DEF Mute
  <2>3. state'[Home(r)][Place(r)] = state[Home(r)][Place(r)]
    BY <1>2, <1>3
  <2> QED
    BY <1>1, <1>2, <2>2, <2>3, Idle
<1>4. CASE state[a][k] # b
  <2> HIDE DEF c2, w2
  <2>1. ShownAt(r, w2, c2, state'[r[1]][r[2]], b, mRequestUpdate', spoiled')
    BY <1>2, <1>4, StepTold
  <2>2. ShownAt(r, w2, c2, state'[r[1]][r[2]], state'[Home(r)][Place(r)],
                mRequestUpdate', spoiled')
    BY <1>2, <2>1
  <2> QED
    BY <2>2 DEF ShownNow, ToTarget, FromTarget, Home, Place, TargetOf, w2, c2
<1> QED
  BY <1>3, <1>4

-----------------------------------------------------------------------------
(* What a command and a publication say.                                   *)

LEMMA ThenSays ==
  ASSUME NEW a, NEW first, NEW second, Sendable(a, first), Sendable(a, second),
         NEW x \in Device, NEW F
  PROVE  /\ Has(Then(first, second)[x], F) <=> Has(first[x], F) \/ Has(second[x], F)
         /\ \A b : Has(second[x], F) /\ Final(second[x], F, b)
                     => Final(Then(first, second)[x], F, b)
         /\ \A b : ~Has(second[x], F) /\ Final(first[x], F, b)
                     => Final(Then(first, second)[x], F, b)
<1> DEFINE S == Carried(<<a, x>>)  p == first[x]  q == second[x]
<1>1. p \in Seq(S) /\ q \in Seq(S) /\ Then(first, second)[x] = p \o q
  BY DEF Sendable, Then
<1> HIDE DEF S, p, q
<1>2. Has(p \o q, F) <=> Has(p, F) \/ Has(q, F)
  BY <1>1, HasJoined
<1>3. ASSUME NEW b, Has(q, F), Final(q, F, b) PROVE Final(p \o q, F, b)
  BY <1>1, <1>3, FinalNew
<1>4. ASSUME NEW b, ~Has(q, F), Final(p, F, b) PROVE Final(p \o q, F, b)
  BY <1>1, <1>4, FinalOld
<1> QED
  BY <1>1, <1>2, <1>3, <1>4 DEF p, q

LEMMA InformsThen ==
  ASSUME DirectConstants, Wired, NEW r, Linked(r), NEW first, NEW second, NEW b,
         Sendable(Home(r), first), Sendable(Home(r), second)
  PROVE  /\ Informs(r, first, b) /\ Mute(r, Home(r), second)
              => Informs(r, Then(first, second), b)
         /\ Mute(r, Home(r), first) /\ Informs(r, second, b)
              => Informs(r, Then(first, second), b)
<1>1. r[1] \in Device
  BY Ends
<1> DEFINE p == first[r[1]]  q == second[r[1]]  o == Then(first, second)[r[1]]
<1>2. /\ Has(o, Tell(r)) <=> Has(p, Tell(r)) \/ Has(q, Tell(r))
      /\ Has(q, Tell(r)) /\ Final(q, Tell(r), b) => Final(o, Tell(r), b)
      /\ ~Has(q, Tell(r)) /\ Final(p, Tell(r), b) => Final(o, Tell(r), b)
  BY <1>1, ThenSays
<1>3. /\ Mute(r, Home(r), second) => ~Has(q, Tell(r))
      /\ Mute(r, Home(r), first) => ~Has(p, Tell(r))
  BY DEF Mute
<1>4. /\ Informs(r, first, b) <=> IF Mirrored(r) /\ state[Home(r)][Place(r)] # b
                                  THEN Has(p, Tell(r)) /\ Final(p, Tell(r), b)
                                  ELSE ~Has(p, Tell(r))
      /\ Informs(r, second, b) <=> IF Mirrored(r) /\ state[Home(r)][Place(r)] # b
                                   THEN Has(q, Tell(r)) /\ Final(q, Tell(r), b)
                                   ELSE ~Has(q, Tell(r))
      /\ Informs(r, Then(first, second), b)
           <=> IF Mirrored(r) /\ state[Home(r)][Place(r)] # b
               THEN Has(o, Tell(r)) /\ Final(o, Tell(r), b)
               ELSE ~Has(o, Tell(r))
  BY DEF Informs
<1> HIDE DEF p, q, o
<1> QED
  BY <1>2, <1>3, <1>4

LEMMA PublishInforms ==
  ASSUME DirectConstants, Wired, NEW r, Linked(r), NEW b \in 0 .. 1
  PROVE  Informs(r, PublishOut(Home(r), Place(r), b), b)
<1>1. /\ Home(r) \in Device /\ Place(r) \in Index(Home(r))
      /\ Entity[Home(r)][Place(r)].type = "switch"
  BY Ends
<1>2. CASE Mirrored(r) /\ state[Home(r)][Place(r)] # b
  BY <1>2, PublishTells DEF Informs
<1>3. CASE ~(Mirrored(r) /\ state[Home(r)][Place(r)] # b)
  <2>1. Mute(r, Home(r), PublishOut(Home(r), Place(r), b))
    BY <1>1, <1>3, PublishMute
  <2> QED
    BY <1>3, <2>1 DEF Informs, Mute
<1> QED
  BY <1>2, <1>3

LEMMA CommandInforms ==
  ASSUME DirectConstants, Wired, NEW r, Linked(r), NEW b \in 0 .. 1
  PROVE  Informs(r, CommandOut(Home(r), Place(r), b), b)
<1> DEFINE a == Home(r)  k == Place(r)  o == OrderOut(a, k, b)  p == PublishOut(a, k, b)
<1>1. a \in Device /\ k \in Index(a) /\ Entity[a][k].type = "switch" /\ r # <<a, k>>
  BY Ends
<1>2. Sendable(a, o) /\ Sendable(a, p)
  BY <1>1, CommandSendable
<1>3. Mute(r, a, o)
  BY <1>1, OrderMute
<1>4. Informs(r, p, b)
  BY PublishInforms
<1>5. CommandOut(a, k, b) = Then(o, p)
  BY DEF CommandOut, OrderOut
<1>6. Informs(r, Then(o, p), b)
  <2>1. Sendable(Home(r), o) /\ Sendable(Home(r), p) /\ Mute(r, Home(r), o)
    BY <1>2, <1>3
  <2> HIDE DEF o, p
  <2> QED
    BY <1>4, <2>1, InformsThen
<1> QED
  BY <1>5, <1>6

(* What r's node sends orders the state b. *)
Bids(r, out, b) ==
  /\ Has(out[Home(r)], Ord(r)) /\ ~Has(out[Home(r)], Qry(r))
  /\ Final(out[Home(r)], Ord(r), b)

LEMMA BidsThen ==
  ASSUME DirectConstants, Wired, NEW r, Linked(r), NEW first, NEW second, NEW b,
         Sendable(r[1], first), Sendable(r[1], second),
         Bids(r, first, b), Mute(r, r[1], second)
  PROVE  Bids(r, Then(first, second), b)
<1>1. Home(r) \in Device
  BY Ends
<1> DEFINE p == first[Home(r)]  q == second[Home(r)]  o == Then(first, second)[Home(r)]
<1>2. /\ Has(o, Ord(r)) <=> Has(p, Ord(r)) \/ Has(q, Ord(r))
      /\ ~Has(q, Ord(r)) /\ Final(p, Ord(r), b) => Final(o, Ord(r), b)
  BY <1>1, ThenSays
<1>3. Has(o, Qry(r)) <=> Has(p, Qry(r)) \/ Has(q, Qry(r))
  BY <1>1, ThenSays
<1>4. ~Has(q, Qry(r)) /\ ~Has(q, Ord(r))
  BY DEF Mute
<1>5. Has(p, Ord(r)) /\ ~Has(p, Qry(r)) /\ Final(p, Ord(r), b)
  BY DEF Bids
<1> QED
  BY <1>2, <1>3, <1>4, <1>5 DEF Bids

LEMMA CommandBids ==
  ASSUME DirectConstants, Wired, NEW r, Linked(r), NEW b \in 0 .. 1
  PROVE  Bids(r, CommandOut(r[1], r[2], b), b)
<1> DEFINE a == r[1]  k == r[2]  o == OrderOut(a, k, b)  p == PublishOut(a, k, b)
<1>1. a \in Device /\ k \in Index(a) /\ Entity[a][k].type = "switch" /\ a # Home(r)
  BY Ends
<1>2. Sendable(a, o) /\ Sendable(a, p)
  BY <1>1, CommandSendable
<1>3. Mute(r, a, p)
  BY <1>1, PublishMute
<1>4. Bids(r, o, b)
  BY OrderGives DEF Bids
<1>5. CommandOut(a, k, b) = Then(o, p)
  BY DEF CommandOut, OrderOut
<1>6. Bids(r, Then(o, p), b)
  <2>1. Sendable(r[1], o) /\ Sendable(r[1], p) /\ Mute(r, r[1], p)
    BY <1>2, <1>3
  <2> HIDE DEF o, p
  <2> QED
    BY <1>4, <2>1, BidsThen
<1> QED
  BY <1>5, <1>6

(* To everybody else it says nothing. *)
LEMMA CommandMute ==
  ASSUME DirectConstants, Wired, NEW r, Linked(r), NEW a \in Device, NEW k \in Index(a),
         Entity[a][k].type = "switch", NEW b, <<a, k>> # r, <<a, k>> # TargetOf(r)
  PROVE  Mute(r, a, CommandOut(a, k, b)) /\ Mute(r, a, PublishOut(a, k, b))
<1> DEFINE o == OrderOut(a, k, b)  p == PublishOut(a, k, b)
<1>1. Sendable(a, o) /\ Sendable(a, p)
  BY CommandSendable
<1>2. Mute(r, a, o)
  BY OrderMute
<1>3. Mute(r, a, p)
  BY PublishMute, Ends
<1>4. CommandOut(a, k, b) = Then(o, p)
  BY DEF CommandOut, OrderOut
<1> HIDE DEF o, p
<1>5. Mute(r, a, Then(o, p))
  BY <1>1, <1>2, <1>3, MuteThen
<1> QED
  BY <1>3, <1>4, <1>5 DEF p

-----------------------------------------------------------------------------
(* Every step keeps what is known of every remote switch.                  *)

Kept == Sound' /\ \A r : Linked(r) /\ ShownNow(r) => ShownNow(r)'

LEMMA HeadCarried ==
  ASSUME Carries(net), NEW n \in Device, NEW m \in Device, NEW f, NEW cmd,
         Receives(n, m, f, cmd)
  PROVE  f \in Carried(<<m, n>>) /\ f = Head(net[<<m, n>>]) /\ f.cmd = cmd
         /\ net[<<m, n>>] # <<>>
<1> DEFINE S == Carried(<<m, n>>)  s == net[<<m, n>>]
<1>1. s \in Seq(S)
  BY DEF Carries, Links
<1>2. s # <<>> /\ f = Head(s) /\ f.cmd = cmd
  BY DEF Receives
<1> HIDE DEF S, s
<1>3. Head(s) \in S
  BY <1>1, <1>2, Tailed
<1> QED
  BY <1>2, <1>3 DEF S, s

LEMMA HeadTaken ==
  ASSUME DirectConstants, NEW n \in Device, NEW m \in Device, NEW f, NEW cmd,
         Receives(n, m, f, cmd), NEW out, Sendable(n, out), Answer(n, m, out)
  PROVE  Taken(n, m, out)
BY DEF Taken, Receives, DirectConstants

(* A step that changes no state and sends nothing that matters. *)
LEMMA Harmless ==
  ASSUME DirectConstants, Wired, Sound, NEW a, NEW s, NEW out, Taken(a, s, out),
         UNCHANGED <<state, mRequestUpdate, spoiled>>,
         \A r : Linked(r) => Mute(r, a, out) /\ Ignored(r, a, s)
  PROVE  Kept
<1>1. Sound'
  BY TakenCarries DEF Sound, States
<1>2. ASSUME NEW r, Linked(r), ShownNow(r) PROVE ShownNow(r)'
  BY <1>2, Idle DEF Sound
<1> QED
  BY <1>1, <1>2 DEF Kept

LEMMA KeptEntitiesCount ==
  ASSUME DirectConstants, Wired, Sound, NEW n \in Device, NEW m \in Device, NEW f,
         HandleEntitiesCount(n, m, f)
  PROVE  Kept
<1> DEFINE g == CountRep(n)  out == To(m, g)
<1>1. Receives(n, m, f, "ENTITIES_COUNT_REQ") /\ Answer(n, m, out)
      /\ UNCHANGED <<state, mRequestUpdate, spoiled>>
  BY DEF HandleEntitiesCount
<1>2. f = Head(net[<<m, n>>]) /\ f.cmd = "ENTITIES_COUNT_REQ"
  BY <1>1, HeadCarried DEF Sound
<1>3. g \in Carried(<<n, m>>) /\ g.cmd = "ENTITIES_COUNT_REP"
  BY DEF Carried, Asides, CountRep
<1> HIDE DEF g
<1>4. Sendable(n, out)
  BY <1>3, ToSendable
<1>5. Taken(n, m, out)
  BY <1>1, <1>4, HeadTaken
<1>6. ASSUME NEW r, Linked(r) PROVE Mute(r, n, out) /\ Ignored(r, n, m)
  <2>1. g \notin Qry(r) /\ g \notin Ord(r) /\ g \notin Tell(r)
    BY <1>3, Dull
  <2>2. f \notin Qry(r) /\ f \notin Ord(r) /\ f \notin Tell(r)
    BY <1>2, Dull
  <2> QED
    BY <1>2, <1>3, <1>6, <2>1, <2>2, MuteTo DEF Ignored
<1> HIDE DEF out
<1> QED
  BY <1>1, <1>5, <1>6, Harmless

LEMMA KeptGetEntityHash ==
  ASSUME DirectConstants, Wired, Sound, NEW n \in Device, NEW m \in Device, NEW f,
         HandleGetEntityHash(n, m, f)
  PROVE  Kept
<1> DEFINE g == HashRep(n, f.type, f.index)  out == To(m, g)
<1>1. Receives(n, m, f, "GET_ENTITY_HASH_REQ") /\ Answer(n, m, out)
      /\ UNCHANGED <<state, mRequestUpdate, spoiled>>
  BY DEF HandleGetEntityHash
<1>2. /\ f = Head(net[<<m, n>>]) /\ f.cmd = "GET_ENTITY_HASH_REQ"
      /\ f \in Carried(<<m, n>>)
  BY <1>1, HeadCarried DEF Sound
<1>3. f \in Asked /\ m = Hub
  BY <1>2, Causes DEF Questions
<1>4. g \in Carried(<<n, m>>) /\ g.cmd = "GET_ENTITY_HASH_REP"
  BY <1>3 DEF Carried, Reports, HashRep
<1> HIDE DEF g
<1>5. Sendable(n, out)
  BY <1>4, ToSendable
<1>6. Taken(n, m, out)
  BY <1>1, <1>5, HeadTaken
<1>7. ASSUME NEW r, Linked(r) PROVE Mute(r, n, out) /\ Ignored(r, n, m)
  <2>1. g \notin Qry(r) /\ g \notin Ord(r) /\ g \notin Tell(r)
    BY <1>4, Dull
  <2>2. f \notin Qry(r) /\ f \notin Ord(r) /\ f \notin Tell(r)
    BY <1>2, Dull
  <2> QED
    BY <1>2, <1>4, <1>7, <2>1, <2>2, MuteTo DEF Ignored
<1> HIDE DEF out
<1> QED
  BY <1>1, <1>6, <1>7, Harmless

(* Custom data and malformed frames. *)
LEMMA KeptUnanswered ==
  ASSUME DirectConstants, Wired, Sound, NEW n \in Device, NEW m \in Device, NEW f,
         HandleCustomData(n, m, f) \/ DropFrame(n, m, f)
  PROVE  Kept
<1>1. PICK cmd \in {"CUSTOM_DATA_REQ", "malformed"} :
        /\ Receives(n, m, f, cmd) /\ Answer(n, m, Nothing)
        /\ UNCHANGED <<state, mRequestUpdate, spoiled>>
  BY DEF HandleCustomData, DropFrame
<1>2. f = Head(net[<<m, n>>]) /\ f.cmd = cmd
  BY <1>1, HeadCarried DEF Sound
<1>3. Sendable(n, Nothing)
  BY NothingSendable
<1>4. Taken(n, m, Nothing)
  BY <1>1, <1>3, HeadTaken
<1>5. ASSUME NEW r, Linked(r) PROVE Mute(r, n, Nothing) /\ Ignored(r, n, m)
  <2>1. f \notin Qry(r) /\ f \notin Ord(r) /\ f \notin Tell(r)
    BY <1>2, Dull
  <2> QED
    BY <1>2, <1>5, <2>1, MuteNothing DEF Ignored
<1> QED
  BY <1>1, <1>4, <1>5, Harmless

(* A reading fits a reply. *)
LEMMA ReadingIs ==
  ASSUME DirectConstants, States(state), NEW n \in Device, NEW i \in Index(n),
         NEW v \in Reading(n, i)
  PROVE  /\ v \in Int
         /\ Entity[n][i].type = "switch" => v \in {0, 1} /\ (v > 0 <=> state[n][i] = 1)
<1>1. state[n][i] \in Unknown .. Full
  BY DEF States
<1>2. state[n][i] \in Int /\ Half \in Int
  BY <1>1, Numbers DEF Unknown
<1>3. CASE Entity[n][i].type = "sensor"
  <2> DEFINE x == 10 * state[n][i]
  <2>1. x \in Int /\ 2 * Half \in Nat /\ 2 * Half > 0
    BY <1>2, Numbers
  <2>2. Reading(n, i) = IF x \in -Half .. Half - 1 THEN {x % (2 * Half)}
                        ELSE 0 .. 2 * Half - 1
    BY <1>3 DEF Reading
  <2> HIDE DEF x
  <2>3. x % (2 * Half) \in Int
    <3> DEFINE h == 2 * Half
    <3>1. h \in Nat /\ h > 0
      BY <2>1
    <3> HIDE DEF h
    <3>2. x % h \in Int
      BY <2>1, <3>1
    <3> QED
      BY <3>2 DEF h
  <2>4. v \in Int
    BY <1>2, <2>2, <2>3
  <2> QED
    BY <1>3, <2>4
<1>4. CASE Entity[n][i].type = "binary"
  <2>1. v = OnOff(state[n][i])
    BY <1>4 DEF Reading
  <2> QED
    BY <1>4, <2>1 DEF OnOff
<1>5. CASE Entity[n][i].type = "switch"
  <2>1. v = IF state[n][i] = 1 THEN 1 ELSE 0
    BY <1>5 DEF Reading
  <2> QED
    BY <2>1
<1>6. CASE Entity[n][i].type \notin {"sensor", "binary", "switch"}
  <2>1. v = state[n][i]
    BY <1>6 DEF Reading
  <2> QED
    BY <1>2, <1>6, <2>1
<1> QED
  BY <1>3, <1>4, <1>5, <1>6

LEMMA KeptGetEntityState ==
  ASSUME DirectConstants, Wired, Sound, NEW n \in Device, NEW m \in Device, NEW f,
         HandleGetEntityState(n, m, f)
  PROVE  Kept
<1> DEFINE i == Find(n, f.type, f.hash)  vt == IF f.type = "text" THEN 2 ELSE 1
<1>1. Receives(n, m, f, "GET_ENTITY_STATE_REQ")
      /\ UNCHANGED <<state, mRequestUpdate, spoiled>>
  BY DEF HandleGetEntityState
<1>2. /\ f = Head(net[<<m, n>>]) /\ f.cmd = "GET_ENTITY_STATE_REQ"
      /\ f \in Carried(<<m, n>>) /\ net[<<m, n>>] # <<>>
  BY <1>1, HeadCarried DEF Sound
<1>3. \A r : f \notin Ord(r) /\ f \notin Tell(r)
  BY <1>2, Dull
(* What r's target is asked for is what r stands for. *)
<1>4. ASSUME NEW r, Linked(r), n = Home(r), m = r[1], f \in Qry(r)
      PROVE  i = Place(r) /\ i # 0 /\ vt = 1
  <2>1. f.type = "switch" /\ f.hash = Goal(r)
    BY <1>2, <1>4, Requests
  <2> QED
    BY <1>4, <2>1, Ends DEF Find
<1>5. CASE i = 0
  <2>1. Answer(n, m, Nothing)
    BY <1>5 DEF HandleGetEntityState
  <2>2. Taken(n, m, Nothing)
    BY <1>1, <2>1, NothingSendable, HeadTaken
  <2>3. ASSUME NEW r, Linked(r) PROVE Mute(r, n, Nothing) /\ Ignored(r, n, m)
    BY <1>2, <1>3, <1>4, <1>5, <2>3, MuteNothing DEF Ignored
  <2> QED
    BY <1>1, <2>2, <2>3, Harmless
<1>6. CASE i # 0
  <2>1. PICK v \in Reading(n, i) : Answer(n, m, To(m, GetRep(vt, f.hash, v)))
    BY <1>6 DEF HandleGetEntityState
  <2> DEFINE g == GetRep(vt, f.hash, v)  out == To(m, g)
  <2>2. g.cmd = "GET_ENTITY_STATE_REP" /\ g.value_type = vt /\ g.hash = f.hash /\ g.val = v
    BY DEF GetRep
  <2>3. i \in Index(n) /\ (f.type = "switch" => Entity[n][i].type = "switch")
    <3>1. CASE f.type # "sensor"
      BY <1>6, <3>1, Found DEF Find
    <3>2. CASE f.type = "sensor"
      BY <1>6, <3>2, SensorFound DEF Find
    <3> QED
      BY <3>1, <3>2
  <2>4. v \in Int /\ (f.type = "switch" => v \in {0, 1} /\ (v > 0 <=> state[n][i] = 1))
    BY <2>3, ReadingIs DEF Sound
  <2>5. g \in Carried(<<n, m>>)
    <3>1. f \in Questions(<<m, n>>) \cup Queries(<<m, n>>)
      BY <1>2, Causes
    <3>2. CASE f \in Questions(<<m, n>>)
      <4>1. f \in Asked /\ m = Hub
        BY <3>2 DEF Questions
      <4>2. g \in Values(<<n, m>>)
        BY <2>4, <4>1 DEF Values
      <4> QED
        BY <4>2 DEF Carried
    <3>3. CASE f \in Queries(<<m, n>>)
      <4>1. PICK q \in Toward(<<m, n>>) : f = GetReq(Goal(q))
        BY <3>3 DEF Queries
      <4>2. f.type = "switch" /\ f.hash = Goal(q)
        BY <4>1 DEF GetReq
      <4>3. vt = 1 /\ v \in {0, 1}
        BY <2>4, <4>2
      <4>4. g \in Answers(<<n, m>>)
        BY <4>1, <4>2, <4>3 DEF Answers
      <4> QED
        BY <4>4 DEF Carried
    <3> QED
      BY <3>1, <3>2, <3>3
  <2>6. \A r : g \notin Qry(r) /\ g \notin Ord(r)
    BY <2>2, Dull
  <2>7. \A r : g \in Tell(r) => vt = 1 /\ f.hash = Goal(r)
    BY <2>2, Telling
  <2>8. Answer(n, m, out)
    BY <2>1
  <2> HIDE DEF g
  <2>9. Sendable(n, out)
    BY <2>5, ToSendable
  <2>10. Taken(n, m, out)
    BY <1>1, <2>8, <2>9, HeadTaken
  <2>11. out[m] = <<g>>
    BY DEF To
  <2>12. Sound'
    BY <1>1, <2>10, TakenCarries DEF Sound, States
  <2>13. ASSUME NEW r, Linked(r), ShownNow(r) PROVE ShownNow(r)'
    <3>1. CASE n = Home(r) /\ m = r[1] /\ f \in Qry(r)
      <4>1. vt = 1 /\ i = Place(r) /\ f.type = "switch" /\ f.hash = Goal(r)
        BY <1>2, <1>4, <2>13, <3>1, Requests
      <4>2. g \in Tell(r) /\ (g.val > 0 <=> state[n][i] = 1)
        <5>1. v \in {0, 1} /\ (v > 0 <=> state[n][i] = 1)
          BY <2>4, <4>1
        <5> QED
          BY <2>2, <4>1, <5>1 DEF Tell, g
      <4> DEFINE w == net[ToTarget(r)]  c == net[FromTarget(r)]
                 w2 == net'[ToTarget(r)]  c2 == net'[FromTarget(r)]
                 x == state[r[1]][r[2]]  y == state[Home(r)][Place(r)]
      <4>3. w \in Seq(Carried(ToTarget(r))) /\ c \in Seq(Carried(FromTarget(r)))
        BY <2>13, LinksTyped DEF Sound
      <4>4. /\ out[r[1]] \in Seq(Carried(FromTarget(r))) /\ c2 = c \o out[r[1]]
            /\ w # <<>> /\ w2 = Tail(w)
        BY <2>10, <2>13, <3>1, AtTarget DEF Sound
      <4>5. Head(w) \in Qry(r)
        BY <1>2, <3>1 DEF ToTarget
      <4>6. Has(out[r[1]], Tell(r)) /\ Final(out[r[1]], Tell(r), y)
        <5> DEFINE o == out[r[1]]  F == Tell(r)
        <5>1. o = <<g>> /\ g \in F /\ (g.val > 0 <=> y = 1)
          BY <2>11, <3>1, <4>1, <4>2
        <5> HIDE DEF o, F, y
        <5>2. Has(o, F) /\ Final(o, F, y)
          BY <5>1, HasNone, FinalOne
        <5> QED
          BY <5>2 DEF o, F
      <4>7. ShownAt(r, w, c, x, y, mRequestUpdate, spoiled)
        BY <2>13 DEF ShownNow
      <4>8. state'[r[1]][r[2]] = x /\ state'[Home(r)][Place(r)] = y
        BY <1>1
      <4> HIDE DEF w, c, w2, c2, x, y
      <4>9. Has(c2, Tell(r)) /\ Final(c2, Tell(r), y)
        BY <4>3, <4>4, <4>6, HasJoined, FinalNew
      <4>10. ShownAt(r, w2, c2, x, y, mRequestUpdate, spoiled)
        BY <4>3, <4>4, <4>5, <4>7, <4>9, StepAnswers
      <4>11. ShownAt(r, w2, c2, state'[r[1]][r[2]], state'[Home(r)][Place(r)],
                     mRequestUpdate', spoiled')
        BY <1>1, <4>8, <4>10
      <4> QED
        BY <4>11 DEF ShownNow, ToTarget, FromTarget, Home, Place, TargetOf, w2, c2
    <3>2. CASE ~(n = Home(r) /\ m = r[1] /\ f \in Qry(r))
      <4>1. Ignored(r, n, m)
        BY <1>2, <1>3, <3>2 DEF Ignored
      <4>2. n = Home(r) /\ m = r[1] => g \notin Tell(r)
        BY <1>2, <2>7, <2>13, <3>2, Requests
      <4>3. Mute(r, n, out)
        BY <2>5, <2>6, <2>13, <4>2, MuteTo
      <4> QED
        BY <1>1, <2>10, <2>13, <4>1, <4>3, Idle DEF Sound
    <3> QED
      BY <3>1, <3>2
  <2> QED
    BY <2>12, <2>13 DEF Kept
<1> QED
  BY <1>5, <1>6

LEMMA LightIs ==
  ASSUME DirectConstants, NEW v \in 0 .. 2 * Half - 1
  PROVE  LightOf(v) \in Unknown .. Full
BY Numbers DEF LightOf, Signed, Unknown

LEMMA SwitchIs ==
  ASSUME DirectConstants, NEW v
  PROVE  /\ SwitchOf(v) \in 0 .. 1
         /\ v \in {0, 1, 10} => (v > 0 <=> SwitchOf(v) = 1)
BY Numbers DEF SwitchOf, Signed

(* What acknowledges a request says nothing. *)
LEMMA Acknowledges ==
  ASSUME DirectConstants, Wired, NEW n, NEW m, NEW g \in {SetRep, PubRep}
  PROVE  /\ Sendable(n, To(m, g))
         /\ \A r : Linked(r) => Mute(r, n, To(m, g))
<1>1. g \in Asides(<<n, m>>)
  BY DEF Asides
<1>2. g \in Carried(<<n, m>>)
  BY <1>1 DEF Carried
<1>3. Sendable(n, To(m, g))
  BY <1>2, ToSendable
<1>4. \/ g.cmd \in {"PUB_ENTITY_STATE_REP", "ENTITIES_COUNT_REP"}
      \/ g.cmd = "GET_ENTITY_STATE_REP" /\ g.value_type = 0
  BY <1>1, Commands
<1>5. ASSUME NEW r, Linked(r) PROVE Mute(r, n, To(m, g))
  <2>1. g \notin Qry(r) /\ g \notin Ord(r) /\ g \notin Tell(r)
    BY <1>4, Dull
  <2> QED
    BY <1>2, <1>5, <2>1, MuteTo
<1> QED
  BY <1>3, <1>5

LEMMA KeptSetEntityState ==
  ASSUME DirectConstants, Wired, Sound, NEW n \in Device, NEW m \in Device, NEW f,
         HandleSetEntityState(n, m, f)
  PROVE  Kept
<1> DEFINE i == IF f.type \in {"switch", "light"} THEN FindEntity(n, f.type, f.hash) ELSE 0
           b == IF f.type = "switch" THEN SwitchOf(f.val) ELSE LightOf(f.val)
           ack == To(m, SetRep)
<1>1. /\ Receives(n, m, f, "SET_ENTITY_STATE_REQ")
      /\ mRequestUpdate' = mRequestUpdate
  BY DEF HandleSetEntityState
<1>2. /\ f = Head(net[<<m, n>>]) /\ f.cmd = "SET_ENTITY_STATE_REQ"
      /\ f \in Carried(<<m, n>>) /\ net[<<m, n>>] # <<>>
  BY <1>1, HeadCarried DEF Sound
<1>3. \A r : f \notin Qry(r) /\ f \notin Tell(r)
  BY <1>2, Dull
(* An order of r sets what r stands for. *)
<1>4. ASSUME NEW r, Linked(r), n = Home(r), m = r[1]
      PROVE  f \in Ord(r) <=> f.type = "switch" /\ i = Place(r)
  <2>1. f \in Ord(r) <=> f.type = "switch" /\ f.hash = Goal(r)
    BY <1>2, <1>4, Requests
  <2>2. FindEntity(n, "switch", Goal(r)) = Place(r) /\ Place(r) # 0
        /\ Entity[n][Place(r)].hash = Goal(r)
    BY <1>4, Ends
  <2>3. f.type = "switch" /\ i # 0 => Entity[n][i].hash = f.hash
    BY Found
  <2> QED
    BY <2>1, <2>2, <2>3
<1>5. f.val \in 0 .. 2 * Half - 1
  <2>1. f \in Questions(<<m, n>>) \cup Orders(<<m, n>>)
    BY <1>2, Causes
  <2>2. CASE f \in Questions(<<m, n>>)
    BY <1>2, <2>2 DEF Questions, DirectConstants
  <2>3. CASE f \in Orders(<<m, n>>)
    <3>1. f.val \in {0, 10}
      BY <2>3 DEF Orders, SetReq
    <3> QED
      BY <3>1, Numbers
  <2> QED
    BY <2>1, <2>2, <2>3
<1>6. b \in Unknown .. Full /\ (f.type = "switch" => b \in 0 .. 1)
  <2>1. f.type = "switch" => b \in 0 .. 1
    BY SwitchIs
  <2>2. f.type # "switch" => b = LightOf(f.val)
    OBVIOUS
  <2> HIDE DEF b
  <2> QED
    BY <1>5, <2>1, <2>2, LightIs, BitIsState
<1>7. i # 0 => i \in Index(n) /\ f.type \in {"switch", "light"} /\ Entity[n][i].type = f.type
  BY Found
<1>8. Sendable(n, ack) /\ \A r : Linked(r) => Mute(r, n, ack)
  BY Acknowledges
<1>9. CASE i = 0
  <2> DEFINE out == Then(Nothing, Nothing)
  <2>1. state' = state /\ spoiled' = spoiled /\ Answer(n, m, out)
    BY <1>9 DEF HandleSetEntityState
  <2>2. Sendable(n, Nothing)
    BY NothingSendable
  <2>3. Sendable(n, out)
    BY <2>2, ThenSendable
  <2>4. \A r : Linked(r) => Mute(r, n, out)
    BY <2>2, MuteNothing, MuteThen
  <2> HIDE DEF out
  <2>5. Taken(n, m, out)
    BY <1>1, <2>1, <2>3, HeadTaken
  <2>6. ASSUME NEW r, Linked(r) PROVE Ignored(r, n, m)
    <3>1. n = Home(r) /\ m = r[1] => f \notin Ord(r)
      BY <1>4, <1>9, <2>6, Ends
    <3> QED
      BY <1>2, <1>3, <3>1 DEF Ignored
  <2> QED
    BY <1>1, <2>1, <2>4, <2>5, <2>6, Harmless
<1>10. CASE i # 0 /\ f.type # "switch"
  <2> DEFINE out == Then(Nothing, ack)
  <2>1. Puts(n, i, b) /\ spoiled' = spoiled /\ Answer(n, m, out)
    BY <1>10 DEF HandleSetEntityState, Puts
  <2>2. Sendable(n, Nothing)
    BY NothingSendable
  <2>3. Sendable(n, out)
    BY <1>8, <2>2, ThenSendable
  <2>4. ASSUME NEW r, Linked(r) PROVE Mute(r, n, out)
    BY <1>8, <2>2, <2>4, MuteNothing, MuteThen
  <2> HIDE DEF out
  <2>5. Taken(n, m, out)
    BY <1>1, <2>1, <2>3, HeadTaken
  <2>6. i \in Index(n) /\ Entity[n][i].type # "switch"
    BY <1>7, <1>10
  <2> HIDE DEF i, b
  <2>7. Sound'
    BY <1>6, <2>1, <2>5, <2>6, SetState, TakenCarries DEF Sound
  <2>8. ASSUME NEW r, Linked(r), ShownNow(r) PROVE ShownNow(r)'
    <3>1. r # <<n, i>> /\ TargetOf(r) # <<n, i>>
      BY <2>6, <2>8, Ends
    <3>2. /\ state'[r[1]][r[2]] = state[r[1]][r[2]]
          /\ state'[Home(r)][Place(r)] = state[Home(r)][Place(r)]
      BY <1>6, <2>1, <2>6, <2>8, <3>1, OthersKept DEF Sound
    <3>3. n = Home(r) /\ m = r[1] => f \notin Ord(r)
      BY <1>4, <1>10, <2>8
    <3>4. Ignored(r, n, m)
      BY <1>2, <1>3, <3>3 DEF Ignored
    <3> QED
      BY <1>1, <2>1, <2>4, <2>5, <2>8, <3>2, <3>4, Idle DEF Sound
  <2> QED
    BY <2>7, <2>8 DEF Kept
<1>11. CASE i # 0 /\ f.type = "switch"
  <2> DEFINE com == CommandOut(n, i, b)  out == Then(com, ack)
  <2>1. /\ Puts(n, i, b) /\ Answer(n, m, out)
        /\ spoiled' = spoiled \cup Races(n, i) \cup Spoils(n, i, b, m)
    BY <1>11 DEF HandleSetEntityState, Puts
  <2>2. i \in Index(n) /\ Entity[n][i].type = "switch" /\ b \in 0 .. 1
    BY <1>6, <1>7, <1>11
  <2>3. Sendable(n, com)
    BY <2>2, CommandSendable
  <2>4. Sendable(n, out)
    <3> HIDE DEF com, ack
    <3> QED
      BY <1>8, <2>3, ThenSendable
  <2>5. Taken(n, m, out)
    <3> HIDE DEF out
    <3> QED
      BY <1>1, <2>1, <2>4, HeadTaken
  <2>6. \A r : r \in spoiled => r \in spoiled'
    BY <2>1
  <2>7. \A r : n = Home(r) /\ m = r[1] /\ f \in Ord(r) /\ Linked(r) => i = Place(r)
    BY <1>4
  <2>8. f.val \in {0, 1, 10} => (f.val > 0 <=> b = 1)
    BY <1>11, SwitchIs
  <2>9. \A r : Linked(r) /\ n = Home(r) /\ m = r[1] /\ i = Place(r) => f \in Ord(r)
    BY <1>4, <1>11
  <2> HIDE DEF i, b
  <2>10. Sound'
    BY <1>6, <2>1, <2>2, <2>5, SetState, TakenCarries DEF Sound
  <2>11. ASSUME NEW r, Linked(r), ShownNow(r) PROVE ShownNow(r)'
    <3>1. Mute(r, n, ack)
      BY <1>8, <2>11
    <3>2. CASE r = <<n, i>>
      <4>1. n = r[1] /\ i = r[2] /\ n # Home(r)
        BY <2>11, <3>2, Ends
      <4>2. Bids(r, com, b)
        BY <2>2, <2>11, <4>1, CommandBids
      <4>3. Bids(r, out, b)
        <5>1. Sendable(r[1], com) /\ Sendable(r[1], ack) /\ Mute(r, r[1], ack)
          BY <1>8, <2>3, <3>1, <4>1
        <5> HIDE DEF com, ack
        <5> QED
          BY <2>11, <4>2, <5>1, BidsThen
      <4>4. Ignored(r, n, m)
        BY <1>2, <1>3, <4>1 DEF Ignored
      <4>5. Outstanding(r) => r \in spoiled'
        BY <2>1, <2>11, <3>2, Ends DEF Races
      <4> HIDE DEF out
      <4> QED
        BY <1>1, <2>1, <2>2, <2>5, <2>6, <2>11, <4>1, <4>3, <4>4, <4>5, RemoteWritten
           DEF Bids
    <3>3. CASE TargetOf(r) = <<n, i>>
      <4>1. n = Home(r) /\ i = Place(r) /\ n # r[1] /\ r \in Remotes
        BY <2>11, <3>3, Ends
      <4>2. Informs(r, com, b)
        BY <2>2, <2>11, <4>1, CommandInforms
      <4>3. Informs(r, out, b)
        <5>1. Sendable(Home(r), com) /\ Sendable(Home(r), ack) /\ Mute(r, Home(r), ack)
          BY <1>8, <2>3, <3>1, <4>1
        <5> HIDE DEF com, ack
        <5> QED
          BY <2>11, <4>2, <5>1, InformsThen
      <4> HIDE DEF out
      <4>4. CASE m = r[1]
        <5>1. f \in Ord(r)
          BY <2>9, <2>11, <4>1, <4>4
        <5>2. f.val \in {0, 10}
          BY <1>2, <2>11, <4>1, <4>4, <5>1, Requests
        <5>3. f.val > 0 <=> b = 1
          BY <2>8, <5>2
        <5> QED
          BY <1>1, <1>2, <2>1, <2>2, <2>5, <2>6, <2>11, <4>1, <4>3, <4>4, <5>1, <5>3,
             TargetObeys
      <4>5. CASE m # r[1]
        <5>1. state[n][i] # b => r \in spoiled'
          BY <2>1, <3>3, <4>1, <4>5 DEF Spoils
        <5>2. Ignored(r, n, m)
          BY <4>1, <4>5 DEF Ignored
        <5> QED
          BY <1>1, <2>1, <2>2, <2>5, <2>6, <2>11, <4>1, <4>3, <5>1, <5>2, TargetTurns
      <4> QED
        BY <4>4, <4>5
    <3>4. CASE r # <<n, i>> /\ TargetOf(r) # <<n, i>>
      <4>1. Mute(r, n, com)
        BY <2>2, <2>11, <3>4, CommandMute
      <4>2. Mute(r, n, out)
        <5> HIDE DEF com, ack
        <5> QED
          BY <1>8, <2>3, <2>11, <3>1, <4>1, MuteThen
      <4>3. n = Home(r) /\ m = r[1] => f \notin Ord(r)
        BY <2>7, <2>11, <3>4, Ends
      <4>4. Ignored(r, n, m)
        BY <1>2, <1>3, <4>3 DEF Ignored
      <4>5. /\ state'[r[1]][r[2]] = state[r[1]][r[2]]
            /\ state'[Home(r)][Place(r)] = state[Home(r)][Place(r)]
        BY <1>6, <2>1, <2>2, <2>11, <3>4, OthersKept DEF Sound
      <4> HIDE DEF out
      <4> QED
        BY <1>1, <2>5, <2>6, <2>11, <4>2, <4>4, <4>5, Idle DEF Sound
    <3> QED
      BY <3>2, <3>3, <3>4
  <2> QED
    BY <2>10, <2>11 DEF Kept
<1> QED
  BY <1>9, <1>10, <1>11

LEMMA KeptPublishEntityState ==
  ASSUME DirectConstants, Wired, Sound, NEW n \in Device, NEW m \in Device, NEW f,
         HandlePublishEntityState(n, m, f)
  PROVE  Kept
<1> DEFINE i == IF f.type = "switch" THEN FindEntity(n, "switch", f.hash) ELSE 0
           b == IF f.val > 0 THEN 1 ELSE 0
           ack == To(m, PubRep)
<1>1. /\ Receives(n, m, f, "PUB_ENTITY_STATE_REQ")
      /\ mRequestUpdate' = mRequestUpdate
  BY DEF HandlePublishEntityState
<1>2. /\ f = Head(net[<<m, n>>]) /\ f.cmd = "PUB_ENTITY_STATE_REQ"
      /\ f \in Carried(<<m, n>>) /\ net[<<m, n>>] # <<>>
  BY <1>1, HeadCarried DEF Sound
<1>3. \A r : f \notin Qry(r) /\ f \notin Ord(r)
  BY <1>2, Dull
(* What tells r is published to r. *)
<1>4. ASSUME NEW r, Linked(r), n = r[1], f \in Tell(r)
      PROVE  r = <<n, i>> /\ i # 0
  <2>1. f.type = "switch" /\ f.hash = Own(r)
    BY <1>2, <1>4, Telling
  <2>2. FindEntity(n, "switch", Own(r)) = r[2] /\ r = <<n, r[2]>> /\ r[2] \in Index(n)
    BY <1>4, Ends
  <2>3. r[2] # 0
    BY <2>2, Entities
  <2> QED
    BY <2>1, <2>2, <2>3
<1>5. b \in 0 .. 1 /\ (f.val > 0 <=> b = 1)
  OBVIOUS
<1>6. i # 0 => i \in Index(n) /\ Entity[n][i].type = "switch" /\ Entity[n][i].hash = f.hash
  BY Found
<1>7. Sendable(n, ack) /\ \A r : Linked(r) => Mute(r, n, ack)
  BY Acknowledges
<1>8. CASE i = 0
  <2> DEFINE out == Then(Nothing, ack)
  <2>1. state' = state /\ spoiled' = spoiled /\ Answer(n, m, out)
    BY <1>8 DEF HandlePublishEntityState
  <2>2. Sendable(n, Nothing)
    BY NothingSendable
  <2>3. Sendable(n, out)
    BY <1>7, <2>2, ThenSendable
  <2>4. \A r : Linked(r) => Mute(r, n, out)
    BY <1>7, <2>2, MuteNothing, MuteThen
  <2> HIDE DEF out
  <2>5. Taken(n, m, out)
    BY <1>1, <2>1, <2>3, HeadTaken
  <2>6. ASSUME NEW r, Linked(r) PROVE Ignored(r, n, m)
    BY <1>2, <1>3, <1>4, <1>8, <2>6 DEF Ignored
  <2> QED
    BY <1>1, <2>1, <2>4, <2>5, <2>6, Harmless
<1>9. CASE i # 0
  <2> DEFINE pub == PublishOut(n, i, b)  out == Then(pub, ack)
  <2>1. /\ Puts(n, i, b) /\ Answer(n, m, out)
        /\ spoiled' = spoiled \cup Spoils(n, i, b, NoDevice)
    BY <1>9 DEF HandlePublishEntityState, Puts
  <2>2. i \in Index(n) /\ Entity[n][i].type = "switch" /\ Entity[n][i].hash = f.hash
    BY <1>6, <1>9
  <2>3. Sendable(n, pub)
    BY <2>2, PublishSendable
  <2>4. Sendable(n, out)
    <3> HIDE DEF pub, ack
    <3> QED
      BY <1>7, <2>3, ThenSendable
  <2>5. Taken(n, m, out)
    <3> HIDE DEF out
    <3> QED
      BY <1>1, <2>1, <2>4, HeadTaken
  <2>6. \A r : r \in spoiled => r \in spoiled'
    BY <2>1
  <2> HIDE DEF i, b
  <2>7. b \in Unknown .. Full
    BY <1>5, BitIsState
  <2>8. Sound'
    BY <2>1, <2>2, <2>5, <2>7, SetState, TakenCarries DEF Sound
  <2>9. ASSUME NEW r, Linked(r), ShownNow(r) PROVE ShownNow(r)'
    <3>1. Mute(r, n, ack)
      BY <1>7, <2>9
    <3>2. CASE r = <<n, i>>
      <4>1. n = r[1] /\ i = r[2] /\ n # Home(r)
        BY <2>9, <3>2, Ends
      <4>2. m = Home(r) /\ f \in Tell(r)
        BY <1>2, <2>2, <2>9, <4>1, Tellers DEF Own
      <4>3. Mute(r, n, out)
        <5>1. Mute(r, n, pub)
          BY <2>2, <2>9, <4>1, PublishMute
        <5> HIDE DEF pub, ack
        <5> QED
          BY <1>7, <2>3, <2>9, <3>1, <5>1, MuteThen
      <4> HIDE DEF out
      <4> QED
        BY <1>1, <1>2, <1>5, <2>1, <2>5, <2>6, <2>9, <4>1, <4>2, <4>3, RemoteHears
    <3>3. CASE TargetOf(r) = <<n, i>>
      <4>1. n = Home(r) /\ i = Place(r) /\ n # r[1] /\ r \in Remotes /\ r[1] # NoDevice
        BY <2>9, <3>3, Ends, Nobody
      <4>2. Informs(r, pub, b)
        BY <1>5, <2>9, <4>1, PublishInforms
      <4>3. Informs(r, out, b)
        <5>1. Sendable(Home(r), pub) /\ Sendable(Home(r), ack) /\ Mute(r, Home(r), ack)
          BY <1>7, <2>3, <3>1, <4>1
        <5> HIDE DEF pub, ack
        <5> QED
          BY <2>9, <4>2, <5>1, InformsThen
      <4>4. state[n][i] # b => r \in spoiled'
        BY <2>1, <3>3, <4>1 DEF Spoils
      <4>5. Ignored(r, n, m)
        BY <1>2, <1>3, <4>1 DEF Ignored
      <4> HIDE DEF out
      <4> QED
        BY <1>1, <1>5, <2>1, <2>5, <2>6, <2>9, <4>1, <4>3, <4>4, <4>5, TargetTurns
    <3>4. CASE r # <<n, i>> /\ TargetOf(r) # <<n, i>>
      <4>1. Mute(r, n, pub)
        BY <2>2, <2>9, <3>4, CommandMute
      <4>2. Mute(r, n, out)
        <5> HIDE DEF pub, ack
        <5> QED
          BY <1>7, <2>3, <2>9, <3>1, <4>1, MuteThen
      <4>3. Ignored(r, n, m)
        BY <1>2, <1>3, <1>4, <2>9, <3>4 DEF Ignored
      <4>4. /\ state'[r[1]][r[2]] = state[r[1]][r[2]]
            /\ state'[Home(r)][Place(r)] = state[Home(r)][Place(r)]
        BY <2>1, <2>2, <2>7, <2>9, <3>4, OthersKept DEF Sound
      <4> HIDE DEF out
      <4> QED
        BY <1>1, <2>5, <2>6, <2>9, <4>2, <4>3, <4>4, Idle DEF Sound
    <3> QED
      BY <3>2, <3>3, <3>4
  <2> QED
    BY <2>8, <2>9 DEF Kept
<1> QED
  BY <1>8, <1>9

LEMMA TakerIs ==
  ASSUME DirectConstants, NEW n \in Device, NEW f
  PROVE  LET i == Taker(n, f)
             taken == f.cmd = "GET_ENTITY_STATE_REP" /\ f.value_type = 1 IN
         /\ i # 0 => /\ i \in Index(n) /\ IsRemote(n, i) /\ Entity[n][i].target = f.hash
                     /\ taken
         /\ i = 0 /\ taken => \A k \in Index(n) : IsRemote(n, k) => Entity[n][k].target # f.hash
<1> DEFINE S == {i \in Index(n) : IsRemote(n, i) /\ Entity[n][i].target = f.hash}
           taken == f.cmd = "GET_ENTITY_STATE_REP" /\ f.value_type = 1
<1>1. S \in SUBSET Nat /\ 0 \notin S
  BY Entities
<1>2. S # {} => Lowest(S) \in S
  BY <1>1, LowestIn
<1>3. S = {} => Lowest(S) = 0
  BY DEF Lowest
<1>4. Taker(n, f) = IF taken THEN Lowest(S) ELSE 0
  BY DEF Taker
<1>5. ASSUME Taker(n, f) # 0
      PROVE  /\ Taker(n, f) \in Index(n) /\ IsRemote(n, Taker(n, f))
             /\ Entity[n][Taker(n, f)].target = f.hash /\ taken
  <2>1. taken /\ Taker(n, f) = Lowest(S)
    BY <1>4, <1>5
  <2>2. Lowest(S) \in S
    BY <1>2, <1>3, <1>5, <2>1
  <2> HIDE DEF taken
  <2> QED
    BY <2>1, <2>2
<1>6. ASSUME Taker(n, f) = 0, taken
      PROVE  \A k \in Index(n) : IsRemote(n, k) => Entity[n][k].target # f.hash
  <2>1. Lowest(S) = 0
    BY <1>4, <1>6
  <2>2. S = {}
    <3> HIDE DEF S
    <3> QED
      BY <1>1, <1>2, <2>1
  <2> QED
    BY <2>2
<1> QED
  BY <1>5, <1>6

LEMMA KeptCommandReply ==
  ASSUME DirectConstants, Wired, Sound, NEW n \in Device, NEW m \in Device, NEW f,
         HandleCommandReply(n, m, f)
  PROVE  Kept
<1> DEFINE i == Taker(n, f)  b == SwitchOf(f.val)
           taken == f.cmd = "GET_ENTITY_STATE_REP" /\ f.value_type = 1
<1>1. /\ Receives(n, m, f, f.cmd) /\ f.cmd \in Reply
      /\ mRequestUpdate' = mRequestUpdate
  BY DEF HandleCommandReply
<1>2. /\ f = Head(net[<<m, n>>])
      /\ f \in Carried(<<m, n>>) /\ net[<<m, n>>] # <<>>
  BY <1>1, HeadCarried DEF Sound
<1>3. \A r : f \notin Qry(r) /\ f \notin Ord(r)
  BY <1>1, Dull DEF Reply
(* What tells r is taken by r. *)
<1>4. ASSUME NEW r, Linked(r), n = r[1], f \in Tell(r)
      PROVE  r = <<n, i>> /\ i # 0
  <2>1. taken /\ f.hash = Goal(r)
    BY <1>1, <1>4, Telling DEF Reply
  <2>2. r = <<n, r[2]>> /\ r[2] \in Index(n) /\ IsRemote(n, r[2])
        /\ Entity[n][r[2]].target = Goal(r)
    BY <1>4, Ends DEF Goal
  <2>3. i # 0
    BY <2>1, <2>2, TakerIs
  <2>4. i \in Index(n) /\ IsRemote(n, i) /\ Entity[n][i].target = Goal(r)
    BY <2>1, <2>3, TakerIs
  <2> HIDE DEF i
  <2>5. <<n, i>> \in Remotes /\ Goal(<<n, i>>) = Goal(r)
    BY <2>4, RemoteIs DEF Goal
  <2>6. <<n, i>> = r
    BY <1>4, <2>5, Alone
  <2> QED
    BY <2>3, <2>6
<1>5. b \in 0 .. 1 /\ (f.val \in {0, 1, 10} => (f.val > 0 <=> b = 1))
  BY SwitchIs
<1>6. CASE i = 0
  <2>1. state' = state /\ spoiled' = spoiled /\ Answer(n, m, Nothing)
    BY <1>6 DEF HandleCommandReply
  <2>2. Taken(n, m, Nothing)
    BY <1>1, <2>1, NothingSendable, HeadTaken
  <2>3. ASSUME NEW r, Linked(r) PROVE Mute(r, n, Nothing) /\ Ignored(r, n, m)
    BY <1>2, <1>3, <1>4, <1>6, <2>3, MuteNothing DEF Ignored
  <2> QED
    BY <1>1, <2>1, <2>2, <2>3, Harmless
<1>7. CASE i # 0
  <2> DEFINE out == PublishOut(n, i, b)
  <2>1. /\ Puts(n, i, b) /\ Answer(n, m, out)
        /\ spoiled' = spoiled \cup Spoils(n, i, b, NoDevice)
    BY <1>7 DEF HandleCommandReply, Puts
  <2>2. i \in Index(n) /\ Entity[n][i].type = "switch"
        /\ IsRemote(n, i) /\ Entity[n][i].target = f.hash /\ taken
    BY <1>7, TakerIs DEF IsRemote
  <2>3. Sendable(n, out)
    BY <2>2, PublishSendable
  <2>4. Taken(n, m, out)
    <3> HIDE DEF out
    <3> QED
      BY <1>1, <2>1, <2>3, HeadTaken
  <2>5. \A r : r \in spoiled => r \in spoiled'
    BY <2>1
  <2> HIDE DEF i, b
  <2>6. b \in Unknown .. Full
    BY <1>5, BitIsState
  <2>7. Sound'
    BY <2>1, <2>2, <2>4, <2>6, SetState, TakenCarries DEF Sound
  <2>8. ASSUME NEW r, Linked(r), ShownNow(r) PROVE ShownNow(r)'
    <3>1. CASE r = <<n, i>>
      <4>1. n = r[1] /\ i = r[2] /\ n # Home(r)
        BY <2>8, <3>1, Ends
      <4>2. f.hash = Goal(r)
        BY <2>2, <4>1 DEF Goal
      <4>3. m = Home(r) /\ f \in Tell(r) /\ f.val \in {0, 1}
        BY <1>2, <2>2, <2>8, <4>1, <4>2, Tellers
      <4>4. f.val > 0 <=> b = 1
        BY <1>5, <4>3
      <4>5. Mute(r, n, out)
        BY <2>2, <2>8, <4>1, PublishMute
      <4> HIDE DEF out
      <4> QED
        BY <1>1, <1>2, <1>5, <2>1, <2>4, <2>5, <2>8, <4>1, <4>3, <4>4, <4>5, RemoteHears
    <3>2. CASE TargetOf(r) = <<n, i>>
      <4>1. n = Home(r) /\ i = Place(r) /\ n # r[1] /\ r \in Remotes /\ r[1] # NoDevice
        BY <2>8, <3>2, Ends, Nobody
      <4>2. Informs(r, out, b)
        BY <1>5, <2>8, <4>1, PublishInforms
      <4>3. state[n][i] # b => r \in spoiled'
        BY <2>1, <3>2, <4>1 DEF Spoils
      <4>4. Ignored(r, n, m)
        BY <1>2, <1>3, <4>1 DEF Ignored
      <4> HIDE DEF out
      <4> QED
        BY <1>1, <1>5, <2>1, <2>4, <2>5, <2>8, <4>1, <4>2, <4>3, <4>4, TargetTurns
    <3>3. CASE r # <<n, i>> /\ TargetOf(r) # <<n, i>>
      <4>1. Mute(r, n, out)
        BY <2>2, <2>8, <3>3, CommandMute
      <4>2. Ignored(r, n, m)
        BY <1>2, <1>3, <1>4, <2>8, <3>3 DEF Ignored
      <4>3. /\ state'[r[1]][r[2]] = state[r[1]][r[2]]
            /\ state'[Home(r)][Place(r)] = state[Home(r)][Place(r)]
        BY <2>1, <2>2, <2>6, <2>8, <3>3, OthersKept DEF Sound
      <4> HIDE DEF out
      <4> QED
        BY <1>1, <2>4, <2>5, <2>8, <4>1, <4>2, <4>3, Idle DEF Sound
    <3> QED
      BY <3>1, <3>2, <3>3
  <2> QED
    BY <2>7, <2>8 DEF Kept
<1> QED
  BY <1>6, <1>7

(* What a node does by itself is an answer to no frame. *)
LEMMA ByItself ==
  ASSUME DirectConstants, Wired, NEW n \in Device, NEW out, Sendable(n, out),
         net' = Sent(net, n, out)
  PROVE  /\ Taken(n, NoDevice, out)
         /\ \A r : Linked(r) => Ignored(r, n, NoDevice)
                                /\ NoDevice # r[1] /\ NoDevice # Home(r)
<1>1. Taken(n, NoDevice, out)
  BY DEF Taken
<1>2. ASSUME NEW r, Linked(r)
      PROVE  Ignored(r, n, NoDevice) /\ NoDevice # r[1] /\ NoDevice # Home(r)
  <2>1. NoDevice # r[1] /\ NoDevice # Home(r)
    BY <1>2, Ends, Nobody
  <2> QED
    BY <2>1 DEF Ignored
<1> QED
  BY <1>1, <1>2

LEMMA KeptQuery ==
  ASSUME DirectConstants, Wired, Sound, NEW q \in Remotes, Query(q[1], q[2])
  PROVE  Kept
<1> DEFINE n == q[1]  m == Home(q)  g == GetReq(Goal(q))  out == To(m, g)
<1>1. /\ net' = Sent(net, n, out)
      /\ mRequestUpdate' = mRequestUpdate \ {q} /\ spoiled' = spoiled \ {q}
      /\ UNCHANGED state
  <2>1. q = <<q[1], q[2]>>
    BY DEF Remotes
  <2> QED
    BY <2>1 DEF Query, Home, Goal
<1>2. q[1] \in Device /\ q \in Toward(<<n, m>>)
  BY DEF Remotes, Toward
<1>3. g.cmd = "GET_ENTITY_STATE_REQ" /\ g.hash = Goal(q)
  BY DEF GetReq
<1>4. g \in Carried(<<n, m>>)
  <2>1. g \in Queries(<<n, m>>)
    BY <1>2 DEF Queries
  <2> QED
    BY <2>1 DEF Carried
<1>5. \A r : g \notin Ord(r) /\ g \notin Tell(r)
  BY <1>3, Dull
<1>6. g \in Qry(q)
  BY DEF Qry
<1>7. ASSUME NEW r, Linked(r), n = r[1], m = Home(r), g \in Qry(r) PROVE q = r
  <2>1. Goal(q) = Goal(r)
    BY <1>3, <1>4, <1>7, Requests
  <2> QED
    BY <1>7, <2>1, Alone
<1> HIDE DEF g
<1>8. Sendable(n, out) /\ out[m] = IF m \in Device THEN <<g>> ELSE out[m]
  BY <1>4, ToSendable
<1> HIDE DEF out
<1>9. Taken(n, NoDevice, out)
      /\ \A r : Linked(r) => Ignored(r, n, NoDevice)
                             /\ NoDevice # r[1] /\ NoDevice # Home(r)
  BY <1>1, <1>2, <1>8, ByItself
<1>10. Sound'
  BY <1>1, <1>9, TakenCarries DEF Sound, States
<1>11. ASSUME NEW r, Linked(r), ShownNow(r) PROVE ShownNow(r)'
  <2> DEFINE w == net[ToTarget(r)]  c == net[FromTarget(r)]
             w2 == net'[ToTarget(r)]  c2 == net'[FromTarget(r)]
             x == state[r[1]][r[2]]  y == state[Home(r)][Place(r)]
  <2>1. ShownAt(r, w, c, x, y, mRequestUpdate, spoiled)
    BY <1>11 DEF ShownNow
  <2>2. state'[r[1]][r[2]] = x /\ state'[Home(r)][Place(r)] = y
    BY <1>1
  <2>3. ShownAt(r, w2, c2, x, y, mRequestUpdate', spoiled')
    <3>1. CASE r = q
      <4>1. w \in Seq(Carried(ToTarget(r)))
        BY <1>11, LinksTyped DEF Sound
      <4>2. w2 = w \o out[m] /\ c2 = c
        BY <1>9, <1>11, <3>1, AtRemote DEF Sound
      <4>3. out[m] = <<g>> /\ g \in Carried(ToTarget(r)) /\ g \in Qry(r) /\ g \notin Ord(r)
        BY <1>4, <1>5, <1>6, <1>8, <1>11, <3>1, Ends DEF ToTarget
      <4> HIDE DEF w, c, w2, c2, x, y
      <4>4. Followed(w2, Ord(r), Qry(r))
        BY <4>1, <4>2, <4>3, FollowedNew
      <4>5. Has(w2, Qry(r))
        <5> DEFINE S == Carried(ToTarget(r))  F == Qry(r)
        <5>1. g \in S /\ g \in F /\ w \in Seq(S) /\ w2 = w \o <<g>>
          BY <4>1, <4>2, <4>3
        <5> HIDE DEF S, F
        <5>2. <<g>> \in Seq(S)
          BY <5>1
        <5>3. Has(<<g>>, F)
          BY <5>1, HasNone
        <5>4. Has(w2, F)
          BY <5>1, <5>2, <5>3, HasJoined
        <5> QED
          BY <5>4 DEF F
      <4> QED
        BY <2>1, <4>2, <4>4, <4>5, StepAsks
    <3>2. CASE r # q
      <4>1. Mute(r, n, out)
        BY <1>4, <1>5, <1>7, <1>11, <3>2, MuteTo DEF out
      <4>2. SameRequests(r, w, w2) /\ SameAnswers(r, c, c2)
        BY <1>9, <1>11, <4>1, Unseen DEF Sound
      <4>3. (r \in mRequestUpdate <=> r \in mRequestUpdate') /\ (r \in spoiled => r \in spoiled')
        BY <1>1, <3>2
      <4> HIDE DEF w, c, w2, c2, x, y
      <4> QED
        BY <2>1, <4>2, <4>3, StepStill
    <3> QED
      BY <3>1, <3>2
  <2>4. ShownAt(r, w2, c2, state'[r[1]][r[2]], state'[Home(r)][Place(r)],
                mRequestUpdate', spoiled')
    BY <2>2, <2>3
  <2> QED
    BY <2>4 DEF ShownNow, ToTarget, FromTarget, Home, Place, TargetOf, w2, c2
<1> QED
  BY <1>10, <1>11 DEF Kept

LEMMA KeptCommand ==
  ASSUME DirectConstants, Wired, Sound, NEW n \in Device, NEW i \in Index(n),
         NEW b \in 0 .. 1, Command(n, i, b)
  PROVE  Kept
<1> DEFINE out == CommandOut(n, i, b)
<1>1. /\ Puts(n, i, b) /\ net' = Sent(net, n, out) /\ Entity[n][i].type = "switch"
      /\ mRequestUpdate' = mRequestUpdate
      /\ spoiled' = spoiled \cup Races(n, i) \cup Spoils(n, i, b, NoDevice)
  BY DEF Command, Puts
<1>2. Sendable(n, out)
  BY <1>1, CommandSendable
<1>3. Taken(n, NoDevice, out)
      /\ \A r : Linked(r) => Ignored(r, n, NoDevice)
                             /\ NoDevice # r[1] /\ NoDevice # Home(r)
  <2> HIDE DEF out
  <2> QED
    BY <1>1, <1>2, ByItself
<1>4. b \in Unknown .. Full
  BY BitIsState
<1>5. Sound'
  BY <1>1, <1>3, <1>4, SetState, TakenCarries DEF Sound
<1>6. ASSUME NEW r, Linked(r), ShownNow(r) PROVE ShownNow(r)'
  <2>1. Ignored(r, n, NoDevice) /\ NoDevice # r[1] /\ (r \in spoiled => r \in spoiled')
    BY <1>1, <1>3, <1>6
  <2>2. CASE r = <<n, i>>
    <3>1. n = r[1] /\ i = r[2]
      BY <1>6, <2>2, Ends
    <3>2. Bids(r, out, b)
      BY <1>6, <3>1, CommandBids
    <3>3. Outstanding(r) => r \in spoiled'
      BY <1>1, <1>6, <2>2, Ends DEF Races
    <3> HIDE DEF out
    <3> QED
      BY <1>1, <1>3, <1>6, <2>1, <3>1, <3>2, <3>3, RemoteWritten DEF Bids
  <2>3. CASE TargetOf(r) = <<n, i>>
    <3>1. n = Home(r) /\ i = Place(r) /\ r \in Remotes
      BY <1>6, <2>3, Ends
    <3>2. Informs(r, out, b)
      BY <1>6, <3>1, CommandInforms
    <3>3. state[n][i] # b => r \in spoiled'
      BY <1>1, <2>1, <2>3, <3>1 DEF Spoils
    <3> HIDE DEF out
    <3> QED
      BY <1>1, <1>3, <1>6, <2>1, <3>1, <3>2, <3>3, TargetTurns
  <2>4. CASE r # <<n, i>> /\ TargetOf(r) # <<n, i>>
    <3>1. Mute(r, n, out)
      BY <1>1, <1>6, <2>4, CommandMute
    <3>2. /\ state'[r[1]][r[2]] = state[r[1]][r[2]]
          /\ state'[Home(r)][Place(r)] = state[Home(r)][Place(r)]
      BY <1>1, <1>4, <1>6, <2>4, OthersKept DEF Sound
    <3> HIDE DEF out
    <3> QED
      BY <1>1, <1>3, <1>6, <2>1, <3>1, <3>2, Idle DEF Sound
  <2> QED
    BY <2>2, <2>3, <2>4
<1> QED
  BY <1>5, <1>6 DEF Kept


LEMMA KeptAsk ==
  ASSUME DirectConstants, Wired, Sound, NEW m \in Device, NEW f \in Asked, Ask(m, f)
  PROVE  Kept
<1> DEFINE out == To(m, f)
<1>1. /\ net' = Sent(net, Hub, out)
      /\ UNCHANGED <<state, mRequestUpdate, spoiled>>
  BY DEF Ask
<1>2. Hub \in Device
  BY DEF DirectConstants
<1>3. f \in Carried(<<Hub, m>>)
  BY DEF Carried, Questions
<1>4. f.cmd # "PUB_ENTITY_STATE_REQ" /\ f.cmd # "GET_ENTITY_STATE_REP"
  BY DEF Wired, Reply
<1>5. Sendable(Hub, out)
  BY <1>3, ToSendable
<1>6. ASSUME NEW r, Linked(r) PROVE Mute(r, Hub, out)
  <2>1. f \notin Tell(r)
    BY <1>4, Dull
  <2>2. Hub # r[1]
    BY <1>6, Ends
  <2> QED
    BY <1>3, <1>6, <2>1, <2>2, MuteTo
<1> HIDE DEF out
<1>7. Taken(Hub, NoDevice, out) /\ \A r : Linked(r) => Ignored(r, Hub, NoDevice)
  BY <1>1, <1>2, <1>5, ByItself
<1> QED
  BY <1>1, <1>6, <1>7, Harmless

LEMMA BootState ==
  ASSUME DirectConstants, NEW n \in Device, NEW i \in Index(n)
  PROVE  AfterBoot(n, i) \in Unknown .. Full
<1>1. Level[n][i] \in Unknown .. Full
  BY Entities
<1>2. 0 \in Unknown .. Full /\ Unknown \in Unknown .. Full
  BY Numbers DEF Unknown
<1> QED
  BY <1>1, <1>2 DEF AfterBoot

LEMMA KeptRestart ==
  ASSUME DirectConstants, Wired, Sound, NEW n \in Device, Restart(n)
  PROVE  Kept
<1>1. /\ state' = [state EXCEPT ![n] = [i \in Index(n) |-> AfterBoot(n, i)]]
      /\ mRequestUpdate' = mRequestUpdate \cup {r \in Remotes : r[1] = n}
      /\ net' = [l \in Device \X Device |-> IF l[2] = n THEN <<>> ELSE net[l]]
      /\ spoiled' = spoiled
      /\ \A r \in Remotes : TargetOf(r)[1] # n
  BY DEF Restart
<1>2. States(state)'
  <2>1. [i \in Index(n) |-> AfterBoot(n, i)] \in [Index(n) -> Unknown .. Full]
    BY BootState
  <2> QED
    BY <1>1, <2>1 DEF States, Sound
<1>3. Carries(net)'
  <2>1. DOMAIN net' = Links /\ \A l \in Links : net'[l] = <<>> \/ net'[l] = net[l]
    BY <1>1 DEF Links
  <2>2. ASSUME NEW l \in Links PROVE net'[l] \in Seq(Carried(l))
    <3> DEFINE S == Carried(l)  s == net[l]  s2 == net'[l]
    <3>1. s \in Seq(S) /\ (s2 = <<>> \/ s2 = s)
      BY <2>1 DEF Carries, Sound
    <3> HIDE DEF S, s, s2
    <3>2. <<>> \in Seq(S)
      OBVIOUS
    <3>3. s2 \in Seq(S)
      BY <3>1, <3>2, Zenon
    <3> QED
      BY <3>3 DEF S, s2
  <2> QED
    BY <2>1, <2>2 DEF Carries
<1>4. ASSUME NEW r, Linked(r), ShownNow(r) PROVE ShownNow(r)'
  <2> DEFINE w == net[ToTarget(r)]  c == net[FromTarget(r)]
             w2 == net'[ToTarget(r)]  c2 == net'[FromTarget(r)]
             x == state[r[1]][r[2]]  y == state[Home(r)][Place(r)]
  <2>1. ShownAt(r, w, c, x, y, mRequestUpdate, spoiled)
    BY <1>4 DEF ShownNow
  <2>2. r[1] \in Device /\ Home(r) \in Device /\ r \in Remotes /\ Home(r) # n
    BY <1>1, <1>4, Ends
  <2>3. CASE r[1] = n
    <3>1. c2 = <<>> /\ r \in mRequestUpdate'
      BY <1>1, <2>2, <2>3 DEF FromTarget
    <3> HIDE DEF w, c, w2, c2, x, y
    <3>2. ShownAt(r, w2, c2, state'[r[1]][r[2]], state'[Home(r)][Place(r)],
                  mRequestUpdate', spoiled')
      BY <3>1, StepRestarts
    <3> QED
      BY <3>2 DEF ShownNow, ToTarget, FromTarget, Home, Place, TargetOf, w2, c2
  <2>4. CASE r[1] # n
    <3>1. w2 = w /\ c2 = c
      BY <1>1, <2>2, <2>4 DEF ToTarget, FromTarget
    <3>2. state'[r[1]][r[2]] = x /\ state'[Home(r)][Place(r)] = y
      <4>1. \A a \in Device : a # n => state'[a] = state[a]
        BY <1>1 DEF Sound, States
      <4> QED
        BY <2>2, <2>4, <4>1
    <3>3. r \in mRequestUpdate <=> r \in mRequestUpdate'
      BY <1>1, <2>4
    <3> HIDE DEF w, c, w2, c2, x, y
    <3>4. ShownAt(r, w2, c2, x, y, mRequestUpdate', spoiled')
      BY <1>1, <2>1, <3>1, <3>3, SameSame, StepStill
    <3>5. ShownAt(r, w2, c2, state'[r[1]][r[2]], state'[Home(r)][Place(r)],
                  mRequestUpdate', spoiled')
      BY <3>2, <3>4
    <3> QED
      BY <3>5 DEF ShownNow, ToTarget, FromTarget, Home, Place, TargetOf, w2, c2
  <2> QED
    BY <2>3, <2>4
<1> QED
  BY <1>2, <1>3, <1>4 DEF Kept, Sound

LEMMA KeptDeliver ==
  ASSUME DirectConstants, Wired, Sound, NEW n \in Device, NEW m \in Device, Deliver(n, m)
  PROVE  Kept
BY KeptEntitiesCount, KeptGetEntityHash, KeptGetEntityState, KeptSetEntityState,
   KeptPublishEntityState, KeptUnanswered, KeptCommandReply DEF Deliver

-----------------------------------------------------------------------------
(* The invariant: as long as the mesh has neither lost nor repeated a      *)
(* frame, every link carries what it may and every remote switch is shown  *)
(* its target's state or is about to be.                                   *)

Spending == [commands : Nat, asks : Nat, faults : Nat, restarts : Nat]

Histories ==
  /\ mRequestUpdate \subseteq Remotes /\ spoiled \subseteq Remotes
  /\ heard \in [Remotes -> Device \cup {NoDevice}]

Showing ==
  /\ spent \in Spending /\ Sound
  /\ spent.faults = 0 => \A r : Linked(r) => ShownNow(r)

(* A frame that is lost or repeated is one the link may carry. *)
LEMMA SoundFault ==
  ASSUME Sound, NEW l \in Links, NEW k \in DOMAIN net[l],
         LoseFrame(l, k) \/ RepeatFrame(l, k)
  PROVE  Sound'
<1> DEFINE S == Carried(l)  s == net[l]  less == RemoveAt(s, k)  more == Append(s, s[k])
<1>1. s \in Seq(S) /\ k \in DOMAIN s
  BY DEF Sound, Carries
<1>2. less \in Seq(S) /\ more \in Seq(S)
  <2> HIDE DEF S, s
  <2>1. /\ Len(s) \in Nat /\ k \in 1 .. Len(s)
        /\ \A i \in 1 .. Len(s) : s[i] \in S
    BY <1>1, LenProperties, ElementOfSeq
  <2> DEFINE p == SubSeq(s, 1, k - 1)  q == SubSeq(s, k + 1, Len(s))
  <2>2. p \in Seq(S)
    BY <2>1, SubSeqProperties
  <2>3. q \in Seq(S)
    BY <2>1, SubSeqProperties
  <2>4. less = p \o q
    BY DEF RemoveAt
  <2> HIDE DEF p, q, less
  <2>5. less \in Seq(S)
    BY <2>2, <2>3, <2>4, Joined
  <2>6. more \in Seq(S)
    BY <1>1, <2>1, AppendProperties
  <2> QED
    BY <2>5, <2>6
<1>3. /\ DOMAIN net' = Links /\ net'[l] \in {less, more}
      /\ \A x \in Links : x # l => net'[x] = net[x]
  BY DEF LoseFrame, RepeatFrame, Sound, Carries
<1>4. net'[l] \in Seq(S)
  <2> HIDE DEF less, more, S
  <2> QED
    BY <1>2, <1>3
<1>5. \A x \in Links : net'[x] \in Seq(Carried(x))
  BY <1>3, <1>4 DEF Sound, Carries
<1> QED
  BY <1>3, <1>5 DEF Sound, Carries, States, LoseFrame, RepeatFrame

LEMMA ShowingInit ==
  ASSUME DirectConstants, Wired, DirectInit
  PROVE  Showing
<1>1. spent \in Spending
  BY DEF DirectInit, Spending
<1>2. States(state)
  BY DEF DirectInit, States, DirectConstants
<1>3. Carries(net)
  <2>1. DOMAIN net = Links /\ \A l \in Links : net[l] = <<>>
    BY DEF DirectInit, Links
  <2>2. \A l \in Links : <<>> \in Seq(Carried(l))
    OBVIOUS
  <2> QED
    BY <2>1, <2>2, Zenon DEF Carries
<1>4. ASSUME NEW r, Linked(r) PROVE ShownNow(r)
  <2>1. FromTarget(r) \in Links /\ r \in Remotes
    BY <1>3, <1>4, LinksTyped, Ends
  <2>2. net[FromTarget(r)] = <<>> /\ r \in mRequestUpdate
    BY <2>1 DEF DirectInit, Links
  <2> QED
    BY <2>2, StepRestarts DEF ShownNow
<1> QED
  BY <1>1, <1>2, <1>3, <1>4 DEF Showing, Sound

(* Moves are counted, and only a fault counts as one. *)
LEMMA Counted ==
  ASSUME spent \in Spending, NEW what \in {"commands", "asks", "faults", "restarts"},
         Spend(what)
  PROVE  /\ spent' \in Spending
         /\ what # "faults" => spent'.faults = spent.faults
         /\ what = "faults" => spent'.faults # 0
         /\ spent'.faults = 0 => spent.faults = 0
<1>1. spent' = [spent EXCEPT ![what] = @ + 1]
  BY DEF Spend
<1> QED
  BY <1>1 DEF Spending

LEMMA ShowingStep ==
  ASSUME DirectConstants, Wired, Showing, [DirectNext]_directVars
  PROVE  Showing'
<1>1. spent \in Spending
  BY DEF Showing
<1>2. ASSUME spent' = spent \/ \E what \in {"commands", "asks", "restarts"} : Spend(what),
             Kept
      PROVE  Showing'
  <2>1. spent' \in Spending /\ (spent'.faults = 0 => spent.faults = 0)
    BY <1>1, <1>2, Counted
  <2>2. Sound' /\ (spent.faults = 0 => \A r : Linked(r) => ShownNow(r)')
    BY <1>2 DEF Showing, Kept
  <2> QED
    BY <2>1, <2>2 DEF Showing
<1>3. CASE UNCHANGED directVars
  BY <1>3 DEF directVars, Showing, Sound, States, Carries, ShownNow
<1>4. ASSUME NEW q \in Remotes, Query(q[1], q[2]) PROVE Showing'
  <2>1. spent' = spent
    BY <1>4 DEF Query
  <2>2. Kept
    BY <1>4, KeptQuery DEF Showing
  <2> QED
    BY <1>2, <2>1, <2>2
<1>5. ASSUME NEW n \in Device, NEW i \in Index(n), NEW b \in 0 .. 1, Command(n, i, b)
      PROVE  Showing'
  <2>1. Spend("commands")
    BY <1>5 DEF Command
  <2>2. Kept
    BY <1>5, KeptCommand DEF Showing
  <2> QED
    BY <1>2, <2>1, <2>2
<1>6. ASSUME NEW m \in Device, NEW f \in Asked, Ask(m, f) PROVE Showing'
  <2>1. Spend("asks")
    BY <1>6 DEF Ask
  <2>2. Kept
    BY <1>6, KeptAsk DEF Showing
  <2> QED
    BY <1>2, <2>1, <2>2
<1>7. ASSUME NEW n \in Device, NEW m \in Device, Deliver(n, m) PROVE Showing'
  <2>1. spent' = spent
    BY <1>7 DEF Deliver, HandleEntitiesCount, HandleGetEntityHash, HandleGetEntityState,
          HandleSetEntityState, HandlePublishEntityState, HandleCustomData,
          HandleCommandReply, DropFrame
  <2>2. Kept
    BY <1>7, KeptDeliver DEF Showing
  <2> QED
    BY <1>2, <2>1, <2>2
<1>8. ASSUME NEW l \in Links, NEW k \in DOMAIN net[l], LoseFrame(l, k) \/ RepeatFrame(l, k)
      PROVE  Showing'
  <2>1. Spend("faults")
    BY <1>8 DEF LoseFrame, RepeatFrame
  <2>2. spent' \in Spending /\ spent'.faults # 0
    BY <1>1, <2>1, Counted
  <2>3. Sound'
    BY <1>8, SoundFault DEF Showing
  <2> QED
    BY <2>2, <2>3 DEF Showing
<1>9. ASSUME NEW n \in Device, Restart(n) PROVE Showing'
  <2>1. Spend("restarts")
    BY <1>9 DEF Restart
  <2>2. Kept
    BY <1>9, KeptRestart DEF Showing
  <2> QED
    BY <1>2, <2>1, <2>2
<1> QED
  BY <1>3, <1>4, <1>5, <1>6, <1>7, <1>8, <1>9 DEF DirectNext, Links

(* When nothing is under way, what is shown is the target's state. *)
LEMMA ShowingShows ==
  ASSUME DirectConstants, Wired, Showing
  PROVE  RemoteShowsTarget
<1> SUFFICES ASSUME Quiet, spent.faults = 0, NEW r \in Remotes,
                    TargetOf(r)[2] # 0, Distinct(r), Mirrored(r) \/ r \notin spoiled
             PROVE  (state[r[1]][r[2]] = 1) <=> (state[TargetOf(r)[1]][TargetOf(r)[2]] = 1)
  BY DEF RemoteShowsTarget
<1>1. Linked(r)
  BY DEF Linked
<1>2. Sound /\ ShownNow(r)
  BY <1>1 DEF Showing
<1> DEFINE w == net[ToTarget(r)]  c == net[FromTarget(r)]
           x == state[r[1]][r[2]]  y == state[Home(r)][Place(r)]
<1>3. ShownAt(r, w, c, x, y, mRequestUpdate, spoiled)
  BY <1>2 DEF ShownNow
<1>4. w = <<>> /\ c = <<>> /\ r \notin mRequestUpdate
  BY <1>1, <1>2, LinksTyped DEF Quiet, Links, Sound
<1>5. y = state[TargetOf(r)[1]][TargetOf(r)[2]]
  BY <1>1, Ends
<1> HIDE DEF w, c, y
<1>6. ~Has(w, Qry(r)) /\ ~Has(w, Ord(r)) /\ ~Has(c, Tell(r))
  BY <1>4, HasNone
<1>7. x = 1 <=> y = 1
  BY <1>3, <1>4, <1>6 DEF ShownAt, MirrorAt, CopyAt
<1> QED
  BY <1>5, <1>7

(* When all is quiet and the mesh has neither lost nor repeated a frame,   *)
(* every remote switch shows the state of its target, unless its target    *)
(* publishes nothing to it and it was written during its query, or the     *)
(* target was changed by somebody else: in every network that is wired as  *)
(* the protocol expects, whatever is commanded, asked and restarted        *)
(* (MeshMeshSwitch, handleFrame and the SET, GET and PUB handlers).        *)
THEOREM RemoteShowsTargetCorrect ==
  ASSUME DirectConstants, Wired
  PROVE  DirectSpec => []RemoteShowsTarget
<1>1. DirectInit => Showing
  BY ShowingInit
<1>2. Showing /\ [DirectNext]_directVars => Showing'
  BY ShowingStep
<1>3. Showing => RemoteShowsTarget
  BY ShowingShows
<1> QED
  BY <1>1, <1>2, <1>3, PTL DEF DirectSpec

LEMMA HistoriesStep ==
  ASSUME DirectConstants, Histories, [DirectNext]_directVars
  PROVE  Histories'
<1>1. CASE UNCHANGED directVars
  BY <1>1 DEF directVars, Histories
<1>2. ASSUME NEW q \in Remotes, Query(q[1], q[2]) PROVE Histories'
  BY <1>2 DEF Query, Histories
<1>3. \A n, i, b, by : Spoils(n, i, b, by) \subseteq Remotes /\ Races(n, i) \subseteq Remotes
  BY DEF Spoils, Races
<1>4. ASSUME NEW n \in Device, NEW i \in Index(n), NEW b \in 0 .. 1, Command(n, i, b)
      PROVE  Histories'
  BY <1>3, <1>4 DEF Command, Histories
<1>5. ASSUME NEW m \in Device, NEW f \in Asked, Ask(m, f) PROVE Histories'
  BY <1>5 DEF Ask, Histories
<1>6. ASSUME NEW n \in Device, NEW m \in Device, NEW f, HandleSetEntityState(n, m, f)
      PROVE  Histories'
  BY <1>3, <1>6 DEF HandleSetEntityState, Histories
<1>7. ASSUME NEW n \in Device, NEW m \in Device, NEW f, HandlePublishEntityState(n, m, f)
      PROVE  Histories'
  BY <1>3, <1>7 DEF HandlePublishEntityState, Histories
<1>8. ASSUME NEW n \in Device, NEW m \in Device, NEW f, HandleCommandReply(n, m, f)
      PROVE  Histories'
  <2>1. spoiled' \subseteq Remotes /\ mRequestUpdate' = mRequestUpdate
    BY <1>3, <1>8 DEF HandleCommandReply, Histories
  <2>2. heard' = heard \/ heard' = [heard EXCEPT ![<<n, Taker(n, f)>>] = m]
    BY <1>8 DEF HandleCommandReply
  <2>3. heard' \in [Remotes -> Device \cup {NoDevice}]
    BY <2>2 DEF Histories
  <2> QED
    BY <2>1, <2>3 DEF Histories
<1>9. ASSUME NEW n \in Device, NEW m \in Device, Deliver(n, m) PROVE Histories'
  BY <1>6, <1>7, <1>8, <1>9 DEF Deliver, HandleEntitiesCount, HandleGetEntityHash,
     HandleGetEntityState, HandleCustomData, DropFrame, Histories
<1>10. ASSUME NEW l, NEW k, LoseFrame(l, k) \/ RepeatFrame(l, k) PROVE Histories'
  BY <1>10 DEF LoseFrame, RepeatFrame, Histories
<1>11. ASSUME NEW n \in Device, Restart(n) PROVE Histories'
  BY <1>11 DEF Restart, Histories
<1> QED
  BY <1>1, <1>2, <1>4, <1>5, <1>9, <1>10, <1>11 DEF DirectNext

(* Every entity's state stays in its type and every frame on a link has a  *)
(* cause that the configuration names, whatever is lost and repeated       *)
(* (the conversions of values in handleSetEntityStateFrame and             *)
(* handleGetEntityStateFrame; the handlers answer whoever asks).           *)
THEOREM DirectTypeCorrect ==
  ASSUME DirectConstants, Wired
  PROVE  DirectSpec => [](Sound /\ Histories)
<1>1. DirectInit => Showing /\ Histories
  BY ShowingInit DEF DirectInit, Histories
<1>2. Showing /\ Histories /\ [DirectNext]_directVars => (Showing /\ Histories)'
  BY ShowingStep, HistoriesStep
<1>3. Showing /\ Histories => Sound /\ Histories
  BY DEF Showing
<1> QED
  BY <1>1, <1>2, <1>3, PTL DEF DirectSpec
=============================================================================
