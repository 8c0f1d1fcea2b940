----------------------------- MODULE SdlsProofs -----------------------------
(***************************************************************************)
(* Theorems about data link security: of its frames, for every width of    *)
(* the sequence number field and every window, and of the administration   *)
(* of keys and associations, for every number of keys, associations and    *)
(* OTAR blocks.                                                            *)
(***************************************************************************)
EXTENDS Sdls, SdlsKeys, TLAPS

\* The frames on the air and those that process_security passed.
SdlsFrame == [n : Nat, sn : Nat, intact : BOOLEAN]

\* Every variable of the association has its type.
SdlsTypeOK ==
    /\ service \in ServiceType
    /\ sn_mod \in SnMods
    /\ rx_sequence \in Nat
    /\ tx_sequence \in Nat
    /\ sent_frames \in Nat
    /\ on_air \subseteq SdlsFrame
    /\ \A f \in on_air : f.sn < sn_mod
    /\ accepted \in Seq(SdlsFrame)

\* apply_security never makes two frames with the same number.
FramesDiffer ==
    /\ \A f \in on_air : f.n < sent_frames
    /\ \A f, g \in on_air : f.n = g.n => f = g

\* What was passed was sent, and the receiver's counter is beyond all of it.
AcceptedIsPast ==
    Protected =>
        \A i \in DOMAIN accepted :
            /\ accepted[i] \in on_air /\ accepted[i].intact
            /\ Numbered => accepted[i].sn < rx_sequence

\* The inductive invariant: NoReplay alone does not say why the counter of the
\* receiver excludes the frames it has passed.
SdlsInv == SdlsTypeOK /\ FramesDiffer /\ AcceptedIsPast /\ NoReplay
-----------------------------------------------------------------------------
\* The invariant holds when the association is set up.
LEMMA SdlsInvInit == SdlsInit => SdlsInv
  BY SdlsAssumption
  DEF SdlsInit, SdlsInv, SdlsTypeOK, FramesDiffer, AcceptedIsPast, NoReplay, Protected, Numbered

\* A frame that apply_security makes has a new number and changes nothing else.
LEMMA ApplyKeepsInv == SdlsInv /\ ApplySecurity => SdlsInv'
<1> SUFFICES ASSUME SdlsInv, ApplySecurity PROVE SdlsInv'
  OBVIOUS
<1> DEFINE new == Frame(sent_frames, SnField(tx_sequence), TRUE)
<1> USE DEF SdlsInv
<1>1. new \in SdlsFrame /\ new.n = sent_frames /\ new.sn < sn_mod
  <2>1. tx_sequence % sn_mod \in 0 .. (sn_mod - 1)
    BY SdlsAssumption DEF SdlsTypeOK
  <2>2. sn_mod \in Nat /\ tx_sequence % sn_mod \in Nat /\ tx_sequence % sn_mod < sn_mod
    BY <2>1, SdlsAssumption DEF SdlsTypeOK
  <2> QED
    BY <2>2 DEF SdlsTypeOK, SdlsFrame, Frame, SnField
<1>2. on_air' = on_air \cup {new} /\ sent_frames' = sent_frames + 1
  BY DEF ApplySecurity
<1> HIDE DEF new
<1>3. SdlsTypeOK'
  <2>1. tx_sequence' \in Nat
    BY SdlsAssumption DEF ApplySecurity, SdlsTypeOK
  <2>2. /\ on_air' \subseteq SdlsFrame /\ sent_frames' \in Nat
        /\ \A f \in on_air' : f.sn < sn_mod
    BY <1>1, <1>2 DEF SdlsTypeOK
  <2>3. UNCHANGED <<service, sn_mod, rx_sequence, accepted>>
    BY DEF ApplySecurity
  <2> QED
    BY <2>1, <2>2, <2>3 DEF SdlsTypeOK
<1>4. FramesDiffer'
  <2>1. \A f \in on_air : f.n \in Nat /\ f.n < sent_frames
    BY DEF SdlsTypeOK, FramesDiffer, SdlsFrame
  <2>2. \A f \in on_air' : f.n < sent_frames'
    BY <1>1, <1>2, <2>1 DEF SdlsTypeOK
  <2>3. \A f, g \in on_air' : f.n = g.n => f = g
    BY <1>1, <1>2, <2>1 DEF SdlsTypeOK, FramesDiffer
  <2> QED
    BY <2>2, <2>3 DEF FramesDiffer
<1>5. AcceptedIsPast' /\ NoReplay'
  BY <1>2 DEF ApplySecurity, AcceptedIsPast, NoReplay, Protected, Numbered
<1> QED
  BY <1>3, <1>4, <1>5

\* A frame that process_security passes is beyond all that were passed before it.
LEMMA ProcessKeepsInv ==
    ASSUME SdlsInv, NEW sent \in on_air, NEW f \in OnAir(sent), ProcessSecurity(f)
    PROVE  SdlsInv'
<1> USE DEF SdlsInv
<1>1. f \in SdlsFrame /\ f.sn < sn_mod /\ (f.intact => f = sent)
  <2>1. sent \in SdlsFrame /\ sent.n \in Nat /\ sent.sn < sn_mod
    BY DEF SdlsTypeOK, SdlsFrame
  <2>2. CASE f = sent
    BY <2>1, <2>2
  <2>3. CASE f \in {Frame(sent.n, sn, FALSE) : sn \in 0 .. (sn_mod - 1)}
    <3>1. PICK sn \in 0 .. (sn_mod - 1) : f = [n |-> sent.n, sn |-> sn, intact |-> FALSE]
      BY <2>3 DEF Frame
    <3> QED
      BY <2>1, <3>1, SdlsAssumption DEF SdlsFrame, SdlsTypeOK
  <2> QED
    BY <2>2, <2>3 DEF OnAir
<1>2. /\ accepted' = Append(accepted, f)
      /\ on_air' = on_air /\ sent_frames' = sent_frames /\ service' = service
      /\ tx_sequence' = tx_sequence /\ sn_mod' = sn_mod
  BY DEF ProcessSecurity
<1>3. /\ accepted' \in Seq(SdlsFrame) /\ Len(accepted') = Len(accepted) + 1
      /\ DOMAIN accepted = 1 .. Len(accepted) /\ DOMAIN accepted' = 1 .. (Len(accepted) + 1)
      /\ \A i \in DOMAIN accepted : accepted'[i] = accepted[i]
      /\ accepted'[Len(accepted) + 1] = f
      /\ Len(accepted) \in Nat
  BY <1>1, <1>2 DEF SdlsTypeOK
<1>4. Protected' = Protected /\ Numbered' = Numbered
  BY <1>2 DEF Protected, Numbered
<1>5. CASE ~Numbered
  <2>1. rx_sequence' = rx_sequence /\ (Protected => f = sent /\ f.intact)
    BY <1>1, <1>5 DEF ProcessSecurity, Verified
  <2>2. SdlsTypeOK' /\ FramesDiffer'
    BY <1>2, <1>3, <2>1 DEF SdlsTypeOK, FramesDiffer
  <2>3. AcceptedIsPast' /\ NoReplay'
    BY <1>2, <1>3, <1>4, <1>5, <2>1 DEF AcceptedIsPast, NoReplay
  <2> QED
    BY <2>2, <2>3
<1>6. CASE Numbered
  <2>1. Protected /\ f = sent /\ f.intact /\ f.sn >= rx_sequence
    BY <1>1, <1>6 DEF ProcessSecurity, Verified, InWindow, Numbered
  <2>2. rx_sequence' = f.sn + 1
    <3>1. f.sn \in 0 .. (sn_mod - 1) /\ sn_mod \in 1 .. (CounterMod - 1)
      BY <1>1, SdlsAssumption DEF SdlsFrame, SdlsTypeOK
    <3>2. f.sn + 1 \in 0 .. (CounterMod - 1)
      BY <3>1, SdlsAssumption
    <3>3. (f.sn + 1) % CounterMod = f.sn + 1
      BY <3>2, SdlsAssumption
    <3> QED
      BY <1>6, <3>3 DEF ProcessSecurity
  <2>3. SdlsTypeOK' /\ FramesDiffer'
    BY <1>1, <1>2, <1>3, <2>2, SdlsAssumption DEF SdlsTypeOK, FramesDiffer, SdlsFrame
  <2>4. \A i \in DOMAIN accepted : accepted[i].sn \in Int
    <3>1. \A i \in DOMAIN accepted : accepted[i] \in SdlsFrame
      BY <1>3 DEF SdlsTypeOK
    <3> QED
      BY <3>1 DEF SdlsFrame
  <2>5. \A i \in DOMAIN accepted :
            accepted[i] \in on_air /\ accepted[i].intact /\ accepted[i].sn < f.sn
    <3>1. f.sn \in Int /\ rx_sequence \in Int
      BY <1>1, SdlsAssumption DEF SdlsTypeOK, SdlsFrame
    <3> QED
      BY <1>6, <2>1, <2>4, <3>1 DEF AcceptedIsPast
  <2>6. AcceptedIsPast'
    <3>1. f.sn \in Int
      BY <1>1 DEF SdlsFrame
    <3> QED
      BY <1>2, <1>3, <1>4, <2>1, <2>2, <2>5, <2>4, <3>1 DEF AcceptedIsPast
  <2>7. \A i \in DOMAIN accepted : accepted[i].n # f.n
    <3>1. SUFFICES ASSUME NEW i \in DOMAIN accepted, accepted[i].n = f.n PROVE FALSE
      OBVIOUS
    <3>2. accepted[i] = f
      BY <2>1, <2>5, <3>1 DEF FramesDiffer
    <3>3. f.sn \in Int
      BY <1>1 DEF SdlsFrame
    <3> QED
      BY <2>5, <3>2, <3>3
  <2>8. NoReplay'
    <3>1. \A i \in DOMAIN accepted' : accepted'[i].intact
      BY <1>3, <2>1, <2>5
    <3>2. ASSUME NEW i \in DOMAIN accepted', NEW j \in DOMAIN accepted', i < j
          PROVE  accepted'[i].n # accepted'[j].n
      <4>1. i \in DOMAIN accepted
        BY <1>3, <3>2
      <4>2. CASE j \in DOMAIN accepted
        BY <1>3, <1>6, <3>2, <4>1, <4>2 DEF NoReplay
      <4>3. CASE j = Len(accepted) + 1
        BY <1>3, <2>7, <4>1, <4>3
      <4> QED
        BY <1>3, <3>2, <4>2, <4>3
    <3> QED
      BY <3>1, <3>2, <1>4, <1>6, <2>1 DEF NoReplay
  <2> QED
    BY <2>3, <2>6, <2>8
<1> QED
  BY <1>5, <1>6

\* Every step keeps the invariant.
LEMMA SdlsInvStep == SdlsInv /\ [SdlsNext]_sdls_vars => SdlsInv'
<1> SUFFICES ASSUME SdlsInv, [SdlsNext]_sdls_vars PROVE SdlsInv'
  OBVIOUS
<1>1. CASE ApplySecurity
  BY <1>1, ApplyKeepsInv
<1>2. CASE \E sent \in on_air : \E f \in OnAir(sent) : ProcessSecurity(f)
  BY <1>2, ProcessKeepsInv
<1>3. CASE UNCHANGED sdls_vars
  BY <1>3 DEF sdls_vars, SdlsInv, SdlsTypeOK, FramesDiffer, AcceptedIsPast, NoReplay,
              Protected, Numbered
<1> QED
  BY <1>1, <1>2, <1>3 DEF SdlsNext

\* A protected association passes only frames that were sent and, where their header
\* has a sequence number, none of them twice: for every length of the field below eight
\* bytes (at length 0 nothing keeps a repeated frame out) and every window.
THEOREM SdlsNoReplay == SdlsSpec => []NoReplay
<1>1. SdlsInv => NoReplay
  BY DEF SdlsInv
<1> QED
  BY SdlsInvInit, SdlsInvStep, <1>1, PTL DEF SdlsSpec
-----------------------------------------------------------------------------
(* Keys and associations.                                                  *)

KeyState == {"Preactive", "Active", "Deactivated", "Destroyed"}

\* Every key in the ring and every association in the table has its type.
KeysTypeOK ==
    /\ \A k \in DOMAIN keys : k \in KeyIds /\ keys[k] \in KeyState
    /\ \A spi \in DOMAIN sas :
          sas[spi] \in [state : {"Unkeyed", "Keyed", "Operational"},
                        key : KeyIds \cup {NoKey}, arsn : Arsns \cup {0}]

\* A step of the ring: the keys age and the table stays.
RingAges ==
    /\ \A x \in DOMAIN keys' : x \in KeyIds /\ keys'[x] \in KeyState
    /\ \A x \in KeyIds : Age(keys, x) <= Age(keys', x)
    /\ sas' = sas

\* The inductive invariant.
KeysInv == KeysTypeOK /\ OperationalHasKey
-----------------------------------------------------------------------------
\* A ring with one more key: the others stay as they are.
LEMMA LoadFacts ==
    ASSUME NEW ring, NEW k \in KeyIds, Loadable(ring, k),
           \A x \in DOMAIN ring : x \in KeyIds /\ ring[x] \in KeyState
    PROVE  LET new == Put(ring, k, "Preactive")
           IN  /\ \A x \in DOMAIN new : x \in KeyIds /\ new[x] \in KeyState
               /\ \A x \in KeyIds : Age(ring, x) <= Age(new, x)
<1> DEFINE new == Put(ring, k, "Preactive")
<1>1. /\ DOMAIN new = DOMAIN ring \cup {k} /\ k \notin DOMAIN ring
      /\ new[k] = "Preactive"
      /\ \A x \in DOMAIN ring : new[x] = ring[x]
  <2>1. k \notin DOMAIN ring
    BY DEF Loadable
  <2>2. /\ DOMAIN new = DOMAIN ring \cup {k}
        /\ new[k] = "Preactive"
        /\ \A x \in DOMAIN ring : x # k => new[x] = ring[x]
    BY DEF Put
  <2> HIDE DEF new
  <2> QED
    BY <2>1, <2>2
<1> HIDE DEF new
<1>2. \A x \in DOMAIN new : x \in KeyIds /\ new[x] \in KeyState
  BY <1>1 DEF KeyState
<1>3. ASSUME NEW x \in KeyIds PROVE Age(ring, x) <= Age(new, x)
  <2>1. CASE x = k
    BY <1>1, <2>1 DEF Age
  <2>2. CASE x # k /\ x \in DOMAIN ring
    <3>1. new[x] = ring[x] /\ x \in DOMAIN new /\ ring[x] \in KeyState
      BY <1>1, <2>2
    <3> QED
      BY <2>2, <3>1 DEF Age, KeyState
  <2>3. CASE x # k /\ x \notin DOMAIN ring
    BY <1>1, <2>3 DEF Age
  <2> QED
    BY <2>1, <2>2, <2>3
<1> QED
  BY <1>2, <1>3 DEF new

\* The procedures that change the state of one key take it one way.
LEMMA SetKeyFacts ==
    ASSUME KeysInv, NEW k \in DOMAIN keys,
           NEW state \in KeyState, SetKey(k, state),
           \/ keys[k] = "Preactive" /\ state = "Active"
           \/ keys[k] = "Active" /\ state = "Deactivated"
           \/ state = "Destroyed"
    PROVE  RingAges
<1>1. /\ DOMAIN keys' = DOMAIN keys /\ keys'[k] = state /\ sas' = sas
      /\ \A x \in DOMAIN keys : x # k => keys'[x] = keys[x]
  BY DEF SetKey
<1>2. \A x \in DOMAIN keys : x \in KeyIds /\ keys[x] \in KeyState
  BY DEF KeysInv, KeysTypeOK
<1>3. ASSUME NEW x \in KeyIds PROVE Age(keys, x) <= Age(keys', x)
  <2>1. CASE x = k
    BY <1>1, <1>2, <2>1 DEF Age, KeyState
  <2>2. CASE x # k /\ x \in DOMAIN keys
    <3>1. keys'[x] = keys[x] /\ x \in DOMAIN keys' /\ keys[x] \in KeyState
      BY <1>1, <1>2, <2>2
    <3> QED
      BY <2>2, <3>1 DEF Age, KeyState
  <2>3. CASE x \notin DOMAIN keys
    BY <1>1, <2>3 DEF Age
  <2> QED
    BY <2>1, <2>2, <2>3
<1> QED
  BY <1>1, <1>2, <1>3 DEF RingAges

\* No procedure on the ring makes a key younger.
LEMMA RingStep ==
    ASSUME KeysInv,
           \/ \E k \in KeyIds : LoadKey(k) \/ Activate(k) \/ Deactivate(k) \/ Destroy(k)
           \/ \E k, a, b \in KeyIds : Otar(k, <<a, b>>)
    PROVE  RingAges
<1>1. \A x \in DOMAIN keys : x \in KeyIds /\ keys[x] \in KeyState
  BY DEF KeysInv, KeysTypeOK
<1>2. ASSUME NEW r, \A x \in DOMAIN r : x \in KeyIds /\ r[x] \in KeyState
      PROVE  \A x : Age(r, x) \in Nat
  BY <1>2 DEF Age, KeyState
<1>3. CASE keys' = keys /\ sas' = sas
  BY <1>1, <1>2, <1>3 DEF RingAges
<1>4. ASSUME NEW k \in KeyIds, LoadKey(k) PROVE RingAges
  BY <1>1, <1>4, LoadFacts DEF LoadKey, RingAges
<1>5. ASSUME NEW k \in KeyIds, Activate(k) \/ Deactivate(k) \/ Destroy(k) PROVE RingAges
  BY <1>5, SetKeyFacts DEF Activate, Deactivate, Destroy, KeyState
<1>6. ASSUME NEW k \in KeyIds, NEW a \in KeyIds, NEW b \in KeyIds, Otar(k, <<a, b>>)
      PROVE  RingAges
  <2> DEFINE first == Put(keys, a, "Preactive")
             both  == Put(first, b, "Preactive")
  <2>1. sas' = sas /\ keys' = IF ~Loadable(keys, a) THEN keys
                              ELSE IF ~Loadable(first, b) THEN first ELSE both
    BY <1>6 DEF Otar
  <2>2. Loadable(keys, a) =>
            /\ \A x \in DOMAIN first : x \in KeyIds /\ first[x] \in KeyState
            /\ \A x \in KeyIds : Age(keys, x) <= Age(first, x)
    BY <1>1, LoadFacts
  <2>3. Loadable(keys, a) /\ Loadable(first, b) =>
            /\ \A x \in DOMAIN both : x \in KeyIds /\ both[x] \in KeyState
            /\ \A x \in KeyIds : Age(first, x) <= Age(both, x)
    <3> HIDE DEF first
    <3> QED
      BY <2>2, LoadFacts
  <2> HIDE DEF first, both
  <2>4. Loadable(keys, a) /\ Loadable(first, b) =>
            \A x \in KeyIds : Age(keys, x) <= Age(both, x)
    <3> SUFFICES ASSUME Loadable(keys, a), Loadable(first, b), NEW x \in KeyIds
                 PROVE  Age(keys, x) <= Age(both, x)
      OBVIOUS
    <3>1. Age(keys, x) \in Nat /\ Age(first, x) \in Nat /\ Age(both, x) \in Nat
      BY <1>1, <1>2, <2>2, <2>3
    <3>2. Age(keys, x) <= Age(first, x) /\ Age(first, x) <= Age(both, x)
      BY <2>2, <2>3
    <3> QED
      BY <3>1, <3>2
  <2> QED
    BY <1>3, <2>1, <2>2, <2>3, <2>4 DEF RingAges
<1> QED
  BY <1>4, <1>5, <1>6

\* No procedure on the table leaves an association in use without a key.
LEMMA TableStep ==
    ASSUME KeysInv, NEW spi \in Spis,
           \/ Create(spi) \/ Delete(spi) \/ StartSa(spi) \/ StopSa(spi) \/ ExpireSa(spi)
           \/ \E k \in KeyIds : Rekey(spi, k)
           \/ \E arsn \in Arsns : SetArsn(spi, arsn)
    PROVE  KeysInv' /\ keys' = keys
<1> DEFINE SaType == [state : {"Unkeyed", "Keyed", "Operational"},
                      key : KeyIds \cup {NoKey}, arsn : Arsns \cup {0}]
           Good(sa) == sa \in SaType /\ (sa.state # "Unkeyed" <=> sa.key # NoKey)
<1>1. \A s \in DOMAIN sas : Good(sas[s])
  BY DEF KeysInv, KeysTypeOK, OperationalHasKey
<1>2. ASSUME keys' = keys, \A s \in DOMAIN sas' : Good(sas'[s])
      PROVE  KeysInv' /\ keys' = keys
  BY <1>2 DEF KeysInv, KeysTypeOK, OperationalHasKey
<1>3. CASE Create(spi)
  <2> DEFINE new == [state |-> "Unkeyed", key |-> NoKey, arsn |-> 0]
  <2>1. Good(new)
    OBVIOUS
  <2>2. sas' = Put(sas, spi, new) /\ keys' = keys
    BY <1>3 DEF Create
  <2> HIDE DEF new
  <2>3. /\ DOMAIN sas' = DOMAIN sas \cup {spi}
        /\ sas'[spi] = new
        /\ \A s \in DOMAIN sas : s # spi => sas'[s] = sas[s]
    BY <2>2 DEF Put
  <2> HIDE DEF Good
  <2>4. \A s \in DOMAIN sas' : Good(sas'[s])
    <3> SUFFICES ASSUME NEW s \in DOMAIN sas' PROVE Good(sas'[s])
      OBVIOUS
    <3>1. CASE s = spi
      BY <2>1, <2>3, <3>1
    <3>2. CASE s # spi
      BY <1>1, <2>3, <3>2
    <3> QED
      BY <3>1, <3>2
  <2> QED
    BY <1>2, <2>2, <2>4
<1>4. CASE Delete(spi)
  <2> HIDE DEF Good
  <2> QED
    BY <1>1, <1>2, <1>4 DEF Delete
<1>5. ASSUME NEW sa, Good(sa), SetSa(spi, sa) PROVE KeysInv' /\ keys' = keys
  <2> HIDE DEF Good
  <2> QED
    BY <1>1, <1>2, <1>5 DEF SetSa
<1>6. CASE StartSa(spi)
  <2>1. Good([sas[spi] EXCEPT !.state = "Operational"])
    BY <1>1, <1>6 DEF StartSa
  <2> QED
    BY <1>5, <1>6, <2>1 DEF StartSa
<1>7. CASE StopSa(spi)
  <2>1. Good([sas[spi] EXCEPT !.state = "Keyed"])
    BY <1>1, <1>7 DEF StopSa
  <2> QED
    BY <1>5, <1>7, <2>1 DEF StopSa
<1>8. CASE ExpireSa(spi)
  <2>1. Good([sas[spi] EXCEPT !.key = NoKey, !.state = "Unkeyed"])
    BY <1>1, <1>8 DEF ExpireSa
  <2> QED
    BY <1>5, <1>8, <2>1 DEF ExpireSa
<1>9. ASSUME NEW k \in KeyIds, Rekey(spi, k) PROVE KeysInv' /\ keys' = keys
  <2>1. Good([sas[spi] EXCEPT !.key = k, !.state = "Keyed"])
    BY <1>1, <1>9, KeysAssumption DEF Rekey
  <2> QED
    BY <1>5, <1>9, <2>1 DEF Rekey
<1>10. ASSUME NEW arsn \in Arsns, SetArsn(spi, arsn) PROVE KeysInv' /\ keys' = keys
  <2>1. Good([sas[spi] EXCEPT !.arsn = arsn])
    BY <1>1, <1>10 DEF SetArsn
  <2> QED
    BY <1>5, <1>10, <2>1 DEF SetArsn
<1> QED
  BY <1>3, <1>4, <1>6, <1>7, <1>8, <1>9, <1>10

\* Every step keeps the invariant, and no step makes a key younger.
LEMMA KeysInvStep ==
    ASSUME KeysInv, [KeysNext]_keys_vars
    PROVE  KeysInv' /\ [\A k \in KeyIds : Age(keys, k) <= Age(keys', k)]_keys_vars
<1>1. CASE RingAges
  BY <1>1 DEF RingAges, KeysInv, KeysTypeOK, OperationalHasKey
<1>2. CASE KeysInv' /\ keys' = keys
  <2>1. \A k \in KeyIds : Age(keys, k) \in Nat
    BY DEF Age, KeysInv, KeysTypeOK, KeyState
  <2> QED
    BY <1>2, <2>1
<1>3. CASE UNCHANGED keys_vars
  BY <1>3 DEF keys_vars, KeysInv, KeysTypeOK, OperationalHasKey
<1>4. CASE KeysNext
  BY <1>1, <1>2, <1>4, RingStep, TableStep DEF KeysNext
<1> QED
  BY <1>3, <1>4

\* An association in use has a key, whatever the order of the procedures.
THEOREM KeysOperational == KeysSpec => []OperationalHasKey
<1>1. KeysInit => KeysInv
  BY DEF KeysInit, KeysInv, KeysTypeOK, OperationalHasKey
<1>2. KeysInv /\ [KeysNext]_keys_vars => KeysInv'
  BY KeysInvStep
<1>3. KeysInv => OperationalHasKey
  BY DEF KeysInv
<1> QED
  BY <1>1, <1>2, <1>3, PTL DEF KeysSpec

\* The life of a key goes one way, also when an OTAR block is given up halfway.
THEOREM KeysAge == KeysSpec => KeysOnlyAge
<1>1. KeysInit => KeysInv
  BY DEF KeysInit, KeysInv, KeysTypeOK, OperationalHasKey
<1>2. KeysInv /\ [KeysNext]_keys_vars => KeysInv'
  BY KeysInvStep
<1>3. KeysInv /\ [KeysNext]_keys_vars => [\A k \in KeyIds : Age(keys, k) <= Age(keys', k)]_keys_vars
  BY KeysInvStep
<1> QED
  BY <1>1, <1>2, <1>3, PTL DEF KeysSpec, KeysOnlyAge
=============================================================================
