---------------------------- MODULE KeyRingProofs ----------------------------
(***************************************************************************)
(* Proofs about KeyRing: its types, and that a ring that unwraps is that   *)
(* of one revision.                                                        *)
(***************************************************************************)
EXTENDS KeyRing, SequenceTheorems, TLAPS

LEMMA SeqUpToDef ==
  ASSUME NEW S, NEW n \in Nat, NEW s
  PROVE  s \in SeqUpTo(S, n) <=>
           s \in Seq(S) /\ Len(s) \in 1..n /\ DOMAIN s = 1..Len(s)
<1>1. ASSUME s \in SeqUpTo(S, n) PROVE s \in Seq(S) /\ Len(s) \in 1..n
  <2>1. PICK m \in 1..n : s \in [1..m -> S]
    BY <1>1 DEF SeqUpTo
  <2>2. s \in Seq(S)
    BY <2>1, SeqDef
  <2>3. DOMAIN s = 1..m /\ DOMAIN s = 1..Len(s) /\ Len(s) \in Nat
    BY <2>1, <2>2, LenProperties
  <2>4. Len(s) = m
    BY <2>3
  <2> QED BY <2>2, <2>4
<1>2. ASSUME s \in Seq(S), Len(s) \in 1..n PROVE s \in SeqUpTo(S, n)
  <2>1. s \in [1..Len(s) -> S]
    BY <1>2, LenProperties
  <2> QED BY <1>2, <2>1 DEF SeqUpTo
<1>3. s \in Seq(S) => DOMAIN s = 1..Len(s)
  BY LenProperties
<1> QED BY <1>1, <1>2, <1>3

LEMMA WrapRingFacts ==
  ASSUME NEW ring \in SeqUpTo(Key, MaxRing), NEW kek \in Kek
  PROVE  /\ WrapRing(kek, ring) \in SeqUpTo(Entry, MaxRing)
         /\ Len(WrapRing(kek, ring)) = Len(ring)
         /\ \A i \in 1..Len(ring) :
              WrapRing(kek, ring)[i] =
                [kek |-> kek, ad |-> AdWrap(Len(ring), i), key |-> ring[i]]
<1> USE ParametersAssumption
<1> DEFINE w == WrapRing(kek, ring)
<1>1. ring \in Seq(Key) /\ Len(ring) \in 1..MaxRing /\ Len(ring) \in Nat
  BY SeqUpToDef
<1>2. ASSUME NEW i \in 1..Len(ring)
      PROVE  [kek |-> kek, ad |-> AdWrap(Len(ring), i), key |-> ring[i]] \in Entry
  <2>1. ring[i] \in Key
    BY <1>1, ElementOfSeq
  <2>2. AdWrap(Len(ring), i) \in Nat \X Nat
    BY <1>1 DEF AdWrap
  <2> QED BY <2>1, <2>2 DEF Entry
<1>3. w \in [1..Len(ring) -> Entry]
  BY <1>2 DEF WrapRing
<1>4. w \in SeqUpTo(Entry, MaxRing)
  BY <1>1, <1>3 DEF SeqUpTo
<1>5. DOMAIN w = 1..Len(ring) /\ DOMAIN w = 1..Len(w) /\ Len(w) \in Nat
  BY <1>3, <1>4, SeqUpToDef
<1>6. Len(w) = Len(ring)
  BY <1>1, <1>5
<1> QED BY <1>4, <1>6 DEF WrapRing

LEMMA WrappedType ==
  ASSUME NEW pw \in Password, NEW s \in Salt, NEW d \in Kdf,
         NEW ring \in SeqUpTo(Key, MaxRing)
  PROVE  Wrapped(pw, s, d, ring) \in Config
<1>1. DeriveKek(pw, s, d) \in Kek
  BY DEF DeriveKek, Kek
<1> QED BY <1>1, WrapRingFacts DEF Wrapped, Config

LEMMA UnlockedRingType ==
  ASSUME NEW c \in Config
  PROVE  /\ UnlockedRing(c) \in SeqUpTo(Key, MaxRing)
         /\ Len(UnlockedRing(c)) = Len(c.entries)
         /\ \A i \in 1..Len(c.entries) : UnlockedRing(c)[i] = c.entries[i].key
<1> USE ParametersAssumption
<1> DEFINE e == c.entries  ks == UnlockedRing(c)
<1>1. e \in Seq(Entry) /\ Len(e) \in 1..MaxRing /\ Len(e) \in Nat
  <2>1. e \in SeqUpTo(Entry, MaxRing)
    BY DEF Config
  <2> QED BY <2>1, SeqUpToDef
<1>2. \A i \in 1..Len(e) : e[i].key \in Key
  <2>1. \A i \in 1..Len(e) : e[i] \in Entry
    BY <1>1, ElementOfSeq
  <2> QED BY <2>1 DEF Entry
<1>3. ks \in [1..Len(e) -> Key]
  BY <1>2 DEF UnlockedRing, KeysOf
<1>4. ks \in SeqUpTo(Key, MaxRing)
  BY <1>1, <1>3 DEF SeqUpTo
<1>5. DOMAIN ks = 1..Len(e) /\ DOMAIN ks = 1..Len(ks) /\ Len(ks) \in Nat
  BY <1>3, <1>4, SeqUpToDef
<1>6. Len(ks) = Len(e)
  BY <1>1, <1>5
<1> QED BY <1>4, <1>6 DEF UnlockedRing, KeysOf

LEMMA SingleRing ==
  ASSUME NEW k \in Key
  PROVE  <<k>> \in SeqUpTo(Key, MaxRing)
<1>1. <<k>> \in [1..1 -> Key]
  OBVIOUS
<1>2. 1 \in 1..MaxRing
  BY ParametersAssumption
<1> QED BY <1>1, <1>2 DEF SeqUpTo

-----------------------------------------------------------------------------
(***************************************************************************)
(* The inductive invariant: every revision is a ring wrapped under its own *)
(* salt, and every line of the config comes from some revision.            *)
(***************************************************************************)

WrappedRevisions ==
  \A r \in revisions :
    r.config = Wrapped(r.password, r.config.salt, r.config.kdf, r.ring)

SaltsDiffer ==
  \A r, q \in revisions : r.config.salt = q.config.salt => r = q

LinesAreOurs ==
  /\ config.salt \in UsedSalts
  /\ \A i \in 1..Len(config.entries) : config.entries[i] \in Lines

Opened == pc # "idle" => loaded \in Config

IInv == TypeOK /\ WrappedRevisions /\ SaltsDiffer /\ LinesAreOurs /\ Opened

\* A config that is a revision consists of its lines.
LEMMA RevisionsHaveLines ==
  ASSUME NEW r \in revisions
  PROVE  /\ r.config.salt \in UsedSalts
         /\ \A i \in 1..Len(r.config.entries) : r.config.entries[i] \in Lines
BY DEF UsedSalts, Lines

\* What an entry that unwraps tells of where it comes from.
LEMMA UnwrappedLine ==
  ASSUME IInv, NEW pw \in Password, Unlocks(config, pw),
         NEW i \in 1..Len(config.entries), NEW r \in revisions,
         r.config.salt = config.salt
  PROVE  /\ Len(r.ring) = Len(config.entries)
         /\ config.entries[i].key = r.ring[i]
         /\ r.password = pw
         /\ r.config.kdf = config.kdf
<1> USE DEF IInv
<1> DEFINE e == config.entries[i]  n == Len(config.entries)
<1>1. /\ e.kek = DeriveKek(pw, config.salt, config.kdf)
      /\ e.ad = AdWrap(n, i)
  BY DEF Unlocks, Unwraps
<1>2a. PICK q \in revisions : e \in {q.config.entries[x] : x \in 1..Len(q.config.entries)}
  BY DEF LinesAreOurs, Lines
<1>2. PICK j \in 1..Len(q.config.entries) : e = q.config.entries[j]
  BY <1>2a
<1>3. q \in Revision /\ q.ring \in SeqUpTo(Key, MaxRing)
      /\ q.password \in Password /\ q.config.salt \in Salt /\ q.config.kdf \in Kdf
  BY DEF TypeOK, Revision, Config
<1>4. DeriveKek(q.password, q.config.salt, q.config.kdf) \in Kek
  BY <1>3 DEF DeriveKek, Kek
<1>5. q.config.entries = WrapRing(DeriveKek(q.password, q.config.salt, q.config.kdf), q.ring)
  <2>1. q.config = Wrapped(q.password, q.config.salt, q.config.kdf, q.ring)
    BY DEF WrappedRevisions
  <2> QED BY <2>1 DEF Wrapped
<1>6. /\ Len(q.config.entries) = Len(q.ring)
      /\ j \in 1..Len(q.ring)
      /\ e = [kek |-> DeriveKek(q.password, q.config.salt, q.config.kdf),
              ad |-> AdWrap(Len(q.ring), j), key |-> q.ring[j]]
  BY <1>2, <1>3, <1>4, <1>5, WrapRingFacts
<1>7. DeriveKek(q.password, q.config.salt, q.config.kdf)
        = DeriveKek(pw, config.salt, config.kdf)
  BY <1>1, <1>6
<1>8. q.password = pw /\ q.config.salt = config.salt /\ q.config.kdf = config.kdf
  BY <1>7 DEF DeriveKek
<1>9. Len(q.ring) = n /\ j = i
  BY <1>1, <1>6 DEF AdWrap
<1>10. q = r
  BY <1>8 DEF SaltsDiffer
<1> QED BY <1>6, <1>8, <1>9, <1>10

LEMMA OneRevision == IInv => RingOfOneRevision
<1> SUFFICES ASSUME IInv, NEW pw \in Password, Unlocks(config, pw)
             PROVE  /\ config.salt \in UsedSalts
                    /\ \A r \in revisions :
                         r.config.salt = config.salt =>
                           /\ r.config.kdf = config.kdf
                           /\ r.password = pw
                           /\ r.ring = UnlockedRing(config)
  BY DEF RingOfOneRevision
<1>1. config.salt \in UsedSalts
  BY DEF IInv, LinesAreOurs
<1>2. ASSUME NEW r \in revisions, r.config.salt = config.salt
      PROVE  r.config.kdf = config.kdf /\ r.password = pw /\ r.ring = UnlockedRing(config)
  <2> DEFINE ks == UnlockedRing(config)  n == Len(config.entries)
  <2>1. config \in Config /\ r.ring \in SeqUpTo(Key, MaxRing)
    BY DEF IInv, TypeOK, Revision
  <2>2. /\ ks \in SeqUpTo(Key, MaxRing)
        /\ Len(ks) = n
        /\ \A i \in 1..n : ks[i] = config.entries[i].key
    BY <2>1, UnlockedRingType
  <2>3. /\ n \in 1..MaxRing
        /\ ks \in Seq(Key) /\ r.ring \in Seq(Key)
    BY <2>1, <2>2, SeqUpToDef, ParametersAssumption
  <2>4. ASSUME NEW i \in 1..n
        PROVE  /\ Len(r.ring) = n
               /\ ks[i] = r.ring[i]
               /\ r.password = pw
               /\ r.config.kdf = config.kdf
    BY <1>2, <2>2, UnwrappedLine
  <2>5. 1 \in 1..n
    BY <2>3
  <2>6. Len(r.ring) = n /\ r.password = pw /\ r.config.kdf = config.kdf
    BY <2>4, <2>5
  <2>7. r.ring = ks
    BY <2>2, <2>3, <2>4, <2>6, SeqEqual
  <2> QED BY <2>6, <2>7
<1> QED BY <1>1, <1>2

-----------------------------------------------------------------------------
LEMMA InitIInv == Init => IInv
<1> SUFFICES ASSUME Init PROVE IInv
  OBVIOUS
<1>1. PICK pw \in Password, s \in Salt, d \in Kdf, k \in Key :
        /\ config = Wrapped(pw, s, d, <<k>>)
        /\ revisions = {[config |-> config, password |-> pw, ring |-> <<k>>]}
        /\ password = pw
  BY DEF Init
<1>2. merges = 0 /\ pc = "idle" /\ loaded = NoConfig /\ stale = FALSE /\ flags = {}
  BY DEF Init
<1> DEFINE r == [config |-> config, password |-> pw, ring |-> <<k>>]
<1>3. config \in Config /\ <<k>> \in SeqUpTo(Key, MaxRing)
  BY <1>1, WrappedType, SingleRing
<1>4. r \in revisions /\ r \in Revision
  BY <1>1, <1>3 DEF Revision
<1>5. TypeOK
  <2>1. revisions \in SUBSET Revision
    BY <1>1, <1>4
  <2>2. flags \in Flags
    BY <1>2, ParametersAssumption
  <2> QED BY <1>1, <1>2, <1>3, <2>1, <2>2 DEF TypeOK
<1>6. WrappedRevisions
  <2>1. config.salt = s /\ config.kdf = d
    BY <1>1 DEF Wrapped
  <2> QED BY <1>1, <2>1 DEF WrappedRevisions
<1>7. SaltsDiffer
  BY <1>1 DEF SaltsDiffer
<1>8. LinesAreOurs
  BY <1>4, RevisionsHaveLines DEF LinesAreOurs
<1> QED BY <1>2, <1>5, <1>6, <1>7, <1>8 DEF IInv, Opened

\* A ring written to the config under a salt no revision has.
LEMMA RewriteKeepsIInv ==
  ASSUME IInv, pc # "idle", NEW pw \in Password, NEW d \in Kdf,
         NEW ring \in SeqUpTo(Key, MaxRing), Rewrite(pw, d, ring)
  PROVE  IInv'
<1> USE DEF IInv
<1>0. /\ pc' = "idle" /\ loaded' = NoConfig /\ stale' = FALSE
      /\ UNCHANGED <<password, flags, merges>>
  BY DEF Rewrite, Close
<1>1. CASE UNCHANGED <<config, revisions>>
  <2>1. TypeOK'
    BY <1>0, <1>1 DEF TypeOK
  <2> QED BY <1>0, <1>1, <2>1 DEF WrappedRevisions, SaltsDiffer, LinesAreOurs, Lines,
                                  UsedSalts, Opened
<1>2. CASE \E s \in FreshSalt :
             /\ config' = Wrapped(pw, s, d, ring)
             /\ revisions' = revisions \cup
                  {[config |-> config', password |-> pw, ring |-> ring]}
  <2>1. PICK s \in Salt \ UsedSalts :
          /\ config' = Wrapped(pw, s, d, ring)
          /\ revisions' = revisions \cup
               {[config |-> config', password |-> pw, ring |-> ring]}
    BY <1>2 DEF FreshSalt, UnusedSalt
  <2> DEFINE r == [config |-> config', password |-> pw, ring |-> ring]
  <2>2. config' \in Config /\ config'.salt = s /\ config'.kdf = d
    <3>1. Wrapped(pw, s, d, ring) \in Config
      BY WrappedType
    <3> QED BY <2>1, <3>1 DEF Wrapped
  <2>3. r \in Revision /\ r \in revisions'
    BY <2>1, <2>2 DEF Revision
  <2>4. TypeOK'
    <3>1. revisions' \in SUBSET Revision
      BY <2>1, <2>3 DEF TypeOK
    <3> QED BY <1>0, <2>2, <3>1 DEF TypeOK
  <2>5. WrappedRevisions'
    <3>1. r.config = Wrapped(r.password, r.config.salt, r.config.kdf, r.ring)
      BY <2>1, <2>2
    <3> HIDE DEF r
    <3>2. \A q \in revisions' : q \in revisions \/ q = r
      BY <2>1 DEF r
    <3> QED BY <3>1, <3>2 DEF WrappedRevisions
  <2>6. SaltsDiffer'
    <3>1. \A q \in revisions : q.config.salt # r.config.salt
      BY <2>1, <2>2 DEF UsedSalts
    <3> HIDE DEF r
    <3>2. \A q \in revisions' : q \in revisions \/ q = r
      BY <2>1 DEF r
    <3> QED BY <3>1, <3>2 DEF SaltsDiffer
  <2>7. LinesAreOurs'
    <3>1. config' = r.config
      OBVIOUS
    <3>2. config'.salt \in UsedSalts'
      BY <2>3, <3>1 DEF UsedSalts
    <3>3. \A i \in 1..Len(config'.entries) : config'.entries[i] \in Lines'
      BY <2>3, <3>1 DEF Lines
    <3> QED BY <3>2, <3>3 DEF LinesAreOurs
  <2> QED BY <1>0, <2>4, <2>5, <2>6, <2>7 DEF Opened
<1> QED BY <1>1, <1>2 DEF Rewrite

LEMMA StepIInv == IInv /\ [Next]_vars => IInv'
<1> SUFFICES ASSUME IInv, [Next]_vars PROVE IInv'
  OBVIOUS
<1> USE DEF IInv
<1>1. CASE UNCHANGED vars
  BY <1>1 DEF vars, command, TypeOK, WrappedRevisions, SaltsDiffer, LinesAreOurs, Lines,
              UsedSalts, Opened
<1>2. ASSUME NEW c \in {"passwd", "fresh", "prune"}, NEW pw \in Password, NEW f \in Flags,
             Unlock(c, pw, f)
      PROVE  IInv'
  <2>1. TypeOK'
    BY <1>2 DEF Unlock, TypeOK
  <2> QED BY <1>2, <2>1 DEF Unlock, TypeOK, WrappedRevisions, SaltsDiffer, LinesAreOurs,
                            Lines, UsedSalts, Opened
<1>3. ASSUME NEW pw \in Password, NEW d \in Kdf, Passwd(pw, d)
      PROVE  IInv'
  <2>1. loaded \in Config /\ pc # "idle"
    BY <1>3 DEF Passwd, Opened
  <2>2. Rewrite(pw, d, UnlockedRing(loaded))
    BY <1>3 DEF Passwd, Rewrapped, WholeRing
  <2> QED BY <2>1, <2>2, UnlockedRingType, RewriteKeepsIInv
<1>4. ASSUME NEW k \in Key, Mint(k)
      PROVE  IInv'
  <2> DEFINE ring == UnlockedRing(loaded)
  <2>1. loaded \in Config /\ pc # "idle"
    BY <1>4 DEF Mint, Opened
  <2>2. ring \in Seq(Key) /\ Len(ring) \in 1..MaxRing /\ ~(Len(ring) >= MaxRing)
    BY <1>4, <2>1, UnlockedRingType, SeqUpToDef, ParametersAssumption DEF Mint, RingFull
  <2>3. <<k>> \in Seq(Key) /\ Len(<<k>>) = 1
    OBVIOUS
  <2>4. <<k>> \o ring \in Seq(Key) /\ Len(<<k>> \o ring) = 1 + Len(ring)
    BY <2>2, <2>3, ConcatProperties
  <2>5. <<k>> \o ring \in SeqUpTo(Key, MaxRing)
    <3>1. Len(<<k>> \o ring) \in 1..MaxRing
      BY <2>2, <2>4, ParametersAssumption
    <3>2. <<k>> \o ring \in [1..Len(<<k>> \o ring) -> Key]
      BY <2>4, LenProperties
    <3> QED BY <3>1, <3>2 DEF SeqUpTo
  <2>6. password \in Password /\ loaded.kdf \in Kdf
    BY <2>1 DEF TypeOK, Config
  <2> QED BY <1>4, <2>1, <2>5, <2>6, RewriteKeepsIInv DEF Mint
<1>5. CASE Prune
  <2> DEFINE ring == UnlockedRing(loaded)
  <2>1. loaded \in Config /\ pc # "idle"
    BY <1>5 DEF Prune, Opened
  <2>2. ring \in Seq(Key) /\ Len(ring) \in 1..MaxRing
    BY <2>1, UnlockedRingType, SeqUpToDef, ParametersAssumption
  <2>3. ring[1] \in Key
    <3>1. 1 \in 1..Len(ring)
      BY <2>2, ParametersAssumption
    <3> QED BY <2>2, <3>1, ElementOfSeq
  <2>4. FirstOnly(ring) \in SeqUpTo(Key, MaxRing)
    BY <2>3, SingleRing DEF FirstOnly
  <2>5. password \in Password /\ loaded.kdf \in Kdf
    BY <2>1 DEF TypeOK, Config
  <2> QED BY <1>5, <2>1, <2>4, <2>5, RewriteKeepsIInv DEF Prune
<1>6. CASE GiveUp
  <2>1. TypeOK'
    BY <1>6 DEF GiveUp, Close, TypeOK
  <2> QED BY <1>6, <2>1 DEF GiveUp, Close, WrappedRevisions, SaltsDiffer, LinesAreOurs,
                            Lines, UsedSalts, Opened
<1>7. CASE Merge
  <2>0. PICK r \in revisions, q \in revisions, e \in SeqUpTo(Lines, MaxRing) :
          config' = [salt |-> r.config.salt, kdf |-> q.config.kdf, entries |-> e]
    BY <1>7 DEF Merge
  <2>1. UNCHANGED <<revisions, pc, loaded, password, flags>> /\ merges' = merges + 1
        /\ stale' \in BOOLEAN
    BY <1>7 DEF Merge, TypeOK
  <2>2. Lines \subseteq Entry
    <3>1. ASSUME NEW x \in revisions, NEW i \in 1..Len(x.config.entries)
          PROVE  x.config.entries[i] \in Entry
      <4>1. x.config.entries \in SeqUpTo(Entry, MaxRing)
        BY DEF TypeOK, Revision, Config
      <4>2. x.config.entries \in Seq(Entry)
        BY <4>1, SeqUpToDef, ParametersAssumption
      <4> QED BY <4>2, ElementOfSeq
    <3> QED BY <3>1 DEF Lines
  <2>3. e \in Seq(Lines) /\ Len(e) \in 1..MaxRing
    BY SeqUpToDef, ParametersAssumption
  <2>4. e \in SeqUpTo(Entry, MaxRing)
    <3>1. e \in Seq(Entry)
      BY <2>2, <2>3, SeqMonotonic
    <3> QED BY <2>3, <3>1, SeqUpToDef, ParametersAssumption
  <2>5. r.config.salt \in Salt /\ q.config.kdf \in Kdf
    BY DEF TypeOK, Revision, Config
  <2>6. config' \in Config
    BY <2>0, <2>4, <2>5 DEF Config
  <2>7. TypeOK'
    BY <2>1, <2>6 DEF TypeOK
  <2>8. LinesAreOurs'
    <3>1. config'.salt \in UsedSalts /\ config'.entries = e
      BY <2>0 DEF UsedSalts
    <3>2. \A i \in 1..Len(e) : e[i] \in Lines
      BY <2>3, ElementOfSeq
    <3> QED BY <2>1, <3>1, <3>2 DEF LinesAreOurs, UsedSalts, Lines
  <2> QED BY <2>1, <2>7, <2>8 DEF WrappedRevisions, SaltsDiffer, Opened
<1>8. CASE Checkout
  <2>1. PICK r \in revisions : config' = r.config
    BY <1>8 DEF Checkout
  <2>2. UNCHANGED <<revisions, merges, pc, loaded, password, flags>> /\ stale' \in BOOLEAN
    BY <1>8 DEF Checkout
  <2>3. config' \in Config
    BY <2>1 DEF TypeOK, Revision
  <2>4. TypeOK'
    BY <2>2, <2>3 DEF TypeOK
  <2>5. LinesAreOurs'
    BY <2>1, <2>2, RevisionsHaveLines DEF LinesAreOurs, UsedSalts, Lines
  <2> QED BY <2>2, <2>4, <2>5 DEF WrappedRevisions, SaltsDiffer, Opened
<1> QED BY <1>1, <1>2, <1>3, <1>4, <1>5, <1>6, <1>7, <1>8 DEF Next

LEMMA IInvHolds == Spec => []IInv
BY InitIInv, StepIInv, PTL DEF Spec

\* The variables keep their types: no command writes a ring longer than
\* MAX_RING_LEN, and none that is empty.
THEOREM RingTypes == Spec => []TypeOK
<1>1. IInv => TypeOK
  BY DEF IInv
<1> QED BY <1>1, IInvHolds, PTL

\* Whatever lines of the config's history are put together, unwrap_ring yields
\* the ring of one revision, whole, or nothing: for any number of keys, salts,
\* passwords and merges.
THEOREM UnwrapsOneRevision == Spec => []RingOfOneRevision
BY OneRevision, IInvHolds, PTL

-----------------------------------------------------------------------------
\* What a command has loaded is on disk unless somebody replaced it.
LoadedOK == pc # "idle" /\ ~stale => loaded = config

LEMMA LoadedStep == LoadedOK /\ [Next]_vars => LoadedOK'
<1> SUFFICES ASSUME LoadedOK, [Next]_vars PROVE LoadedOK'
  OBVIOUS
<1>1. ASSUME NEW pw, NEW d, NEW ring, Rewrite(pw, d, ring)
      PROVE  LoadedOK'
  BY <1>1 DEF Rewrite, Close, LoadedOK
<1>2. CASE \/ \E c \in {"passwd", "fresh", "prune"}, pw \in Password, f \in Flags :
                Unlock(c, pw, f)
           \/ GiveUp
  BY <1>2 DEF Unlock, GiveUp, Close, LoadedOK
<1>3. CASE \/ \E pw \in Password, d \in Kdf : Passwd(pw, d)
           \/ \E k \in Key : Mint(k)
           \/ Prune
  BY <1>1, <1>3 DEF Passwd, Mint, Prune
<1>4. CASE Merge
  BY <1>4 DEF Merge, LoadedOK
<1>5. CASE Checkout
  BY <1>5 DEF Checkout, LoadedOK
<1>6. CASE UNCHANGED vars
  BY <1>6 DEF vars, command, LoadedOK
<1> QED BY <1>2, <1>3, <1>4, <1>5, <1>6 DEF Next

LEMMA LoadedHolds == Spec => []LoadedOK
<1>1. Init => LoadedOK
  BY DEF Init, LoadedOK
<1> QED BY <1>1, LoadedStep, PTL DEF Spec

\* The ring that a rewrite wraps is the one that unlocks.
LEMMA WrappedKeys ==
  ASSUME NEW pw \in Password, NEW s \in Salt, NEW d \in Kdf,
         NEW ring \in SeqUpTo(Key, MaxRing)
  PROVE  KeysIn(UnlockedRing(Wrapped(pw, s, d, ring))) = KeysIn(ring)
<1> DEFINE c == Wrapped(pw, s, d, ring)
<1>1. DeriveKek(pw, s, d) \in Kek
  BY DEF DeriveKek, Kek
<1>2. c \in Config
  BY WrappedType
<1>3. /\ Len(c.entries) = Len(ring)
      /\ \A i \in 1..Len(ring) : c.entries[i].key = ring[i]
  <2> DEFINE kek == DeriveKek(pw, s, d)
  <2>1. c.entries = WrapRing(kek, ring)
    BY DEF Wrapped
  <2> HIDE DEF kek, c
  <2>2. kek \in Kek
    BY <1>1 DEF kek
  <2>3. /\ Len(WrapRing(kek, ring)) = Len(ring)
        /\ \A i \in 1..Len(ring) :
             WrapRing(kek, ring)[i] =
               [kek |-> kek, ad |-> AdWrap(Len(ring), i), key |-> ring[i]]
    BY <2>2, WrapRingFacts
  <2>4. ASSUME NEW i \in 1..Len(ring)  PROVE WrapRing(kek, ring)[i].key = ring[i]
    <3> DEFINE e(j) == [kek |-> kek, ad |-> AdWrap(Len(ring), j), key |-> ring[j]]
    <3>1. WrapRing(kek, ring)[i] = e(i)
      BY <2>3
    <3>2. e(i).key = ring[i]
      OBVIOUS
    <3> HIDE DEF e
    <3> QED BY <3>1, <3>2
  <2> QED BY <2>1, <2>3, <2>4, Zenon
<1> HIDE DEF c
<1>4. /\ Len(UnlockedRing(c)) = Len(ring)
      /\ \A i \in 1..Len(ring) : UnlockedRing(c)[i] = ring[i]
  BY <1>2, <1>3, UnlockedRingType
<1>5. KeysIn(UnlockedRing(c)) = KeysIn(ring)
  BY <1>4 DEF KeysIn
<1> QED BY <1>5 DEF c

LEMMA RewriteKeeps ==
  ASSUME IInv, LoadedOK, pc # "idle", revisions' # revisions,
         NEW pw \in Password, NEW d \in Kdf, NEW ring \in SeqUpTo(Key, MaxRing),
         KeysIn(UnlockedRing(loaded)) \subseteq KeysIn(ring), Rewrite(pw, d, ring)
  PROVE  KeysIn(UnlockedRing(config)) \subseteq KeysIn(UnlockedRing(config'))
<1>1. PICK s \in Salt : config' = Wrapped(pw, s, d, ring)
  BY DEF Rewrite, FreshSalt, UnusedSalt
<1>2. ~stale
  BY DEF Rewrite, Replaced
<1>3. loaded = config
  BY <1>2 DEF LoadedOK
<1> QED BY <1>1, <1>3, WrappedKeys

LEMMA MintedRing ==
  ASSUME IInv, NEW k \in Key, Mint(k)
  PROVE  LET ring == UnlockedRing(loaded)
         IN  /\ <<k>> \o ring \in SeqUpTo(Key, MaxRing)
             /\ KeysIn(ring) \subseteq KeysIn(<<k>> \o ring)
<1> DEFINE ring == UnlockedRing(loaded)
<1>1. loaded \in Config
  BY DEF Mint, Opened, IInv
<1>2. ring \in Seq(Key) /\ Len(ring) \in 1..MaxRing /\ ~(Len(ring) >= MaxRing)
  BY <1>1, UnlockedRingType, SeqUpToDef, ParametersAssumption DEF Mint, RingFull
<1>3. <<k>> \in Seq(Key) /\ Len(<<k>>) = 1
  OBVIOUS
<1> HIDE DEF ring
<1>4. /\ <<k>> \o ring \in Seq(Key) /\ Len(<<k>> \o ring) = 1 + Len(ring)
      /\ \A i \in 1..Len(ring) : (<<k>> \o ring)[i + 1] = ring[i]
  BY <1>2, <1>3
<1>5. Len(<<k>> \o ring) \in 1..MaxRing /\ DOMAIN (<<k>> \o ring) = 1..Len(<<k>> \o ring)
  BY <1>2, <1>4, ParametersAssumption
<1>6. \A i \in 1..Len(ring) : i + 1 \in 1..Len(<<k>> \o ring)
  BY <1>2, <1>4
<1>7. KeysIn(ring) \subseteq KeysIn(<<k>> \o ring)
  BY <1>4, <1>6 DEF KeysIn
<1> QED BY <1>4, <1>5, <1>7, SeqUpToDef, ParametersAssumption DEF ring

LEMMA KeysKept ==
  ASSUME IInv, LoadedOK, [Next]_vars, revisions' # revisions, pc # "prune"
  PROVE  KeysIn(UnlockedRing(config)) \subseteq KeysIn(UnlockedRing(config'))
<1>1. ASSUME NEW pw \in Password, NEW d \in Kdf, Passwd(pw, d)
      PROVE  KeysIn(UnlockedRing(config)) \subseteq KeysIn(UnlockedRing(config'))
  <2>1. pc # "idle" /\ loaded \in Config
    BY <1>1 DEF Passwd, IInv, Opened
  <2>2. Rewrite(pw, d, UnlockedRing(loaded))
    BY <1>1 DEF Passwd, Rewrapped, WholeRing
  <2> QED BY <2>1, <2>2, UnlockedRingType, RewriteKeeps
<1>2. ASSUME NEW k \in Key, Mint(k)
      PROVE  KeysIn(UnlockedRing(config)) \subseteq KeysIn(UnlockedRing(config'))
  <2> DEFINE ring == <<k>> \o UnlockedRing(loaded)
  <2>1. pc # "idle" /\ loaded \in Config /\ password \in Password
    BY <1>2 DEF Mint, IInv, Opened, TypeOK
  <2>2. loaded.kdf \in Kdf
    BY <2>1 DEF Config
  <2>3. ring \in SeqUpTo(Key, MaxRing) /\ KeysIn(UnlockedRing(loaded)) \subseteq KeysIn(ring)
    BY <1>2, MintedRing
  <2>4. Rewrite(password, loaded.kdf, ring)
    BY <1>2 DEF Mint
  <2> HIDE DEF ring
  <2> QED BY <2>1, <2>2, <2>3, <2>4, RewriteKeeps
<1>3. CASE Prune
  BY <1>3 DEF Prune
<1>4. CASE \/ \E c \in {"passwd", "fresh", "prune"}, pw \in Password, f \in Flags :
                Unlock(c, pw, f)
           \/ GiveUp \/ Merge \/ Checkout \/ UNCHANGED vars
  BY <1>4 DEF Unlock, GiveUp, Merge, Checkout, vars
<1> QED BY <1>1, <1>2, <1>3, <1>4 DEF Next

\* passwd and a fresh rekey drop no key of the config they replace, whatever
\* was merged or checked out between the moment they loaded it and their
\* rewrite.
THEOREM NoKeyIsDropped == Spec => KeysSurvive
<1> DEFINE A == \A pw \in Password :
                  /\ revisions' # revisions
                  /\ pc # "prune"
                  /\ Unlocks(config, pw)
                  => KeysIn(UnlockedRing(config)) \subseteq KeysIn(UnlockedRing(config'))
<1>1. ASSUME IInv, LoadedOK, [Next]_vars  PROVE A
  BY <1>1, KeysKept
<1> HIDE DEF A
<1>2. Spec => [][A]_vars
  BY <1>1, IInvHolds, LoadedHolds, PTL DEF Spec
<1> QED BY <1>2 DEF KeysSurvive, A
=============================================================================
