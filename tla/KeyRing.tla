------------------------------- MODULE KeyRing -------------------------------
(***************************************************************************)
(* The wrapped key ring of a config (src/crypto.rs, the tail of `rekey'    *)
(* and all of `passwd' in src/ops/keychange.rs) while the config's lines   *)
(* are merged and checked out by git.                                      *)
(*                                                                         *)
(* Cryptography is symbolic.  A KEK is the password, the salt and the KDF  *)
(* parameters it is derived from; a wrapped key authenticates under the    *)
(* KEK and the associated data it was made with, and under no other.  Two  *)
(* salts drawn at random are never the same.  Which commands may drop a    *)
(* key, and when, is the business of DomainOps; here every command that    *)
(* wraps a ring may run at any time.                                       *)
(***************************************************************************)
EXTENDS Naturals, Sequences, FiniteSets

CONSTANTS
  Key,        \* domain keys
  Salt,
  Password,
  Kdf,        \* KDF parameters that parse accepts
  Weak,       \* those below the security floor
  Costly,     \* those above the resource ceiling
  Flags,      \* combinations of override flags given to a command
  MaxRing,    \* MAX_RING_LEN
  MaxMerges,  \* bound: configs put together from lines of earlier ones
  NoConfig

ASSUME ParametersAssumption ==
  /\ Weak \subseteq Kdf
  /\ Costly \subseteq Kdf
  /\ Flags \subseteq SUBSET {"allow_weak", "allow_expensive"}
  /\ {} \in Flags
  /\ MaxRing \in Nat \ {0}
  /\ MaxMerges \in Nat
  /\ Key # {} /\ Salt # {} /\ Password # {} /\ Kdf # {}

Kek == [password : Password, salt : Salt, kdf : Kdf]

\* ad_wrap binds the length of the ring and the position in it.
AdPositionOnly(n, i) == <<0, i>>
AdWrap(n, i) == <<n, i>>

Entry == [kek : Kek, ad : Nat \X Nat, key : Key]

SeqUpTo(S, n) == UNION {[1..m -> S] : m \in 1..n}

\* What parse accepts, with no opinion on whether the ring unwraps.
Config == [salt : Salt, kdf : Kdf, entries : SeqUpTo(Entry, MaxRing)]

\* derive_kek.
DeriveKek(pw, salt, kdf) == [password |-> pw, salt |-> salt, kdf |-> kdf]

\* wrap_ring.
WrapRing(kek, ring) ==
  [i \in 1..Len(ring) |->
     [kek |-> kek, ad |-> AdWrap(Len(ring), i), key |-> ring[i]]]

\* unwrap_ring: all entries authenticate, or the command ends: with a wrong
\* password if the first does not, with a corrupt ring if a later one does not.
Unwraps(kek, entries) ==
  \A i \in 1..Len(entries) :
    entries[i].kek = kek /\ entries[i].ad = AdWrap(Len(entries), i)
KeysOf(entries) == [i \in 1..Len(entries) |-> entries[i].key]

Unlocks(c, pw)    == Unwraps(DeriveKek(pw, c.salt, c.kdf), c.entries)
UnlockedRing(c)   == KeysOf(c.entries)
KeysIn(ring)      == {ring[i] : i \in 1..Len(ring)}

\* check_kdf_policy, with the override flags of the invocation.
Allowed(kdf, flags) ==
  /\ kdf \in Weak => "allow_weak" \in flags
  /\ kdf \in Costly => "allow_expensive" \in flags

VARIABLES
  config,    \* the config on disk
  revisions, \* history: [config, password, ring] of all that was ever wrapped
  merges,    \* configs put together by hand so far
  pc,        \* "idle", or the command that has unlocked the ring
  loaded,    \* the config the command has loaded
  stale,     \* the config was replaced since then
  password,  \* the password it was given
  flags      \* its override flags

command == <<pc, loaded, stale, password, flags>>
vars    == <<config, revisions, merges, command>>

Revision == [config : Config, password : Password, ring : SeqUpTo(Key, MaxRing)]

TypeOK ==
  /\ config \in Config
  /\ revisions \in SUBSET Revision
  /\ merges \in Nat
  /\ pc \in {"idle", "passwd", "fresh", "prune"}
  /\ loaded \in Config \cup {NoConfig}
  /\ stale \in BOOLEAN
  /\ password \in Password
  /\ flags \in Flags

Wrapped(pw, salt, kdf, ring) ==
  [salt |-> salt, kdf |-> kdf,
   entries |-> WrapRing(DeriveKek(pw, salt, kdf), ring)]

UsedSalts == {r.config.salt : r \in revisions}
UsedKeys  == UNION {KeysIn(r.ring) : r \in revisions}

\* init: one fresh key under a fresh salt.
Init ==
  \E pw \in Password, s \in Salt, d \in Kdf, k \in Key :
    /\ config = Wrapped(pw, s, d, <<k>>)
    /\ revisions = {[config |-> config, password |-> pw, ring |-> <<k>>]}
    /\ merges = 0
    /\ pc = "idle"
    /\ loaded = NoConfig
    /\ stale = FALSE
    /\ password = pw
    /\ flags = {}

------------------------------------------------------------------------------
\* open_domain, unlock_ring: a policy violation, a wrong password and a corrupt
\* ring end the command here.
Unlock(c, pw, f) ==
  /\ pc = "idle"
  /\ Allowed(config.kdf, f)
  /\ Unlocks(config, pw)
  /\ pc' = c
  /\ loaded' = config
  /\ stale' = FALSE
  /\ password' = pw
  /\ flags' = f
  /\ UNCHANGED <<config, revisions, merges>>

Close ==
  /\ pc' = "idle"
  /\ loaded' = NoConfig
  /\ stale' = FALSE
  /\ UNCHANGED <<password, flags>>

\* Every wrapping takes a fresh salt.
OldSalt == {loaded.salt}
UnusedSalt == Salt \ UsedSalts
FreshSalt == UnusedSalt

\* A config that was replaced meanwhile is not overwritten.
NeverStale == FALSE
Replaced == stale

\* LoadedConfig::rewrite with a ring wrapped under password pw.
Rewrite(pw, kdf, ring) ==
  \/ /\ Replaced
     /\ Close
     /\ UNCHANGED <<config, revisions, merges>>
  \/ /\ ~Replaced
     /\ Allowed(kdf, flags)
     /\ \E s \in FreshSalt :
          /\ config' = Wrapped(pw, s, kdf, ring)
          /\ revisions' = revisions \cup
               {[config |-> config', password |-> pw, ring |-> ring]}
     /\ Close
     /\ UNCHANGED merges

\* passwd: the same ring, in its order, under the new password and perhaps
\* other KDF parameters.
FirstOnly(ring) == <<ring[1]>>
WholeRing(ring) == ring
Rewrapped(ring) == WholeRing(ring)

Passwd(pw, kdf) ==
  /\ pc = "passwd"
  /\ Rewrite(pw, kdf, Rewrapped(UnlockedRing(loaded)))

RingFullOffByOne(ring) == Len(ring) > MaxRing
RingFull(ring) == Len(ring) >= MaxRing

\* rekey: the fresh key comes first.
Mint(k) ==
  LET ring == UnlockedRing(loaded)
  IN
  /\ pc = "fresh"
  /\ ~RingFull(ring)
  /\ k \notin UsedKeys
  /\ Rewrite(password, loaded.kdf, <<k>> \o ring)

\* rekey --prune: the current key alone.
Prune ==
  /\ pc = "prune"
  /\ Len(loaded.entries) > 1
  /\ Rewrite(password, loaded.kdf, FirstOnly(UnlockedRing(loaded)))

\* A refusal, a failure or a signal.
GiveUp ==
  /\ pc # "idle"
  /\ Close
  /\ UNCHANGED <<config, revisions, merges>>

------------------------------------------------------------------------------
\* git and the user: a config put together, line by line, from what was ever
\* committed.  A checkout takes all lines from one revision.
Lines == UNION {{r.config.entries[i] : i \in 1..Len(r.config.entries)} :
                  r \in revisions}

Merge ==
  /\ merges < MaxMerges
  /\ merges' = merges + 1
  /\ \E r, q \in revisions, e \in SeqUpTo(Lines, MaxRing) :
       config' = [salt |-> r.config.salt, kdf |-> q.config.kdf, entries |-> e]
  /\ stale' = (pc # "idle" /\ (stale \/ config' # config))
  /\ UNCHANGED <<revisions, pc, loaded, password, flags>>

Checkout ==
  /\ \E r \in revisions : config' = r.config
  /\ config' # config
  /\ stale' = (pc # "idle")
  /\ UNCHANGED <<revisions, merges, pc, loaded, password, flags>>

Next ==
  \/ \E c \in {"passwd", "fresh", "prune"}, pw \in Password, f \in Flags :
       Unlock(c, pw, f)
  \/ \E pw \in Password, d \in Kdf : Passwd(pw, d)
  \/ \E k \in Key : Mint(k)
  \/ Prune
  \/ GiveUp
  \/ Merge
  \/ Checkout

Spec == Init /\ [][Next]_vars

------------------------------------------------------------------------------
\* Whatever lines a config is put together from, a password that unlocks it is
\* that of the revision its salt belongs to, and yields the ring of that
\* revision, whole and in its order: a retired key can neither be attached to a
\* later ring nor be made current by editing the config, short of going back to
\* a whole earlier revision (crypto.md).
RingOfOneRevision ==
  \A pw \in Password :
    Unlocks(config, pw) =>
      /\ config.salt \in UsedSalts
      /\ \A r \in revisions :
           r.config.salt = config.salt =>
             /\ r.config.kdf = config.kdf
             /\ r.password = pw
             /\ r.ring = UnlockedRing(config)

\* passwd and a fresh rekey lose no key of the config they replace, be it the
\* one they loaded or one that came in its place while a password was typed.
KeysSurvive ==
  [][\A pw \in Password :
       /\ revisions' # revisions
       /\ pc # "prune"
       /\ Unlocks(config, pw)
       => KeysIn(UnlockedRing(config)) \subseteq KeysIn(UnlockedRing(config'))]_vars
==============================================================================
