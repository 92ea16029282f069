--------------------------- MODULE IdentityProofs ---------------------------
(* What the two implementations of the signing formats make of each other's *)
(* chains, certificates and handshakes, for any keys and chains of any       *)
(* length.                                                                   *)
EXTENDS Identity, SequenceTheorems, TLAPS

(* A hop somebody presents: claims of the right shape under any signature. *)
HopOf(prevs, signatures) ==
  [claims : [actorPublicKey : Keys, prevHash : prevs, exp : Ages], signature : signatures]

-----------------------------------------------------------------------------
(* Chains *)

LEMMA SignedHop ==
  ASSUME NEW P, NEW S, NEW hop \in HopOf(P, S), NEW prev
  PROVE  hop = sign_hop(hop.claims.actorPublicKey, prev, hop.claims.exp)
           <=> /\ verify_signature(hop.claims.actorPublicKey, hop.signature, hop.claims)
               /\ hop.claims.prevHash = prev
<1> DEFINE key == hop.claims.actorPublicKey
           claims == [actorPublicKey |-> key, prevHash |-> prev, exp |-> hop.claims.exp]
<1>1. hop.claims = claims <=> hop.claims.prevHash = prev
  BY DEF HopOf
<1>2. hop = [claims |-> claims, signature |-> sign(key, claims)]
        <=> hop.claims = claims /\ hop.signature = sign(key, claims)
  BY DEF HopOf
<1> QED
  BY <1>1, <1>2 DEF sign_hop, verify_signature

(* Each hop is its actor's on the hop before it, and the last is in date. *)
Prev(chain, i) == IF i = 1 THEN None ELSE chain[i - 1]

Linked(chain) ==
  /\ chain # <<>>
  /\ \A i \in DOMAIN chain :
       /\ chain[i] = sign_hop(chain[i].claims.actorPublicKey, Prev(chain, i), chain[i].claims.exp)
       /\ i = Len(chain) => chain[i].claims.exp = "in date"

LEMMA VerifiedIsLinked ==
  ASSUME NEW P, NEW S, NEW chain \in Seq(HopOf(P, S))
  PROVE  verify_actor_chain(chain) <=> Linked(chain)
<1>1. \A i \in DOMAIN chain : chain[i] \in HopOf(P, S)
  OBVIOUS
<1>2. \A i \in DOMAIN chain :
        chain[i] = sign_hop(chain[i].claims.actorPublicKey, Prev(chain, i), chain[i].claims.exp)
          <=> /\ verify_signature(chain[i].claims.actorPublicKey, chain[i].signature, chain[i].claims)
              /\ chain[i].claims.prevHash = Prev(chain, i)
  BY <1>1, SignedHop
<1> QED
  BY <1>2 DEF verify_actor_chain, Linked, Prev

(* verify_chain and verify_actor_chain: the SDK and funduq take the same chains
   for good, of any length, from anyone. *)
THEOREM TwinsAgree ==
  ASSUME NEW P, NEW S, NEW chain \in Seq(HopOf(P, S))
  PROVE  verify_chain(chain) <=> verify_actor_chain(chain)
<1>1. Len(chain) \in Nat /\ DOMAIN chain = 1 .. Len(chain) /\ (Len(chain) > 0 <=> chain # <<>>)
  OBVIOUS
<1>2. \A i \in DOMAIN chain : chain[i].claims.exp # "expired" <=> chain[i].claims.exp = "in date"
  <2> SUFFICES ASSUME NEW i \in DOMAIN chain
               PROVE  chain[i].claims.exp # "expired" <=> chain[i].claims.exp = "in date"
    OBVIOUS
  <2>1. chain[i] \in HopOf(P, S)
    BY <1>1
  <2> QED
    BY <2>1 DEF HopOf, Ages
<1>3. CASE chain = <<>>
  BY <1>1, <1>3, VerifiedIsLinked DEF verify_chain, Linked
<1>4. CASE chain # <<>>
  <2>1. 1 \in DOMAIN chain /\ \A i \in DOMAIN chain : i = 1 \/ i \in 2 .. Len(chain)
    BY <1>1, <1>4
  <2>2. \A i \in 2 .. Len(chain) : i \in DOMAIN chain /\ i # 1
    BY <1>1
  <2>3. verify_chain(chain) <=> Linked(chain)
    BY <1>1, <1>2, <1>4, <2>1, <2>2 DEF verify_chain, Linked, Prev
  <2> QED
    BY <2>3, VerifiedIsLinked
<1> QED
  BY <1>3, <1>4

(* extend_chain: what an actor adds its hop to still verifies, and keeps its
   head, whatever has expired in it meanwhile except the hop that is added. *)
THEOREM ExtensionVerifies ==
  ASSUME NEW P, NEW S, NEW chain \in Seq(HopOf(P, S)), NEW key \in Keys,
         verify_actor_chain(chain)
  PROVE  LET extended == extend_chain(key, chain, "in date")
         IN verify_actor_chain(extended) /\ head(extended) = head(chain)
<1> DEFINE hop == sign_hop(key, chain[Len(chain)], "in date")
           extended == Append(chain, hop)
<1>1. /\ Len(chain) \in Nat \ {0} /\ DOMAIN chain = 1 .. Len(chain)
      /\ Len(extended) = Len(chain) + 1 /\ DOMAIN extended = 1 .. Len(extended)
      /\ extended # <<>> /\ extended[Len(extended)] = hop
      /\ \A i \in DOMAIN chain : extended[i] = chain[i]
  <2> DEFINE T == HopOf(P, S) \cup {hop}
  <2>1. chain \in Seq(T) /\ hop \in T /\ chain # <<>>
    <3>1. chain # <<>>
      BY DEF verify_actor_chain
    <3>2. HopOf(P, S) \subseteq T /\ hop \in T
      OBVIOUS
    <3> HIDE DEF T
    <3> QED
      BY <3>1, <3>2, SeqMonotonic
  <2> HIDE DEF hop, T
  <2>2. /\ extended \in Seq(T) /\ Len(extended) = Len(chain) + 1
        /\ extended[Len(chain) + 1] = hop
        /\ \A i \in 1 .. Len(chain) : extended[i] = chain[i]
    BY <2>1, AppendProperties
  <2>3. /\ Len(chain) \in Nat \ {0} /\ DOMAIN chain = 1 .. Len(chain)
        /\ DOMAIN extended = 1 .. Len(extended) /\ extended # <<>>
    BY <2>1, <2>2, EmptySeq, LenProperties
  <2> HIDE DEF extended
  <2> QED
    BY <2>2, <2>3
<1>2. /\ hop.claims.actorPublicKey = key /\ hop.claims.exp = "in date"
      /\ hop.claims.prevHash = chain[Len(chain)]
      /\ hop.signature = sign(key, hop.claims)
  BY DEF sign_hop
<1> HIDE DEF hop, extended
<1>3. \A i \in DOMAIN extended :
        /\ verify_signature(extended[i].claims.actorPublicKey, extended[i].signature, extended[i].claims)
        /\ i = Len(extended) => extended[i].claims.exp = "in date"
        /\ extended[i].claims.prevHash = IF i = 1 THEN None ELSE extended[i - 1]
  <2> SUFFICES ASSUME NEW i \in DOMAIN extended
               PROVE  /\ verify_signature(extended[i].claims.actorPublicKey, extended[i].signature,
                                          extended[i].claims)
                      /\ i = Len(extended) => extended[i].claims.exp = "in date"
                      /\ extended[i].claims.prevHash = IF i = 1 THEN None ELSE extended[i - 1]
    OBVIOUS
  <2>1. CASE i = Len(extended)
    <3>1. i # 1 /\ i - 1 = Len(chain) /\ i - 1 \in DOMAIN chain
      BY <1>1, <2>1
    <3>2. extended[i] = hop /\ extended[i - 1] = chain[Len(chain)]
      BY <1>1, <2>1, <3>1
    <3>3. verify_signature(hop.claims.actorPublicKey, hop.signature, hop.claims)
      BY <1>2 DEF verify_signature
    <3> QED
      BY <1>2, <3>1, <3>2, <3>3
  <2>2. CASE i # Len(extended)
    <3>1. i \in DOMAIN chain /\ (i # 1 => i - 1 \in DOMAIN chain)
      BY <1>1, <2>2
    <3>2. /\ verify_signature(chain[i].claims.actorPublicKey, chain[i].signature, chain[i].claims)
          /\ chain[i].claims.prevHash = IF i = 1 THEN None ELSE chain[i - 1]
      BY <3>1 DEF verify_actor_chain
    <3>3. extended[i] = chain[i] /\ (i # 1 => extended[i - 1] = chain[i - 1])
      BY <1>1, <3>1
    <3>4. extended[i].claims.prevHash = IF i = 1 THEN None ELSE extended[i - 1]
      BY <3>2, <3>3
    <3> QED
      BY <2>2, <3>2, <3>3, <3>4
  <2> QED
    BY <2>1, <2>2
<1>4. verify_actor_chain(extended)
  BY <1>1, <1>3 DEF verify_actor_chain
<1>5. head(extended) = head(chain)
  BY <1>1 DEF head
<1> QED
  BY <1>4, <1>5 DEF extend_chain, extended, hop

-----------------------------------------------------------------------------
(* What verifies was built *)

Prevs == {None} \cup Hops({None})
Signatures == {sign(k, c) : k \in Keys, c \in [actorPublicKey : Keys, prevHash : Prevs, exp : Ages]}
Shown == HopOf(Prevs, Signatures)

LEMMA PresentedHops ==
  /\ Hops({None}) \cup Hops(Hops({None})) \subseteq Shown
  /\ \A chain \in Presentable :
       /\ chain \in Seq(Shown)
       /\ \/ \E a \in Shown : chain = <<a>>
          \/ \E a, b \in Shown : chain = <<a, b>>
<1>1. ASSUME NEW prevs \in SUBSET Prevs PROVE Hops(prevs) \subseteq Shown
  BY DEF Hops, Shown, HopOf, Signatures
<1>2. Hops({None}) \cup Hops(Hops({None})) \subseteq Shown
  BY <1>1 DEF Prevs
<1>3. \A a, b \in Shown : <<a>> \in Seq(Shown) /\ <<a, b>> \in Seq(Shown)
  OBVIOUS
<1>4. ASSUME NEW chain \in Presentable
      PROVE  \/ \E a \in Shown : chain = <<a>>
             \/ \E a, b \in Shown : chain = <<a, b>>
  <2> DEFINE hops == Hops({None}) \cup Hops(Hops({None}))
  <2>1. chain \in {<<a>> : a \in hops} \cup {<<a, b>> : a \in hops, b \in hops}
    BY DEF Presentable
  <2>2. hops \subseteq Shown
    BY <1>2
  <2> HIDE DEF hops
  <2> QED
    BY <2>1, <2>2
<1> QED
  BY <1>2, <1>3, <1>4

LEMMA SignedFields ==
  ASSUME NEW key, NEW prev, NEW exp
  PROVE  /\ sign_hop(key, prev, exp).claims.actorPublicKey = key
         /\ sign_hop(key, prev, exp).claims.exp = exp
BY DEF sign_hop

LEMMA PairIsAppend ==
  ASSUME NEW a, NEW b
  PROVE  Append(<<a>>, b) = <<a, b>>
<1> DEFINE T == {a, b}
           long == Append(<<a>>, b)
<1>1. <<a>> \in Seq(T) /\ b \in T /\ <<a, b>> \in Seq(T)
  OBVIOUS
<1>2. Len(<<a>>) = 1 /\ <<a>>[1] = a /\ Len(<<a, b>>) = 2 /\ <<a, b>>[1] = a /\ <<a, b>>[2] = b
  OBVIOUS
<1> HIDE DEF T
<1>3. long \in Seq(T) /\ Len(long) = 2 /\ long[1] = a /\ long[2] = b
  BY <1>1, <1>2, AppendProperties
<1> HIDE DEF long
<1>4. \A i \in 1 .. Len(long) : long[i] = <<a, b>>[i]
  BY <1>2, <1>3
<1>5. long = <<a, b>>
  BY <1>1, <1>2, <1>3, <1>4, SeqEqual
<1> QED
  BY <1>5 DEF long

LEMMA BuiltChains ==
  ASSUME NEW chain
  PROVE  chain \in Built <=>
           \/ \E k \in Keys, exp \in Ages : chain = <<sign_hop(k, None, exp)>>
           \/ \E k, l \in Keys, exp, later \in Ages :
                LET first == sign_hop(l, None, later)
                IN chain = <<first, sign_hop(k, first, exp)>>
<1>1. \A l \in Keys, later \in Ages, k \in Keys, exp \in Ages :
        extend_chain(k, new_chain(l, later), exp) =
          <<sign_hop(l, None, later), sign_hop(k, sign_hop(l, None, later), exp)>>
  <2> SUFFICES ASSUME NEW l \in Keys, NEW later \in Ages, NEW k \in Keys, NEW exp \in Ages
               PROVE  extend_chain(k, new_chain(l, later), exp) =
                        <<sign_hop(l, None, later), sign_hop(k, sign_hop(l, None, later), exp)>>
    OBVIOUS
  <2> DEFINE first == sign_hop(l, None, later)
  <2> HIDE DEF first
  <2>1. Len(<<first>>) = 1 /\ <<first>>[1] = first
    OBVIOUS
  <2>2. Append(<<first>>, sign_hop(k, first, exp)) = <<first, sign_hop(k, first, exp)>>
    <3> DEFINE second == sign_hop(k, first, exp)
    <3> HIDE DEF second
    <3>1. Append(<<first>>, second) = <<first, second>>
      BY PairIsAppend
    <3> QED
      BY <3>1 DEF second
  <2> QED
    BY <2>1, <2>2 DEF extend_chain, new_chain, first
<1> DEFINE one == {<<sign_hop(k, None, exp)>> : k \in Keys, exp \in Ages}
           Two(l, later, k, exp) == <<sign_hop(l, None, later), sign_hop(k, sign_hop(l, None, later), exp)>>
<1>2. Built = one \cup {extend_chain(k, c, exp) : k \in Keys, c \in one, exp \in Ages}
  BY DEF Built, new_chain
<1>3. \A l \in Keys, later \in Ages, k \in Keys, exp \in Ages :
        extend_chain(k, <<sign_hop(l, None, later)>>, exp) = Two(l, later, k, exp)
  BY <1>1 DEF new_chain
<1>4. chain \in one <=> \E k \in Keys, exp \in Ages : chain = <<sign_hop(k, None, exp)>>
  OBVIOUS
<1>5. chain \in {extend_chain(k, c, exp) : k \in Keys, c \in one, exp \in Ages}
        <=> \E k, l \in Keys, exp, later \in Ages : chain = Two(l, later, k, exp)
  <2>1. chain \in {extend_chain(k, c, exp) : k \in Keys, c \in one, exp \in Ages}
          <=> \E k \in Keys, c \in one, exp \in Ages : chain = extend_chain(k, c, exp)
    OBVIOUS
  <2>2. \A l \in Keys, later \in Ages : <<sign_hop(l, None, later)>> \in one
    OBVIOUS
  <2>3. \A c \in one : \E l \in Keys, later \in Ages : c = <<sign_hop(l, None, later)>>
    OBVIOUS
  <2> HIDE DEF one, Two
  <2>4. ASSUME NEW k \in Keys, NEW c \in one, NEW exp \in Ages, chain = extend_chain(k, c, exp)
        PROVE  \E kk, l \in Keys, e, later \in Ages : chain = Two(l, later, kk, e)
    <3>1. PICK l \in Keys, later \in Ages : c = <<sign_hop(l, None, later)>>
      BY <2>3
    <3>2. chain = Two(l, later, k, exp)
      BY <1>3, <2>4, <3>1
    <3> QED
      BY <3>2
  <2>5. ASSUME NEW k \in Keys, NEW l \in Keys, NEW exp \in Ages, NEW later \in Ages,
               chain = Two(l, later, k, exp)
        PROVE  \E kk \in Keys, c \in one, e \in Ages : chain = extend_chain(kk, c, e)
    <3>1. chain = extend_chain(k, <<sign_hop(l, None, later)>>, exp)
      BY <1>3, <2>5
    <3> QED
      BY <2>2, <3>1
  <2> QED
    BY <2>1, <2>4, <2>5
<1> HIDE DEF one
<1> QED
  BY <1>2, <1>4, <1>5

(* The chains of up to two hops that verify, anywhere, are those the SDK builds
   with its last hop in date, whatever keys there are. *)
THEOREM OnlyBuiltChainsVerify == VerifiedIsBuilt
<1> SUFFICES ASSUME NEW chain \in Presentable
             PROVE  /\ Linked(chain) <=> chain \in Built /\ chain[Len(chain)].claims.exp = "in date"
                    /\ verify_chain(chain) <=> verify_actor_chain(chain)
  BY PresentedHops, VerifiedIsLinked DEF VerifiedIsBuilt, Shown
<1>1. verify_chain(chain) <=> verify_actor_chain(chain)
  BY PresentedHops, TwinsAgree DEF Shown
<1>2. ASSUME NEW a \in Shown, chain = <<a>>
      PROVE  Linked(chain) <=> chain \in Built /\ chain[Len(chain)].claims.exp = "in date"
  <2>1. a.claims.actorPublicKey \in Keys /\ a.claims.exp \in Ages
    BY DEF Shown, HopOf
  <2>5. /\ chain # <<>> /\ Len(chain) = 1 /\ DOMAIN chain = {1} /\ chain[1] = a
        /\ Prev(chain, 1) = None
    BY <1>2 DEF Prev
  <2>2. Linked(chain) <=>
          a = sign_hop(a.claims.actorPublicKey, None, a.claims.exp) /\ a.claims.exp = "in date"
    BY <2>5 DEF Linked
  <2>3. chain \in Built <=> \E k \in Keys, exp \in Ages : a = sign_hop(k, None, exp)
    BY <1>2, BuiltChains
  <2>4. chain[Len(chain)] = a
    BY <1>2
  <2>6. chain \in Built <=> a = sign_hop(a.claims.actorPublicKey, None, a.claims.exp)
    BY <2>1, <2>3, SignedFields
  <2> QED
    BY <2>2, <2>4, <2>6
<1>3. ASSUME NEW a \in Shown, NEW b \in Shown, chain = <<a, b>>
      PROVE  Linked(chain) <=> chain \in Built /\ chain[Len(chain)].claims.exp = "in date"
  <2>1. /\ a.claims.actorPublicKey \in Keys /\ a.claims.exp \in Ages
        /\ b.claims.actorPublicKey \in Keys /\ b.claims.exp \in Ages
    BY DEF Shown, HopOf
  <2>5. /\ chain # <<>> /\ Len(chain) = 2 /\ DOMAIN chain = {1, 2} /\ chain[1] = a /\ chain[2] = b
        /\ Prev(chain, 1) = None /\ Prev(chain, 2) = a
    BY <1>3 DEF Prev
  <2>2. Linked(chain) <=>
          /\ a = sign_hop(a.claims.actorPublicKey, None, a.claims.exp)
          /\ b = sign_hop(b.claims.actorPublicKey, a, b.claims.exp) /\ b.claims.exp = "in date"
    BY <2>5 DEF Linked
  <2>3. chain \in Built <=>
          \E k, l \in Keys, exp, later \in Ages :
            a = sign_hop(l, None, later) /\ b = sign_hop(k, a, exp)
    BY <1>3, BuiltChains
  <2>4. chain[Len(chain)] = b
    BY <1>3
  <2>6. ASSUME NEW k \in Keys, NEW l \in Keys, NEW exp \in Ages, NEW later \in Ages,
               a = sign_hop(l, None, later), b = sign_hop(k, a, exp)
        PROVE  /\ a = sign_hop(a.claims.actorPublicKey, None, a.claims.exp)
               /\ b = sign_hop(b.claims.actorPublicKey, a, b.claims.exp)
    <3>1. a.claims.actorPublicKey = l /\ a.claims.exp = later
      BY <2>6, SignedFields
    <3>2. b.claims.actorPublicKey = k /\ b.claims.exp = exp
      BY <2>6, SignedFields
    <3> QED
      BY <2>6, <3>1, <3>2
  <2>7. chain \in Built <=>
          /\ a = sign_hop(a.claims.actorPublicKey, None, a.claims.exp)
          /\ b = sign_hop(b.claims.actorPublicKey, a, b.claims.exp)
    BY <2>1, <2>3, <2>6
  <2> QED
    BY <2>2, <2>4, <2>7
<1> QED
  BY <1>1, <1>2, <1>3, PresentedHops

-----------------------------------------------------------------------------
(* Session keys and pins *)

(* verify_caller and verify_resolution: whoever is let in under a head, itself
   or by a certificate, answers the asks of that head with the same key. *)
LEMMA SessionKeySpeaks ==
  ASSUME NEW chain, chain # None, NEW d, NEW run, Admits(chain, d),
         NEW allowed, EffectiveHead(chain, d) \in allowed
  PROVE  verify_resolution(sign_resolution(head(chain), run, "in date"), run, allowed, d)
<1> DEFINE g == sign_resolution(head(chain), run, "in date")
<1>1. /\ g.publicKey = head(chain) /\ g.timestamp = "in date"
      /\ g.signature = sign(head(chain), resolve_payload(run, "in date"))
  BY DEF sign_resolution
<1>2. d # None => verify_delegation(d)
  BY DEF Admits
<1>3. EffectiveHead(chain, d) =
        IF d # None /\ d.delegatePublicKey = head(chain) THEN d.authorityPublicKey ELSE head(chain)
  BY DEF EffectiveHead
<1> HIDE DEF g
<1>4. verify_resolution(g, run, allowed, d)
  BY <1>1, <1>2, <1>3
     DEF verify_resolution, verify_signature, resolve_payload, resolve_signing_payload
<1> QED
  BY <1>4 DEF g

(* sign_connect, attach and confirm_connect: a link pinned to a funduq opens to
   that one and to no other, and both sides build the same payloads. *)
THEOREM PinsHold == PinsAreKept
<1> SUFFICES ASSUME NEW key \in Keys, NEW pin \in Keys \cup {None}, NEW identity \in Keys \cup {None}
             PROVE  Opens(key, pin, identity, {}) <=> pin \in {None, identity}
  BY DEF PinsAreKept
<1> DEFINE proof == sign_connect(key, pin, identity, {})
<1>1. CASE pin \notin {None, identity}
  <2>1. proof = None
    BY <1>1 DEF sign_connect
  <2> QED
    BY <1>1, <2>1 DEF Opens
<1>2. CASE pin \in {None, identity}
  <2>1. proof = sign(key, provider_connect_payload(identity, "funduq's", "provider's", {}))
    BY <1>2 DEF sign_connect
  <2>2. proof = sign_connect(key, identity, identity, {})
    BY <2>1 DEF sign_connect
  <2>3. proof # None
    BY <2>2, NoneAssumption
  <2>4. verify_signature(key, proof,
          provider_connect_signing_payload(identity, "funduq's", "provider's", {}))
    BY <2>1 DEF verify_signature, provider_connect_payload, provider_connect_signing_payload
  <2>5. confirm_connect(pin, funduq_answers(identity))
    <3> SUFFICES ASSUME pin # None
                 PROVE  /\ funduq_answers(identity) # None
                        /\ verify_signature(pin, funduq_answers(identity),
                             funduq_connect_payload("funduq's", "provider's"))
      BY DEF confirm_connect
    <3>1. pin = identity /\ identity \in Keys
      BY <1>2
    <3> QED
      BY <3>1, NoneAssumption
         DEF funduq_answers, verify_signature, funduq_connect_payload, funduq_connect_signing_payload
  <2> HIDE DEF proof
  <2>6. Opens(key, pin, identity, {})
    BY <2>3, <2>4, <2>5 DEF Opens, proof
  <2> QED
    BY <1>2, <2>6
<1> QED
  BY <1>1, <1>2
=============================================================================
