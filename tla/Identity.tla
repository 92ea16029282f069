------------------------------ MODULE Identity ------------------------------
(***************************************************************************)
(* Signatures and what is made of them: the provider SDK signs hops,       *)
(* certificates and resolutions (funduq_provider_sdk/identity.py), funduq  *)
(* verifies them (funduq/identity.py, protocols/agui.py verify_caller).    *)
(*                                                                         *)
(* A signature is who signed what; the hash of a token is the token.  A    *)
(* payload is its tag and its fields.  Of a time, all that counts is       *)
(* whether it is in date when it is looked at.  What does not parse is     *)
(* refused, and not here.                                                  *)
(***************************************************************************)
EXTENDS Integers, Sequences

CONSTANTS Keys, None

ASSUME IdentityAssumption == None \notin Keys

Ages == {"in date", "expired"}

-----------------------------------------------------------------------------
(* Signing *)

sign(key, payload) == [key |-> key, payload |-> payload]

sign_hop(key, prev, exp) ==
  LET claims == [actorPublicKey |-> key, prevHash |-> prev, exp |-> exp]
  IN [claims |-> claims, signature |-> sign(key, claims)]

new_chain(key, exp) == <<sign_hop(key, None, exp)>>

extend_chain(key, chain, exp) == Append(chain, sign_hop(key, chain[Len(chain)], exp))

delegation_payload(delegate, expires) == <<"funduq-delegate", delegate, expires>>

sign_delegation(authority, delegate, expires) ==
  [authorityPublicKey |-> authority, delegatePublicKey |-> delegate, expiresAt |-> expires,
   signature |-> sign(authority, delegation_payload(delegate, expires))]

resolve_payload(run, timestamp) == <<"funduq-resolve", run, timestamp>>

sign_resolution(key, run, timestamp) ==
  [publicKey |-> key, timestamp |-> timestamp, signature |-> sign(key, resolve_payload(run, timestamp))]

provider_connect_payload(funduq, funduqNonce, providerNonce, names) ==
  <<"funduq-connect-provider", funduq, funduqNonce, providerNonce, names>>

funduq_connect_payload(funduqNonce, providerNonce) ==
  <<"funduq-connect-funduq", funduqNonce, providerNonce>>

-----------------------------------------------------------------------------
(* Verifying.  What a signature is verified over is built here a second time,
   by funduq, from its own key and from what came with the signature. *)

delegation_signing_payload(delegate, expires) == <<"funduq-delegate", delegate, expires>>

resolve_signing_payload(run, timestamp) == <<"funduq-resolve", run, timestamp>>

provider_connect_signing_payload(funduq, funduqNonce, providerNonce, names) ==
  <<"funduq-connect-provider", funduq, funduqNonce, providerNonce, names>>

funduq_connect_signing_payload(funduqNonce, providerNonce) ==
  <<"funduq-connect-funduq", funduqNonce, providerNonce>>

verify_signature(key, signature, payload) == signature = sign(key, payload)

(* Mutant: every hop must be in date, not only the last. *)
verify_actor_chain_all_in_date(chain) ==
  /\ chain # <<>>
  /\ \A i \in DOMAIN chain :
       LET hop == chain[i]
       IN /\ verify_signature(hop.claims.actorPublicKey, hop.signature, hop.claims)
          /\ hop.claims.exp = "in date"
          /\ hop.claims.prevHash = IF i = 1 THEN None ELSE chain[i - 1]

(* Each hop under the key it names, on the hop before it; the last in date. *)
verify_actor_chain(chain) ==
  /\ chain # <<>>
  /\ \A i \in DOMAIN chain :
       LET hop == chain[i]
       IN /\ verify_signature(hop.claims.actorPublicKey, hop.signature, hop.claims)
          /\ i = Len(chain) => hop.claims.exp = "in date"
          /\ hop.claims.prevHash = IF i = 1 THEN None ELSE chain[i - 1]

head(chain) == chain[1].claims.actorPublicKey

(* The SDK's twin, which goes from hop to hop: whose hop it is, whether it
   may have expired, and on what it must be. *)
verify_chain(chain) ==
  LET Hop(i, last, prev) ==
        /\ chain[i] = sign_hop(chain[i].claims.actorPublicKey, prev, chain[i].claims.exp)
        /\ ~last \/ chain[i].claims.exp # "expired"
  IN /\ Len(chain) > 0
     /\ Hop(1, Len(chain) = 1, None)
     /\ \A i \in 2 .. Len(chain) : Hop(i, i = Len(chain), chain[i - 1])

verify_delegation(certificate) ==
  /\ certificate.expiresAt # "expired"
  /\ verify_signature(certificate.authorityPublicKey, certificate.signature,
       delegation_signing_payload(certificate.delegatePublicKey, certificate.expiresAt))

(* Mutant: the signer stands for itself, certificate or not. *)
verify_resolution_of_signer(resolution, run, allowed, delegation) ==
  /\ delegation # None => verify_delegation(delegation)
  /\ resolution.publicKey \in allowed
  /\ resolution.timestamp = "in date"
  /\ verify_signature(resolution.publicKey, resolution.signature,
       resolve_signing_payload(run, resolution.timestamp))

verify_resolution(resolution, run, allowed, delegation) ==
  LET signer == resolution.publicKey
      effective == IF delegation # None /\ delegation.delegatePublicKey = signer
                   THEN delegation.authorityPublicKey ELSE signer
  IN /\ delegation # None => verify_delegation(delegation)
     /\ effective \in allowed
     /\ resolution.timestamp = "in date"
     /\ verify_signature(signer, resolution.signature,
                        resolve_signing_payload(run, resolution.timestamp))

(* The link-open of an in-process link: a funduq with this identity, or none,
   challenges a link with this key and pin, which signs for the funduq it
   means to reach, or raises WrongFunduq. *)
sign_connect(key, pin, identity, names) ==
  IF pin \in {None, identity}
  THEN sign(key, provider_connect_payload(identity, "funduq's", "provider's", names))
  ELSE None

funduq_answers(identity) ==
  IF identity = None THEN None
  ELSE sign(identity, funduq_connect_signing_payload("funduq's", "provider's"))

(* WrongFunduq unless it answers with the pinned key. *)
confirm_connect(pin, answer) ==
  pin # None =>
    answer # None /\ verify_signature(pin, answer, funduq_connect_payload("funduq's", "provider's"))

(* What attach makes of the proof, and the link of the answer. *)
Opens(key, pin, identity, names) ==
  LET proof == sign_connect(key, pin, identity, names)
  IN /\ proof # None
     /\ verify_signature(key, proof,
          provider_connect_signing_payload(identity, "funduq's", "provider's", names))
     /\ confirm_connect(pin, funduq_answers(identity))

(* verify_caller: without a chain nothing is looked at. *)
Admits(chain, delegation) ==
  chain # None => verify_actor_chain(chain) /\ (delegation # None => verify_delegation(delegation))

EffectiveHead(chain, delegation) ==
  IF chain = None THEN None
  ELSE IF delegation # None /\ delegation.delegatePublicKey = head(chain)
       THEN delegation.authorityPublicKey
       ELSE head(chain)

-----------------------------------------------------------------------------
(* What can be presented, up to two hops: each hop signed by some key, on     *)
(* nothing, on another, or on one that is not there.                        *)

Hops(prevs) ==
  {[claims |-> c, signature |-> sign(k, c)] :
     c \in [actorPublicKey : Keys, prevHash : prevs, exp : Ages], k \in Keys}

Presentable ==
  LET first == Hops({None})
      hops == first \cup Hops(first)
  IN {<<a>> : a \in hops} \cup {<<a, b>> : a \in hops, b \in hops}

(* What new_chain and extend_chain make of honest hops. *)
Built ==
  LET one == {new_chain(k, exp) : k \in Keys, exp \in Ages}
  IN one \cup {extend_chain(k, chain, exp) : k \in Keys, chain \in one, exp \in Ages}

Certificates == {sign_delegation(a, d, exp) : a \in Keys, d \in Keys, exp \in Ages}

(* Nothing that is made here is taken for its absence. *)
ASSUME NoneAssumption ==
  /\ None \notin Built
  /\ \A k \in Keys : funduq_answers(k) # None
  /\ \A k \in Keys, i \in Keys \cup {None} : sign_connect(k, i, i, {}) # None

(* "Any change here must keep verifying what it signs" (identity.py of both
   sides): funduq and the SDK take a chain for good exactly if it was built by
   the SDK hop by hop and its last hop is in date. *)
VerifiedIsBuilt ==
  \A chain \in Presentable :
    /\ verify_actor_chain(chain) <=> chain \in Built /\ chain[Len(chain)].claims.exp = "in date"
    /\ verify_chain(chain) <=> verify_actor_chain(chain)

(* A link opens exactly if the funduq it meets is the one it is pinned to, or
   it is pinned to none: both sides compute the same bytes independently. *)
PinsAreKept ==
  \A key \in Keys, pin \in Keys \cup {None}, identity \in Keys \cup {None} :
    Opens(key, pin, identity, {}) <=> pin \in {None, identity}
=============================================================================
