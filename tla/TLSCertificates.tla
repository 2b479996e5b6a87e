---------------------------- MODULE TLSCertificates ----------------------------
(***************************************************************************)
(* The tls_certificates library, both ends (tls_certificates_interface/v4/ *)
(* tls_certificates.py): a unit, such as one of the coordinator's, asks for *)
(* certificates in its databag; the provider's leader answers in that of   *)
(* its application, at once or much later, and may revoke what it issued.  *)
(* The unit keeps every certificate in a secret that expires when the      *)
(* certificate is to be renewed.                                           *)
(***************************************************************************)
EXTENDS Naturals

CONSTANTS
    Attributes,   \* attributes a certificate may be requested for
    Changing,     \* the kinds of change the environment makes
    MaxChanges    \* bound on the number of those changes

ChangeKinds == {"attributes", "keys", "relation", "revocation", "time"}

ASSUME ConstantsAssumption ==
    /\ Changing \subseteq ChangeKinds
    /\ MaxChanges \in Nat

VARIABLES
    wanted,    \* certificate_requests of the unit's charm
    key,       \* how many private keys the unit has generated; 0 for none
    csrs,      \* the unit's databag: its signing requests
    secrets,   \* the unit's secrets: a certificate each, labelled by its CSR
    related,   \* whether the relation exists
    issued,    \* the provider's databag: certificates
    revoked,   \* serial numbers of those it revoked
    pending,   \* requests the provider has taken up and not yet answered
    news,      \* whether an event that the unit configures in is to come
    rounds,    \* how often new requests have been made
    serial,    \* certificates that have been issued
    past,      \* moments of certificates that have passed
    changes

requirer == <<wanted, key, csrs, secrets, rounds>>
provider == <<issued, revoked, pending, serial>>
vars     == <<requirer, provider, related, news, past, changes>>

\* A request has a unique identifier in its subject; no stands for it.
CSRs         == [attr : Attributes, key : Nat, no : Nat]
Certificates == [csr : CSRs, serial : Nat]

\* In the life of a certificate: its secret expires, the safety net's
\* threshold is reached, and it expires itself.
Moments == {"renewal", "safety", "expiry"}
Past(p, m) == <<p.serial, m>> \in past

-----------------------------------------------------------------------------
(* The requirer                                                            *)

CleanUpAttributes(bag, k) == {c \in bag : c.attr \in wanted}

\* _cleanup_certificate_requests with private key k
CleanUp(bag, k) == {c \in bag : c.attr \in wanted /\ c.key = k}

\* _certificate_requested
Requested(bag, k, a) == \E c \in bag : c.attr = a /\ c.key = k

SendAnyway(bag, k) ==
    IF k # 0
    THEN bag \cup {[attr |-> a, key |-> k, no |-> rounds + 1] :
                       a \in {x \in wanted : ~Requested(bag, k, x)}}
    ELSE bag

\* _send_certificate_requests: no key, no request; no relation, no databag.
Send(bag, k) ==
    IF related /\ k # 0
    THEN bag \cup {[attr |-> a, key |-> k, no |-> rounds + 1] :
                       a \in {x \in wanted : ~Requested(bag, k, x)}}
    ELSE bag

Count == rounds' = IF csrs' \subseteq csrs THEN rounds ELSE rounds + 1

\* get_assigned_certificates
Assigned(bag, k) == {p \in issued : p.csr \in bag /\ p.csr.key = k}

FindMissing(bag) ==
    LET answers == {p \in issued : p.csr \in bag}
        bad     == {p \in answers : p.serial \in revoked}
        good    == {p \in answers \ bad : p.csr.attr \in wanted}
    IN  {s \in secrets : \A p \in bad : s.csr # p.csr}
          \cup {p \in good : \A s \in secrets : s.csr # p.csr}

\* _find_available_certificates: the secrets afterwards.
FindAvailable(bag) ==
    LET answers == {p \in issued : p.csr \in bag}
        bad     == {p \in answers : p.serial \in revoked}
        good    == {p \in answers \ bad : p.csr.attr \in wanted}
    IN  {s \in secrets : \A p \in bad \cup good : s.csr # p.csr} \cup good

\* Requests that _renew_expiring_certificates renews.
Expiring(bag, k) ==
    {p.csr : p \in {q \in Assigned(bag, k) : Past(q, "safety")
                                             /\ ~Past(q, "expiry")}}

Configure ==
    LET k    == IF key = 0 THEN 1 ELSE key
        sent == Send(CleanUp(csrs, k), k)
    IN  /\ key' = k
        /\ secrets' = FindAvailable(sent)
        /\ csrs' = Send(sent \ Expiring(sent, k), k)
        /\ Count

\* relation-created, relation-changed or an event that follows a change of
\* attributes.
ConfigureEvent ==
    /\ news
    /\ news' = FALSE
    /\ IF related THEN Configure ELSE UNCHANGED <<key, csrs, secrets, rounds>>
    /\ UNCHANGED <<wanted, provider, related, past, changes>>

\* Any other of the refresh events, or sync.
Refresh ==
    /\ related
    /\ Configure
    /\ UNCHANGED <<wanted, provider, related, news, past, changes>>

RenewByAttributes(s) ==
    /\ csrs' = Send({c \in csrs : c.attr # s.csr.attr}, key)
    /\ secrets' = secrets \ {s}
    /\ Count
    /\ UNCHANGED <<wanted, key, provider, related, news, past>>

\* _renew_certificate_request of the request of secret s, which is removed.
Renew(s) ==
    /\ csrs' = Send(csrs \ {s.csr}, key)
    /\ secrets' = secrets \ {s}
    /\ Count
    /\ UNCHANGED <<wanted, key, provider, related, news, past>>

\* _on_secret_expired
SecretExpired(s) ==
    /\ s \in secrets /\ Past(s, "renewal")
    /\ Renew(s)
    /\ UNCHANGED changes

-----------------------------------------------------------------------------
(* The provider                                                            *)

OutstandingOnce == {c \in csrs : \A p \in issued : p.csr # c}

\* get_outstanding_certificate_requests
Outstanding ==
    {c \in csrs : \A p \in issued : p.csr = c => p.serial \in revoked}

\* A hook of the provider's leader: the library removes certificates that are
\* no longer asked for, and the charm takes up what is outstanding.
ProviderHook ==
    /\ related
    /\ issued' = {p \in issued : p.csr \in csrs}
    /\ pending' = pending \cup Outstanding
    /\ news' = (news \/ issued' # issued)
    /\ UNCHANGED <<requirer, related, revoked, serial, past, changes>>

\* set_relation_certificate, which does not look whether the request is still
\* there.
SetRelationCertificate(c) ==
    /\ c \in pending
    /\ pending' = pending \ {c}
    /\ serial' = serial + 1
    /\ issued' = {p \in issued : p.csr # c}
                   \cup {[csr |-> c, serial |-> serial + 1]}
    /\ news' = TRUE
    /\ UNCHANGED <<requirer, related, revoked, past, changes>>

-----------------------------------------------------------------------------
(* The environment                                                         *)

Change(kind) ==
    /\ kind \in Changing
    /\ changes < MaxChanges
    /\ changes' = changes + 1

RevokeAllCertificates ==
    /\ Change("revocation")
    /\ \E p \in issued : p.serial \notin revoked
    /\ revoked' = revoked \cup {p.serial : p \in issued}
    /\ news' = TRUE
    /\ UNCHANGED <<requirer, related, issued, pending, serial, past>>

\* The charm asks for other attributes, for instance of another host name.
ChangeAttributes ==
    /\ Change("attributes")
    /\ wanted' \in (SUBSET Attributes) \ {{}, wanted}
    /\ news' = TRUE
    /\ UNCHANGED <<key, csrs, secrets, rounds, provider, related, past>>

RegeneratePrivateKey ==
    /\ Change("keys")
    /\ key # 0
    /\ key' = key + 1
    /\ csrs' = Send(CleanUp(csrs, key + 1), key + 1)
    /\ Count
    /\ UNCHANGED <<wanted, secrets, provider, related, news, past>>

RenewCertificate(s) ==
    /\ Change("keys")
    /\ s \in secrets
    /\ Renew(s)

Relate ==
    /\ Change("relation")
    /\ ~related
    /\ related' = TRUE
    /\ news' = TRUE
    /\ UNCHANGED <<requirer, provider, past>>

\* The databags go with the relation, the secrets stay: nothing in the library
\* observes relation-broken.
Break ==
    /\ Change("relation")
    /\ related
    /\ related' = FALSE
    /\ csrs' = {} /\ issued' = {} /\ pending' = {}
    /\ UNCHANGED <<wanted, key, secrets, rounds, revoked, serial, news, past>>

Pass(p, m) ==
    /\ Change("time")
    /\ p \in issued \cup secrets
    /\ ~Past(p, m)
    /\ m = "expiry" => Past(p, "renewal") /\ Past(p, "safety")
    /\ past' = past \cup {<<p.serial, m>>}
    /\ UNCHANGED <<requirer, provider, related, news>>

Environment ==
    \/ RevokeAllCertificates
    \/ ChangeAttributes
    \/ RegeneratePrivateKey
    \/ \E s \in secrets : RenewCertificate(s)
    \/ Relate
    \/ Break
    \/ \E p \in issued \cup secrets, m \in Moments : Pass(p, m)

-----------------------------------------------------------------------------
Init ==
    /\ wanted \in (SUBSET Attributes) \ {{}}
    /\ key = 0 /\ csrs = {} /\ secrets = {} /\ rounds = 0
    /\ issued = {} /\ revoked = {} /\ pending = {} /\ serial = 0
    /\ related \in BOOLEAN
    /\ news = related
    /\ past = {}
    /\ changes = 0

Next ==
    \/ Environment
    \/ ConfigureEvent
    \/ Refresh
    \/ \E s \in secrets : SecretExpired(s)
    \/ ProviderHook
    \/ \E c \in pending : SetRelationCertificate(c)

Spec == Init /\ [][Next]_vars

\* The unit runs the hooks of its events, those of expired secrets included;
\* the provider runs hooks and answers what it has taken up.
Fairness ==
    /\ WF_vars(ConfigureEvent)
    /\ WF_vars(\E s \in secrets : SecretExpired(s))
    /\ WF_vars(ProviderHook)
    /\ WF_vars(\E c \in pending : SetRelationCertificate(c))

FairSpec == Spec /\ Fairness

-----------------------------------------------------------------------------
(* Properties                                                              *)

\* There is nothing in the databags of a relation that does not exist.
TypeOK ==
    /\ wanted \in SUBSET Attributes
    /\ key \in Nat /\ rounds \in Nat /\ serial \in Nat
    /\ csrs \in SUBSET CSRs /\ pending \in SUBSET CSRs
    /\ secrets \in SUBSET Certificates /\ issued \in SUBSET Certificates
    /\ revoked \in SUBSET Nat
    /\ related \in BOOLEAN /\ news \in BOOLEAN
    /\ past \in SUBSET (Nat \X Moments)
    /\ changes \in 0..MaxChanges
    /\ ~related => csrs = {} /\ issued = {} /\ pending = {}

\* The unit never asks twice for the same attributes, in whatever order keys,
\* attributes, secrets and answers change.
OneRequest ==
    \A c, d \in csrs : c.attr = d.attr => c = d

\* A certificate that the unit has taken note of, and uses, is in a secret: it
\* will expire there and be renewed, also when it is the second one for the same
\* request, issued after a revocation.
RenewalArmed ==
    ~news => \A p \in Assigned(csrs, key) :
                 p.csr.attr \in wanted /\ p.serial \notin revoked
                     => p \in secrets

\* No hook withdraws a request that is still good: one for attributes that are
\* wanted, whose certificates are not to be renewed.  Secrets of earlier
\* requests, keys or relations do not disturb it.
ToBeRenewed(c) ==
    \E p \in issued \cup secrets :
        p.csr = c /\ (Past(p, "renewal") \/ Past(p, "safety"))
NoNeedlessRenewal ==
    [][changes' = changes =>
          \A c \in csrs \ csrs' : c.attr \notin wanted \/ ToBeRenewed(c)]_vars

\* In the end the unit has, for all that it wants, a certificate of its present
\* key that is neither revoked nor expired, in a secret of its own.
Converges ==
    <>[](related => \A a \in wanted :
            \E p \in Assigned(csrs, key) \cap secrets :
                /\ p.csr.attr = a
                /\ p.serial \notin revoked
                /\ ~Past(p, "expiry"))

\* What the invariants rest on: requests are of the present key, and every
\* request that was ever made has a number of its own.
RequestsOfKey == \A c \in csrs : c.key = key /\ key # 0
Numbered == \A c \in csrs \cup pending \cup {p.csr : p \in issued} : c.no <= rounds

IInv ==
    /\ TypeOK
    /\ RequestsOfKey
    /\ Numbered
    /\ OneRequest
    /\ RenewalArmed

=============================================================================
