------------------------ MODULE TLSCertificatesProofs ------------------------
(***************************************************************************)
(* Proofs about TLSCertificates: one request for each of the attributes,   *)
(* a secret for every certificate in use, and no renewal without a reason, *)
(* for any attributes and in any order of events.                          *)
(***************************************************************************)
EXTENDS TLSCertificates, TLAPS

\* Send adds requests of the key it is given and of the next number, for
\* attributes that have none.
LEMMA SendAdds ==
    ASSUME NEW bag, NEW k,
           NEW c \in Send(bag, k) \ bag
    PROVE  /\ related /\ k # 0
           /\ c \in [attr : wanted, key : {k}, no : {rounds + 1}]
           /\ \A d \in bag : d.attr = c.attr => d.key # k
BY DEF Send, Requested

\* It removes nothing.
LEMMA SendKeeps ==
    ASSUME NEW bag, NEW k
    PROVE  bag \subseteq Send(bag, k)
BY DEF Send

\* What a bag of requests of key k looks like in the databag.
Fits(bag, k) ==
    /\ bag \in SUBSET CSRs
    /\ ~related => bag = {}
    /\ \A c \in bag : c.key = k /\ k # 0 /\ c.no <= rounds + 1
    /\ \A c, d \in bag : c.attr = d.attr => c = d

\* Send keeps it so.
LEMMA SendFits ==
    ASSUME TypeOK, NEW k \in Nat, NEW bag, Fits(bag, k)
    PROVE  Fits(Send(bag, k), k)
<1> DEFINE new == Send(bag, k) \ bag
<1>1. \A c \in new : /\ related /\ k # 0
                     /\ c \in [attr : wanted, key : {k}, no : {rounds + 1}]
                     /\ \A d \in bag : d.attr = c.attr => d.key # k
  BY SendAdds
<1>2. Send(bag, k) = bag \cup new
  BY SendKeeps
<1> HIDE DEF new
<1>3. \A c \in new : /\ c \in CSRs /\ c.key = k /\ k # 0 /\ c.no <= rounds + 1
  BY <1>1 DEF TypeOK, CSRs
<1>4. \A c, d \in new : c.attr = d.attr => c = d
  BY <1>1
<1>5. \A c \in new, d \in bag : d.attr # c.attr
  BY <1>1 DEF Fits
<1> QED
  BY <1>1, <1>2, <1>3, <1>4, <1>5 DEF Fits

\* The bag is one of the present key, of numbers up to the present one.
LEMMA BagFits ==
    ASSUME IInv
    PROVE  /\ Fits(csrs, key)
           /\ \A c \in csrs : c.no <= rounds
<1>1. \A c \in csrs : c.no <= rounds /\ c.no \in Nat
  BY DEF IInv, TypeOK, Numbered, CSRs
<1> QED
  BY <1>1 DEF IInv, TypeOK, RequestsOfKey, OneRequest, Fits

\* A part of a bag fits if the bag does.
LEMMA PartFits ==
    ASSUME NEW bag, NEW k, Fits(bag, k), NEW part \in SUBSET bag
    PROVE  Fits(part, k)
BY DEF Fits

\* What counting leaves: numbers do not exceed it, and it does not go back.
LEMMA Counted ==
    ASSUME TypeOK, NEW k \in Nat, Fits(csrs', k), Count,
           \A c \in csrs : c.no <= rounds
    PROVE  /\ rounds' \in Nat /\ rounds <= rounds'
           /\ \A c \in csrs' : c.no <= rounds'
<1>1. rounds \in Nat /\ \A c \in csrs' : c.no \in Nat
  BY DEF TypeOK, Fits, CSRs
<1> QED
  BY <1>1 DEF Count, Fits

\* A new request has no certificate yet.
LEMMA NewUnanswered ==
    ASSUME IInv, NEW bag, NEW k, NEW p \in issued, p.csr \in Send(bag, k)
    PROVE  p.csr \in bag
<1>1. p.csr.no <= rounds /\ rounds \in Nat
  BY DEF IInv, Numbered, TypeOK
<1>2. p.csr \notin bag => p.csr.no = rounds + 1
  BY SendAdds
<1> QED
  BY <1>1, <1>2

\* The secrets that are left or made hold certificates.
LEMMA SecretsType ==
    ASSUME TypeOK, NEW bag
    PROVE  FindAvailable(bag) \in SUBSET Certificates
BY DEF FindAvailable, TypeOK

\* What _configure keeps of the invariant, whatever it is called for.
LEMMA Configured ==
    ASSUME IInv, Configure, UNCHANGED <<wanted, provider, related>>
    PROVE  /\ Fits(csrs', key') /\ key' \in Nat
           /\ rounds' \in Nat /\ rounds <= rounds'
           /\ \A c \in csrs' : c.no <= rounds'
           /\ secrets' \in SUBSET Certificates
           /\ \A p \in Assigned(csrs, key)' :
                 p.csr.attr \in wanted' /\ p.serial \notin revoked'
                     => p \in secrets'
<1> DEFINE k == IF key = 0 THEN 1 ELSE key
           kept == CleanUp(csrs, k)
           sent == Send(kept, k)
           left == sent \ Expiring(sent, k)
<1>t. TypeOK
  BY DEF IInv
<1>1. /\ key' = k /\ secrets' = FindAvailable(sent)
      /\ csrs' = Send(left, k) /\ Count
  BY DEF Configure
<1>2. k \in Nat
  BY DEF IInv, TypeOK
<1>3. Fits(kept, k)
  BY BagFits DEF Fits, CleanUp, IInv, RequestsOfKey
<1> HIDE DEF k, kept
<1>4. Fits(sent, k)
  BY <1>2, <1>3, <1>t, SendFits
<1>5. Fits(left, k)
  BY <1>4, PartFits
<1>6. Fits(Send(left, k), k)
  BY <1>2, <1>5, <1>t, SendFits
<1>7. Fits(csrs', k)
  BY <1>1, <1>6
<1>8. /\ rounds' \in Nat /\ rounds <= rounds'
      /\ \A c \in csrs' : c.no <= rounds'
  BY <1>1, <1>2, <1>7, <1>t, BagFits, Counted
<1>9. ASSUME NEW p \in Assigned(csrs, key)',
             p.csr.attr \in wanted', p.serial \notin revoked'
      PROVE  p \in secrets'
  <2>1. p \in issued /\ p.csr \in Send(left, k)
    BY <1>1 DEF Assigned, provider
  <2>2. p.csr \in sent
    BY <2>1, NewUnanswered
  <2> QED
    BY <1>1, <1>9, <2>1, <2>2 DEF FindAvailable, provider
<1>10. secrets' \in SUBSET Certificates
  BY <1>1, <1>t, SecretsType
<1> QED
  BY <1>1, <1>2, <1>7, <1>8, <1>9, <1>10 DEF Fits

\* The invariant after a step of the requirer that leaves a fitting bag.
LEMMA RequirerStep ==
    ASSUME IInv, UNCHANGED <<provider, related, past>>,
           wanted' \in SUBSET Attributes,
           Fits(csrs', key'), key' \in Nat,
           rounds' \in Nat, rounds <= rounds',
           \A c \in csrs' : c.no <= rounds',
           secrets' \in SUBSET Certificates,
           news' \in BOOLEAN, changes' \in 0..MaxChanges,
           RenewalArmed'
    PROVE  IInv'
<1>1. TypeOK'
  BY DEF IInv, TypeOK, Fits, provider
<1>2. RequestsOfKey' /\ OneRequest'
  BY DEF Fits, RequestsOfKey, OneRequest
<1>3. Numbered'
  <2>1. \A c \in pending \cup {p.csr : p \in issued} : c.no \in Nat /\ c.no <= rounds
    BY DEF IInv, TypeOK, Numbered, CSRs, Certificates
  <2> QED
    BY <2>1 DEF Numbered, provider, IInv, TypeOK
<1> QED
  BY <1>1, <1>2, <1>3 DEF IInv

\* Hooks in which the library configures.
LEMMA ConfigureStep ==
    ASSUME IInv, ConfigureEvent \/ Refresh
    PROVE  IInv'
<1>1. CASE Configure /\ UNCHANGED <<wanted, provider, related, past, changes>>
  <2>1. news' \in BOOLEAN
    BY DEF ConfigureEvent, Refresh, IInv, TypeOK
  <2>2. /\ Fits(csrs', key') /\ key' \in Nat
        /\ rounds' \in Nat /\ rounds <= rounds'
        /\ \A c \in csrs' : c.no <= rounds'
        /\ secrets' \in SUBSET Certificates
        /\ RenewalArmed'
    BY <1>1, Configured DEF RenewalArmed
  <2> QED
    BY <1>1, <2>1, <2>2, RequirerStep DEF IInv, TypeOK
<1>2. CASE ~related /\ news' = FALSE /\ UNCHANGED <<requirer, provider, related,
                                                    past, changes>>
  <2>1. csrs = {} /\ csrs' = {} /\ issued' = {} /\ pending' = {}
    BY <1>2 DEF IInv, TypeOK, requirer, provider
  <2> QED
    BY <1>2, <2>1 DEF IInv, TypeOK, requirer, provider, RequestsOfKey, Numbered,
                      OneRequest, RenewalArmed, Assigned
<1> QED
  BY <1>1, <1>2 DEF ConfigureEvent, Refresh, requirer

\* The renewal of one certificate: its secret goes, and its request with it.
LEMMA RenewStep ==
    ASSUME IInv, NEW s \in secrets, Renew(s), changes' \in 0..MaxChanges
    PROVE  IInv'
<1> DEFINE left == csrs \ {s.csr}
<1>1. /\ csrs' = Send(left, key) /\ secrets' = secrets \ {s} /\ Count
      /\ UNCHANGED <<wanted, key, provider, related, news, past>>
  BY DEF Renew
<1>2. key \in Nat /\ TypeOK
  BY DEF IInv, TypeOK
<1>3. Fits(left, key)
  BY BagFits, PartFits
<1> HIDE DEF left
<1>4. Fits(csrs', key)
  BY <1>1, <1>2, <1>3, SendFits
<1>5. /\ rounds' \in Nat /\ rounds <= rounds'
      /\ \A c \in csrs' : c.no <= rounds'
  BY <1>1, <1>2, <1>4, BagFits, Counted
<1>6. RenewalArmed'
  <2> SUFFICES ASSUME ~news, NEW p \in Assigned(csrs, key)',
                      p.csr.attr \in wanted, p.serial \notin revoked
               PROVE  p \in secrets'
    BY <1>1 DEF RenewalArmed, provider
  <2>1. p \in issued /\ p.csr \in Send(left, key) /\ p.csr.key = key
    BY <1>1 DEF Assigned, provider
  <2>2. p.csr \in csrs /\ p.csr # s.csr
    BY <2>1, NewUnanswered DEF left
  <2>3. p \in secrets
    BY <2>1, <2>2 DEF IInv, RenewalArmed, Assigned
  <2> QED
    BY <1>1, <2>2, <2>3
<1> QED
  BY <1>1, <1>2, <1>4, <1>5, <1>6, RequirerStep DEF TypeOK

\* A new private key: no request of the earlier one is left.
LEMMA RegenerateStep ==
    ASSUME IInv, RegeneratePrivateKey
    PROVE  IInv'
<1> DEFINE k == key + 1
           left == CleanUp(csrs, k)
<1>1. /\ key' = k /\ csrs' = Send(left, k) /\ Count
      /\ UNCHANGED <<wanted, secrets, provider, related, news, past>>
  BY DEF RegeneratePrivateKey
<1>2. k \in Nat /\ TypeOK /\ key # k
  BY DEF IInv, TypeOK
<1>3. left = {}
  BY <1>2 DEF IInv, RequestsOfKey, CleanUp
<1>4. Fits(left, k)
  BY <1>3 DEF Fits
<1> HIDE DEF left, k
<1>5. Fits(csrs', k)
  BY <1>1, <1>2, <1>4, SendFits
<1>6. /\ rounds' \in Nat /\ rounds <= rounds'
      /\ \A c \in csrs' : c.no <= rounds'
  BY <1>1, <1>2, <1>5, BagFits, Counted
<1>7. RenewalArmed'
  BY <1>1, <1>3, NewUnanswered DEF RenewalArmed, Assigned, provider
<1>8. changes' \in 0..MaxChanges
  BY ConstantsAssumption DEF RegeneratePrivateKey, Change, IInv, TypeOK
<1> QED
  BY <1>1, <1>2, <1>5, <1>6, <1>7, <1>8, RequirerStep DEF TypeOK

\* The provider's hooks and its answers.
LEMMA ProviderStep ==
    ASSUME IInv,
           \/ ProviderHook
           \/ \E c \in pending : SetRelationCertificate(c)
    PROVE  IInv'
<1>1. CASE ProviderHook
  <2>1. /\ issued' \subseteq issued
        /\ pending' \subseteq pending \cup csrs
    BY <1>1 DEF ProviderHook, Outstanding
  <2>2. TypeOK'
    BY <1>1, <2>1 DEF ProviderHook, IInv, TypeOK, requirer
  <2>3. Numbered'
    BY <1>1, <2>1 DEF ProviderHook, IInv, Numbered, requirer
  <2>4. RenewalArmed'
    BY <1>1, <2>1 DEF ProviderHook, IInv, RenewalArmed, Assigned, requirer
  <2> QED
    BY <1>1, <2>2, <2>3, <2>4 DEF ProviderHook, IInv, RequestsOfKey, OneRequest,
                                  requirer
<1>2. ASSUME NEW c \in pending, SetRelationCertificate(c)
      PROVE  IInv'
  <2>1. /\ issued' = {p \in issued : p.csr # c}
                        \cup {[csr |-> c, serial |-> serial + 1]}
        /\ pending' = pending \ {c} /\ serial' = serial + 1 /\ news' = TRUE
        /\ UNCHANGED <<requirer, related, revoked, past, changes>>
    BY <1>2 DEF SetRelationCertificate
  <2>2. c \in CSRs /\ related
    BY DEF IInv, TypeOK
  <2>3. issued' \in SUBSET Certificates
    BY <2>1, <2>2 DEF IInv, TypeOK, Certificates
  <2>4. TypeOK'
    BY <2>1, <2>2, <2>3 DEF IInv, TypeOK, requirer
  <2>5. {p.csr : p \in issued'} \subseteq {p.csr : p \in issued} \cup {c}
    BY <2>1
  <2>6. Numbered'
    BY <2>1, <2>5 DEF IInv, Numbered, requirer
  <2> QED
    BY <2>1, <2>4, <2>6 DEF IInv, RequestsOfKey, OneRequest, RenewalArmed,
                            requirer
<1> QED
  BY <1>1, <1>2

\* The changes of the environment that renew nothing.
LEMMA EnvironmentStep ==
    ASSUME IInv,
           \/ RevokeAllCertificates
           \/ ChangeAttributes
           \/ Relate
           \/ Break
           \/ \E p \in issued \cup secrets, m \in Moments : Pass(p, m)
    PROVE  IInv'
<1>1. changes' \in 0..MaxChanges
  BY ConstantsAssumption DEF RevokeAllCertificates, ChangeAttributes, Relate,
                             Break, Pass, Change, IInv, TypeOK
<1>2. CASE RevokeAllCertificates
  <2>1. /\ revoked' = revoked \cup {p.serial : p \in issued} /\ news' = TRUE
        /\ UNCHANGED <<requirer, related, issued, pending, serial, past>>
    BY <1>2 DEF RevokeAllCertificates
  <2>2. revoked' \in SUBSET Nat
    BY <2>1 DEF IInv, TypeOK, Certificates
  <2> QED
    BY <1>1, <2>1, <2>2 DEF IInv, TypeOK, RequestsOfKey, Numbered, OneRequest,
                            RenewalArmed, requirer
<1>3. CASE ChangeAttributes
  BY <1>1, <1>3 DEF ChangeAttributes, IInv, TypeOK, RequestsOfKey, Numbered,
                    OneRequest, RenewalArmed, provider
<1>4. CASE Relate
  BY <1>1, <1>4 DEF Relate, IInv, TypeOK, RequestsOfKey, Numbered, OneRequest,
                    RenewalArmed, requirer, provider
<1>5. CASE Break
  BY <1>1, <1>5 DEF Break, IInv, TypeOK, RequestsOfKey, Numbered, OneRequest,
                    RenewalArmed, Assigned
<1>6. ASSUME NEW p \in issued \cup secrets, NEW m \in Moments, Pass(p, m)
      PROVE  IInv'
  <2>1. /\ past' = past \cup {<<p.serial, m>>}
        /\ UNCHANGED <<requirer, provider, related, news>>
    BY <1>6 DEF Pass
  <2>2. past' \in SUBSET (Nat \X Moments)
    BY <2>1 DEF IInv, TypeOK, Certificates
  <2> QED
    BY <1>1, <2>1, <2>2 DEF IInv, TypeOK, RequestsOfKey, Numbered, OneRequest,
                            RenewalArmed, Assigned, requirer, provider
<1> QED
  BY <1>2, <1>3, <1>4, <1>5, <1>6

\* The invariant holds throughout.
THEOREM Invariant == Spec => []IInv
<1>1. Init => IInv
  BY ConstantsAssumption DEF Init, IInv, TypeOK, RequestsOfKey, Numbered,
                             OneRequest, RenewalArmed, Assigned
<1>2. IInv /\ [Next]_vars => IInv'
  <2> SUFFICES ASSUME IInv, [Next]_vars
               PROVE  IInv'
    OBVIOUS
  <2>1. CASE UNCHANGED vars
    BY <2>1 DEF vars, requirer, provider, IInv, TypeOK, RequestsOfKey, Numbered,
                OneRequest, RenewalArmed, Assigned
  <2>2. ASSUME NEW s \in secrets, SecretExpired(s)
        PROVE  IInv'
    BY <2>2, RenewStep DEF SecretExpired, IInv, TypeOK
  <2>3. ASSUME NEW s \in secrets, RenewCertificate(s)
        PROVE  IInv'
    <3>1. changes' \in 0..MaxChanges
      BY <2>3, ConstantsAssumption DEF RenewCertificate, Change, IInv, TypeOK
    <3> QED
      BY <2>3, <3>1, RenewStep DEF RenewCertificate
  <2> QED
    BY <2>1, <2>2, <2>3, ConfigureStep, RegenerateStep, ProviderStep,
       EnvironmentStep DEF Next, Environment
<1> QED
  BY <1>1, <1>2, PTL DEF Spec

\* The variables keep their types, and nothing is written to the databags of a
\* relation that does not exist.
THEOREM TypeCorrect == Spec => []TypeOK
BY Invariant, PTL DEF IInv

\* A unit never asks twice for the same attributes.
THEOREM RequestsAreSingle == Spec => []OneRequest
BY Invariant, PTL DEF IInv

\* Every certificate in use expires in a secret of the unit, and is renewed
\* then, unless an event of the unit is still to come.
THEOREM CertificatesAreArmed == Spec => []RenewalArmed
BY Invariant, PTL DEF IInv

\* A good request is not withdrawn, whatever secrets of earlier requests, keys
\* and relations expire meanwhile.
THEOREM RenewalsHaveReason == Spec => NoNeedlessRenewal
<1> DEFINE Good == changes' = changes =>
                       \A c \in csrs \ csrs' : c.attr \notin wanted
                                               \/ ToBeRenewed(c)
<1>1. IInv /\ [Next]_vars => [Good]_vars
  <2> SUFFICES ASSUME IInv, Next, changes' = changes,
                      NEW c \in csrs \ csrs', c.attr \in wanted
               PROVE  ToBeRenewed(c)
    BY DEF vars, requirer
  <2>1. ~Environment
    <3>1. \A kind : ~Change(kind)
      BY DEF Change, IInv, TypeOK
    <3> QED
      BY <3>1 DEF Environment, RevokeAllCertificates, ChangeAttributes,
           RegeneratePrivateKey, RenewCertificate, Relate, Break, Pass
  <2>2. CASE Configure
    <3> DEFINE k == IF key = 0 THEN 1 ELSE key
               sent == Send(CleanUp(csrs, k), k)
    <3>1. csrs' = Send(sent \ Expiring(sent, k), k)
      BY <2>2 DEF Configure
    <3>2. c \in CleanUp(csrs, k)
      BY DEF CleanUp, IInv, RequestsOfKey
    <3>3. c \in sent
      BY <3>2, SendKeeps
    <3> HIDE DEF sent, k
    <3>4. c \in Expiring(sent, k)
      BY <3>1, <3>3, SendKeeps
    <3> QED
      BY <3>4 DEF Expiring, Assigned, ToBeRenewed
  <2>3. ASSUME NEW s \in secrets, SecretExpired(s)
        PROVE  ToBeRenewed(c)
    <3>1. csrs' = Send(csrs \ {s.csr}, key) /\ Past(s, "renewal")
      BY <2>3 DEF SecretExpired, Renew
    <3>2. c = s.csr
      BY <3>1, SendKeeps
    <3> QED
      BY <3>1, <3>2 DEF ToBeRenewed
  <2> QED
    BY <2>1, <2>2, <2>3 DEF Next, ConfigureEvent, Refresh, ProviderHook,
         SetRelationCertificate, requirer
<1> QED
  BY <1>1, Invariant, PTL DEF Spec, NoNeedlessRenewal

=============================================================================
