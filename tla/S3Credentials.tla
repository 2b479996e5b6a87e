---------------------------- MODULE S3Credentials ----------------------------
(***************************************************************************)
(* The s3 relation (data_platform_libs/v0/s3.py): the requirer's leader    *)
(* asks for a bucket, the provider's leader is told once of the request,   *)
(* which it recognises by the difference to what it has seen before, and   *)
(* answers with credentials that the provider's charm may change later.    *)
(***************************************************************************)
EXTENDS Naturals

CONSTANTS
    S3Units,       \* units of the requirer
    S3Stores,      \* units of the provider
    NoCredentials, \* what a unit without credentials uses
    MaxS3Changes   \* bound on the changes of the environment

S3Keys == {"access-key", "secret-key"}    \* S3_REQUIRED_OPTIONS

ASSUME S3Assumption == NoCredentials \notin Nat /\ MaxS3Changes \in Nat

VARIABLES
    s3Related,   \* whether the relation exists
    bucket,      \* whether "bucket" is in the requirer's databag
    s3Seen,      \* whether "data" in the provider's databag has the bucket
    s3Keys,      \* the keys in the provider's databag
    s3Version,   \* which credentials they are
    s3Joined,    \* units of the requirer whose relation-joined is to come
    s3Changed,   \* those whose relation-changed is to come
    s3Broken,    \* those whose relation-broken is to come
    storeNews,   \* units of the provider whose relation-changed is to come
    s3Leader,    \* the leader of the requirer
    storeLeader, \* the leader of the provider
    s3Moved,     \* history: a lease moved
    using,       \* using[u]: the credentials the charm of u was told of
    s3Changes

s3Vars == <<s3Related, bucket, s3Seen, s3Keys, s3Version, s3Joined, s3Changed,
            s3Broken, storeNews, s3Leader, storeLeader, s3Moved, using, s3Changes>>

s3Leases == <<s3Leader, storeLeader, s3Moved>>

\* get_s3_connection_info with the required options, or nothing to tell.
IsComplete == s3Keys = S3Keys

\* update_connection_info merges: a key that was set stays.
Answer(keys) ==
    /\ s3Keys' = s3Keys \cup keys
    /\ s3Version' = s3Version + 1
    /\ s3Changed' = S3Units

-----------------------------------------------------------------------------
(* The requirer                                                            *)

\* Every unit runs relation-joined, the leader asks.
S3RelationJoined(u) ==
    /\ u \in s3Joined
    /\ s3Joined' = s3Joined \ {u}
    /\ bucket' = (bucket \/ u = s3Leader)
    /\ storeNews' = IF bucket' # bucket THEN S3Stores ELSE storeNews
    /\ UNCHANGED <<s3Leases, s3Related, s3Seen, s3Keys, s3Version, s3Changed,
                   s3Broken, using, s3Changes>>

\* credentials_changed, if the mandatory options are there.
ChangedOnce(u) ==
    /\ u \in s3Changed
    /\ s3Changed' = s3Changed \ {u}
    /\ using' = IF IsComplete /\ using[u] = NoCredentials
                THEN [using EXCEPT ![u] = s3Version] ELSE using
    /\ UNCHANGED <<s3Leases, s3Related, bucket, s3Seen, s3Keys, s3Version,
                   s3Joined, s3Broken, storeNews, s3Changes>>
S3RelationChanged(u) ==
    /\ u \in s3Changed
    /\ s3Changed' = s3Changed \ {u}
    /\ using' = IF IsComplete THEN [using EXCEPT ![u] = s3Version] ELSE using
    /\ UNCHANGED <<s3Leases, s3Related, bucket, s3Seen, s3Keys, s3Version,
                   s3Joined, s3Broken, storeNews, s3Changes>>

\* credentials_gone
S3RelationBroken(u) ==
    /\ u \in s3Broken
    /\ s3Broken' = s3Broken \ {u}
    /\ using' = [using EXCEPT ![u] = NoCredentials]
    /\ UNCHANGED <<s3Leases, s3Related, bucket, s3Seen, s3Keys, s3Version,
                   s3Joined, s3Changed, storeNews, s3Changes>>

-----------------------------------------------------------------------------
(* The provider                                                            *)

\* _on_relation_changed: diff saves what it has seen, and credentials_requested
\* is emitted for a bucket that was added; the charm answers in that event.
\* If it fails, Juju keeps nothing of what the hook wrote, and runs it again.
StoreChanged(p) ==
    /\ p \in storeNews
    /\ storeNews' = storeNews \ {p}
    /\ IF p = storeLeader
       THEN /\ s3Seen' = bucket
            /\ IF bucket /\ ~s3Seen THEN Answer(S3Keys)
               ELSE UNCHANGED <<s3Keys, s3Version, s3Changed>>
       ELSE UNCHANGED <<s3Seen, s3Keys, s3Version, s3Changed>>
    /\ UNCHANGED <<s3Leases, s3Related, bucket, s3Joined, s3Broken, using, s3Changes>>

S3Change == s3Changes < MaxS3Changes /\ s3Changes' = s3Changes + 1

\* set_access_key, set_secret_key in a hook of the provider's charm, to which
\* the user gives credentials when they like, one by one or all.
SetKeys(keys) ==
    /\ S3Change
    /\ s3Related
    /\ Answer(keys)
    /\ UNCHANGED <<s3Leases, s3Related, bucket, s3Seen, s3Joined, s3Broken,
                   storeNews, using>>

-----------------------------------------------------------------------------
(* The environment                                                         *)

RelateS3 ==
    /\ S3Change
    /\ ~s3Related /\ s3Broken = {}
    /\ s3Related' = TRUE
    /\ s3Joined' = S3Units
    /\ UNCHANGED <<s3Leases, bucket, s3Seen, s3Keys, s3Version, s3Changed, s3Broken,
                   storeNews, using>>

\* The databags go with the relation.
UnrelateS3 ==
    /\ S3Change
    /\ s3Related
    /\ s3Related' = FALSE
    /\ bucket' = FALSE /\ s3Seen' = FALSE /\ s3Keys' = {}
    /\ s3Joined' = {} /\ s3Changed' = {} /\ storeNews' = {}
    /\ s3Broken' = S3Units
    /\ UNCHANGED <<s3Leases, s3Version, using>>

S3LeaseMoves(u) ==
    /\ S3Change
    /\ \/ u \in S3Units \ {s3Leader} /\ s3Leader' = u /\ UNCHANGED storeLeader
       \/ u \in S3Stores \ {storeLeader} /\ storeLeader' = u /\ UNCHANGED s3Leader
    /\ s3Moved' = TRUE
    /\ UNCHANGED <<s3Related, bucket, s3Seen, s3Keys, s3Version, s3Joined,
                   s3Changed, s3Broken, storeNews, using>>

-----------------------------------------------------------------------------
S3Init ==
    /\ s3Related = FALSE /\ bucket = FALSE /\ s3Seen = FALSE
    /\ s3Keys = {} /\ s3Version = 0
    /\ s3Joined = {} /\ s3Changed = {} /\ s3Broken = {} /\ storeNews = {}
    /\ s3Leader \in S3Units /\ storeLeader \in S3Stores
    /\ s3Moved = FALSE
    /\ using = [u \in S3Units |-> NoCredentials]
    /\ s3Changes = 0

S3Next ==
    \/ \E u \in S3Units : \/ S3RelationJoined(u)
                          \/ S3RelationChanged(u)
                          \/ S3RelationBroken(u)
    \/ \E p \in S3Stores : StoreChanged(p)
    \/ \E keys \in (SUBSET S3Keys) \ {{}} : SetKeys(keys)
    \/ \E u \in S3Units \cup S3Stores : S3LeaseMoves(u)
    \/ RelateS3 \/ UnrelateS3

S3Spec == S3Init /\ [][S3Next]_s3Vars

-----------------------------------------------------------------------------
(* Properties                                                              *)

S3TypeOK ==
    /\ s3Related \in BOOLEAN /\ bucket \in BOOLEAN /\ s3Seen \in BOOLEAN
    /\ s3Keys \subseteq S3Keys /\ s3Version \in Nat
    /\ s3Joined \subseteq S3Units /\ s3Changed \subseteq S3Units
    /\ s3Broken \subseteq S3Units /\ storeNews \subseteq S3Stores
    /\ s3Leader \in S3Units /\ storeLeader \in S3Stores /\ s3Moved \in BOOLEAN
    /\ using \in [S3Units -> Nat \cup {NoCredentials}]
    /\ s3Changes \in 0..MaxS3Changes
    /\ ~s3Related => ~bucket /\ s3Keys = {} /\ s3Joined = {} /\ s3Changed = {}
    /\ s3Related => s3Broken = {}
    /\ s3Seen => bucket

\* A unit uses the provider's present and complete credentials, or none if there
\* are none, or has an event to come that will tell it: half of the credentials,
\* or those of a relation that is gone, are never used in the end.
CredentialsCurrent ==
    \A u \in S3Units \ (s3Changed \cup s3Broken) :
        using[u] = IF IsComplete THEN s3Version ELSE NoCredentials

\* A bucket that was asked for is answered when the events are handled, though
\* the request is recognised but once.  If a lease moved on the way, the unit
\* that became leader may have run its event before, as one that does not lead.
RequestsAnswered ==
    s3Related /\ s3Joined = {} /\ storeNews = {} /\ ~s3Moved
      => bucket /\ s3Seen /\ IsComplete

\* Both: requests are answered, and the answers used.
CredentialsFollow == CredentialsCurrent /\ RequestsAnswered
=============================================================================
