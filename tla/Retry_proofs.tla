----------------------------- MODULE Retry_proofs -----------------------------
(***************************************************************************)
(* Proofs about what is tried again, and about the parts that trying again *)
(* rests on:                                                               *)
(*                                                                         *)
(*   - a download that is reported as succeeded left the whole image in    *)
(*     the partition, and the resume tracker tells the truth about it, for *)
(*     any number of blocks, images, downloads and faults, with or without *)
(*     a declared MD5;                                                     *)
(*   - the retry context, for any number of tasks and timers and any       *)
(*     number of resets;                                                   *)
(*   - the POSIX primitives, for any number of threads, any capacity and   *)
(*     any bits;                                                           *)
(*   - the timer chain, for any delays, tick rate and lateness.            *)
(***************************************************************************)
EXTENDS OtaImage, MCBackoff, TimerChain, FiniteSetTheorems, TLAPS

-----------------------------------------------------------------------------
(* The download of an image.                                               *)

(* The type of the download context.                                       *)
Downloads == [image : Images \cup {None}, todo : SUBSET Blocks, req : SUBSET Blocks,
              count : 0..(Word - 1), flag : {"none", "success", "failure"}, per : 0..PerRequest,
              retries : 0..MaxRetries, resume : BOOLEAN, open : BOOLEAN, armed : BOOLEAN]

(* The queue without its oldest task.                                      *)
LEMMA QueueTail ==
    ASSUME NEW q \in Seq(WorkTasks), q # <<>>
    PROVE  /\ Tail(q) \in Seq(WorkTasks) /\ q[1] \in WorkTasks
           /\ Len(q) \in Nat /\ Len(q) >= 1 /\ Len(Tail(q)) = Len(q) - 1
           /\ \A i \in 1..Len(Tail(q)) : Tail(q)[i] = q[i + 1]
  OBVIOUS

(* The queue with a new task at its end.                                   *)
LEMMA QueueAppend ==
    ASSUME NEW q \in Seq(WorkTasks), NEW e \in WorkTasks
    PROVE  /\ Append(q, e) \in Seq(WorkTasks)
           /\ Len(q) \in Nat /\ Len(Append(q, e)) = Len(q) + 1
           /\ \A i \in 1..Len(q) : Append(q, e)[i] = q[i]
           /\ Append(q, e)[Len(q) + 1] = e
  OBVIOUS

(* The number of retries is a number.                                      *)
LEMMA MaxRetriesType == MaxRetries \in Nat
  BY BoundsAssumption DEF MaxRetries

(* A request never asks for more blocks than there are.                    *)
LEMMA BlocksCounted ==
    ASSUME NEW S \in SUBSET Blocks
    PROVE  Cardinality(S) \in 0..(Word - 1)
  <1>1. IsFiniteSet(Blocks) /\ Cardinality(Blocks) = N
    BY BoundsAssumption, FS_Interval DEF Blocks
  <1>2. IsFiniteSet(S) /\ Cardinality(S) <= N
    BY <1>1, FS_Subset
  <1>3. Cardinality(S) \in Nat
    BY <1>2, FS_CardinalityType
  <1> QED BY <1>2, <1>3, BoundsAssumption

-----------------------------------------------------------------------------
(* The download context keeps its type through every update of it.         *)
LEMMA InactiveType == Inactive \in Downloads
  BY BoundsAssumption, MaxRetriesType DEF Inactive, Downloads

(* A request for the next blocks is of the same download.                  *)
LEMMA AskedType ==
    ASSUME NEW d \in Downloads, NEW timed \in BOOLEAN
    PROVE  /\ Asked(d, timed) \in Downloads
           /\ Asked(d, timed).image = d.image /\ Asked(d, timed).todo = d.todo
           /\ Asked(d, timed).open = d.open /\ Asked(d, timed).resume = d.resume
  <1>1. First(d.per, d.todo) \in SUBSET Blocks
    BY DEF Downloads, First
  <1>2. Cardinality(First(d.per, d.todo)) \in 0..(Word - 1)
    BY <1>1, BlocksCounted
  <1> QED BY <1>1, <1>2 DEF Asked, Downloads

(* A failure that may still be retried.                                    *)
LEMMA FailedType ==
    ASSUME NEW d \in Downloads, Failed(d).retries <= MaxRetries
    PROVE  /\ Failed(d) \in Downloads
           /\ Failed(d).image = d.image /\ Failed(d).todo = d.todo
           /\ Failed(d).open = d.open /\ Failed(d).resume = d.resume
  <1>1. Failed(d).retries = d.retries + 1
    BY DEF Failed, Downloads
  <1>2. d.retries + 1 \in 0..MaxRetries
    BY <1>1, MaxRetriesType DEF Downloads
  <1>3. 1 \in 0..PerRequest
    BY BoundsAssumption
  <1> DEFINE r == d.retries + 1
  <1>4. r \in 0..MaxRetries
    BY <1>2
  <1>5. Failed(d) = [d EXCEPT !.flag = "failure", !.retries = r, !.per = 1]
    BY DEF Failed, Downloads
  <1> HIDE DEF r
  <1> QED BY <1>3, <1>4, <1>5 DEF Downloads

(* The unsigned count of the request stays in its word.                    *)
LEMMA CountDownType ==
    ASSUME NEW d \in Downloads
    PROVE  CountDown(d) \in 0..(Word - 1)
  <1>1. d.count + Word - 1 \in Nat /\ Word \in Nat \ {0}
    BY BoundsAssumption DEF Downloads
  <1> QED BY <1>1 DEF CountDown

(* The next batch asks for the same download.                              *)
LEMMA BatchType ==
    ASSUME NEW d \in Downloads
    PROVE  /\ Batch(d) \in Downloads
           /\ Batch(d).image = d.image /\ Batch(d).todo = d.todo
           /\ Batch(d).open = d.open /\ Batch(d).resume = d.resume
  <1>1. 0 \in 0..(Word - 1) /\ 0 \in 0..MaxRetries
    BY BoundsAssumption, MaxRetriesType
  <1>2. (IF d.per < PerRequest THEN d.per + 1 ELSE d.per) \in 0..PerRequest
    BY BoundsAssumption DEF Downloads
  <1> QED BY <1>1, <1>2 DEF Batch, Downloads

(* A new download; what it does not ask for the tracker has.               *)
LEMMA FreshType ==
    ASSUME DownloadTypeOK, NEW i \in Images
    PROVE  /\ Fresh(i) \in Downloads /\ Fresh(i).image = i /\ Fresh(i).open = FALSE
           /\ Fresh(i).resume => nvs.image = i /\ Fresh(i).todo = nvs.todo /\ Kept(i) = nvs
           /\ ~Fresh(i).resume => Fresh(i).todo = Blocks
  <1>1. (i \in Md5 /\ Matches(nvs, i)) \in BOOLEAN
    BY Zenon DEF Matches
  <1>2. 0 \in 0..(Word - 1) /\ 0 \in 0..MaxRetries /\ PerRequest \in 0..PerRequest
    BY BoundsAssumption, MaxRetriesType
  <1>3. nvs.todo \in SUBSET Blocks
    BY DEF DownloadTypeOK
  <1> DEFINE resume == i \in Md5 /\ Matches(nvs, i)
             todo == IF resume THEN nvs.todo ELSE Blocks
  <1>4. Fresh(i) = [Inactive EXCEPT !.image = i, !.per = PerRequest, !.resume = resume,
                                    !.todo = todo]
    BY DEF Fresh
  <1>5. todo \in SUBSET Blocks
    BY <1>3
  <1>6. resume => nvs.image = i /\ todo = nvs.todo /\ Kept(i) = nvs
    BY DEF Matches, Kept
  <1>7. ~resume => todo = Blocks
    OBVIOUS
  <1>8. resume \in BOOLEAN
    BY <1>1
  <1> HIDE DEF resume, todo
  <1> QED BY <1>2, <1>4, <1>5, <1>6, <1>7, <1>8 DEF Inactive, Downloads

-----------------------------------------------------------------------------
(* The type invariant, in the parts that the operators of a step set.      *)
TDl    == dl \in Downloads
TQueue == work \in Seq(WorkTasks) /\ Len(work) <= MaxQueue
TSub   == late \in {"no", "yes", "freed"} /\ sub \in {"no", "asked", "ok"} /\ subRetry \in BOOLEAN
TNet   == net \subseteq Data
TNvs   == nvs \in [image : Md5 \cup {None}, todo : SUBSET Blocks]
TFlash == flash \in [Blocks -> Images \cup {None}]
TOut   == out \in [image : Images \cup {None},
                   result : {"none", "FAILED", "TIMEOUT", "MD5_INVALID", "SUCCEEDED"}]
TCount == starts \in 0..MaxStarts /\ faults \in 0..MaxFaults
THist  == spoiled \subseteq Md5 /\ starved \in BOOLEAN /\ online \in BOOLEAN

(* The type invariant is the conjunction of its parts.                     *)
LEMMA TypeParts ==
    DownloadTypeOK <=> TDl /\ TQueue /\ TSub /\ TNet /\ TNvs /\ TFlash /\ TOut /\ TCount /\ THist
  BY Zenon DEF DownloadTypeOK, TDl, TQueue, TSub, TNet, TNvs, TFlash, TOut, TCount, THist, Downloads

(* The same parts in the next state.                                       *)
LEMMA TypePartsNext ==
    ASSUME TDl', TQueue', TSub', TNet', TNvs', TFlash', TOut', TCount', THist'
    PROVE  DownloadTypeOK'
  BY Zenon DEF DownloadTypeOK, TDl, TQueue, TSub, TNet, TNvs, TFlash, TOut, TCount, THist, Downloads

(* The faults stay within their bound.                                     *)
LEMMA FaultsType ==
    ASSUME TCount, NEW n \in Nat, Faults(n)
    PROVE  faults' \in 0..MaxFaults
  BY BoundsAssumption DEF TCount, Faults

(* cleanup_downloader resets the context and the subscription.             *)
LEMMA CleanupType ==
    ASSUME TSub, Cleanup
    PROVE  TSub' /\ dl' = Inactive /\ TDl'
  BY InactiveType DEF TSub, TDl, Cleanup

(* How a download ends: the whole context is reset, and the result is a    *)
(* success only after the MD5 check of image_handler_end.                  *)
LEMMA EndOutcome ==
    ASSUME TDl, TSub, TNvs, NEW status \in {"SUCCESS", "TIMEOUT"},
           NEW t \in [image : Md5 \cup {None}, todo : SUBSET Blocks], NEW f, End(status, t, f)
    PROVE  /\ dl' = Inactive /\ TDl' /\ TSub' /\ TNvs' /\ TOut'
           /\ out'.image = dl.image
           /\ nvs' = IF status = "SUCCESS" THEN NoTracker ELSE t
           /\ out'.result = "SUCCEEDED" => status = "SUCCESS" /\ Passes(dl.image, f)
  <1>1. dl' = Inactive /\ TDl' /\ TSub'
    BY CleanupType DEF End
  <1>2. TNvs' /\ nvs' = IF status = "SUCCESS" THEN NoTracker ELSE t
    BY Zenon DEF End, TNvs, NoTracker
  <1> DEFINE r == CASE status # "SUCCESS" -> "TIMEOUT"
                    [] ~Passes(dl.image, f) -> "MD5_INVALID"
                    [] OTHER -> "SUCCEEDED"
  <1>3. out' = [image |-> dl.image, result |-> r]
    BY DEF End
  <1>4. r \in {"TIMEOUT", "MD5_INVALID", "SUCCEEDED"}
    OBVIOUS
  <1>5. r = "SUCCEEDED" => status = "SUCCESS" /\ Passes(dl.image, f)
    OBVIOUS
  <1>6. dl.image \in Images \cup {None}
    BY DEF TDl, Downloads
  <1> HIDE DEF r
  <1> QED BY <1>1, <1>2, <1>3, <1>4, <1>5, <1>6 DEF TOut

(* What is in flight after a request.                                      *)
LEMMA PublishedOutcome ==
    ASSUME TNet, NEW d \in Downloads, d.image \in Images, NEW timed \in BOOLEAN,
           Published(d, timed)
    PROVE  /\ TNet' /\ TDl'
           /\ dl'.image = d.image /\ dl'.todo = d.todo
           /\ dl'.open = d.open /\ dl'.resume = d.resume
  <1>1. First(d.per, d.todo) \subseteq Blocks
    BY DEF Downloads, First
  <1>2. TNet'
    BY <1>1 DEF TNet, Data, Published
  <1> QED BY <1>2, AskedType DEF TDl, Published

(* The download goes on: its context still describes d.                    *)
GoesOn(d) == /\ dl'.image = d.image /\ dl'.todo = d.todo
             /\ dl'.open = d.open /\ dl'.resume = d.resume
             /\ out' = out

(* The next request, published or not, is of the same download.            *)
LEMMA SendNextOutcome ==
    ASSUME TNet, TCount, THist, NEW d \in Downloads, d.image \in Images, NEW n \in Nat,
           SendNext(d, n)
    PROVE  /\ TNet' /\ TDl' /\ faults' \in 0..MaxFaults /\ starved' \in BOOLEAN
           /\ dl'.image = d.image /\ dl'.todo = d.todo
           /\ dl'.open = d.open /\ dl'.resume = d.resume
  <1>0. n + 1 \in Nat /\ \A b \in BOOLEAN : n + Cost(b) \in Nat /\ n + Cost(b) + 1 \in Nat
    BY DEF Cost
  <1>1. ASSUME NEW timed \in BOOLEAN, starved' = (starved \/ ~timed),
               \/ Faults(n + Cost(timed)) /\ Published(d, timed)
               \/ Faults(n + Cost(timed) + 1) /\ dl' = Asked(d, timed) /\ UNCHANGED net
        PROVE  /\ TNet' /\ TDl' /\ faults' \in 0..MaxFaults /\ starved' \in BOOLEAN
               /\ dl'.image = d.image /\ dl'.todo = d.todo
               /\ dl'.open = d.open /\ dl'.resume = d.resume
    <2>1. starved' \in BOOLEAN
      BY <1>1, Zenon DEF THist
    <2>2. CASE Faults(n + Cost(timed)) /\ Published(d, timed)
      BY <1>0, <2>1, <2>2, PublishedOutcome, FaultsType
    <2>3. CASE Faults(n + Cost(timed) + 1) /\ dl' = Asked(d, timed) /\ UNCHANGED net
      BY <1>0, <2>1, <2>3, AskedType, FaultsType DEF TNet, TDl
    <2> QED BY <1>1, <2>2, <2>3
  <1>2. CASE Faults(n + 1) /\ dl' = d /\ starved' = TRUE /\ UNCHANGED net
    BY <1>0, <1>2, FaultsType DEF TNet, TDl
  <1> QED BY <1>1, <1>2 DEF SendNext

(* A failure retries the same download or gives it up.                     *)
LEMMA FailureOutcome ==
    ASSUME DownloadTypeOK, NEW d \in Downloads, d.image \in Images, dl.image = d.image,
           NEW t \in [image : Md5 \cup {None}, todo : SUBSET Blocks], NEW f, NEW n \in Nat,
           Failure(d, t, f, n)
    PROVE  /\ TDl' /\ TSub' /\ TNet' /\ TNvs' /\ TOut'
           /\ faults' \in 0..MaxFaults /\ starved' \in BOOLEAN /\ nvs' = t
           /\ \/ GoesOn(d)
              \/ dl' = Inactive /\ out'.result # "SUCCEEDED"
  <1> USE TypeParts
  <1>1. CASE /\ d.flag # "none"
             /\ dl' = d /\ nvs' = t
             /\ Faults(n)
             /\ UNCHANGED <<net, out, late, sub, subRetry, starved>>
    <2>1. faults' \in 0..MaxFaults
      BY <1>1, FaultsType
    <2> QED BY <1>1, <2>1 DEF TDl, TSub, TNet, TNvs, TOut, THist, GoesOn
  <1>2. CASE /\ End("TIMEOUT", t, f)
             /\ Faults(n)
             /\ UNCHANGED <<net, starved>>
    <2>1. faults' \in 0..MaxFaults
      BY <1>2, FaultsType
    <2>2. /\ dl' = Inactive /\ TDl' /\ TSub' /\ TNvs' /\ TOut' /\ nvs' = t
          /\ out'.result # "SUCCEEDED"
      BY <1>2, EndOutcome
    <2> QED BY <1>2, <2>1, <2>2 DEF TNet, THist
  <1>3. CASE /\ Failed(d).retries <= MaxRetries
             /\ SendNext(Failed(d), n)
             /\ nvs' = t
             /\ UNCHANGED <<out, late, sub, subRetry>>
    <2>1. /\ Failed(d) \in Downloads
          /\ Failed(d).image = d.image /\ Failed(d).todo = d.todo
          /\ Failed(d).open = d.open /\ Failed(d).resume = d.resume
      BY <1>3, FailedType
    <2>2. /\ TNet' /\ TDl' /\ faults' \in 0..MaxFaults /\ starved' \in BOOLEAN
          /\ dl'.image = d.image /\ dl'.todo = d.todo
          /\ dl'.open = d.open /\ dl'.resume = d.resume
      BY <1>3, <2>1, SendNextOutcome
    <2> QED BY <1>3, <2>2 DEF TSub, TNvs, TOut, GoesOn
  <1> QED BY <1>1, <1>2, <1>3 DEF Failure

(* The tracker is as it was, or says what d has still to do.               *)
Saved(d) == \/ nvs' = nvs
            \/ d.image \in Md5 /\ nvs' = [image |-> d.image, todo |-> d.todo]

(* A block that was written leaves the download going on, ends it as a     *)
(* failure, or, as its last block, ends it for the final check.            *)
LEMMA SuccessOutcome ==
    ASSUME DownloadTypeOK, NEW d \in Downloads, d.image \in Images, dl.image = d.image, NEW f,
           NEW n \in Nat, Success(d, f, n)
    PROVE  /\ TDl' /\ TSub' /\ TNet' /\ TNvs' /\ TOut'
           /\ faults' \in 0..MaxFaults /\ starved' \in BOOLEAN
           /\ \/ GoesOn(d) /\ Saved(d)
              \/ /\ dl' = Inactive
                 /\ Saved(d) \/ nvs' = NoTracker
                 /\ out'.result = "SUCCEEDED" =>
                        out'.image = d.image /\ d.todo = {} /\ Passes(d.image, f)
  <1> DEFINE c == CountDown(d)
             e == [d EXCEPT !.count = c]
             next == Batch(e)
  <1> USE TypeParts
  <1>1. /\ e \in Downloads /\ e.image = d.image /\ e.todo = d.todo
        /\ e.open = d.open /\ e.resume = d.resume
    <2>1. c \in 0..(Word - 1)
      BY CountDownType
    <2> HIDE DEF c
    <2> QED BY <2>1 DEF Downloads
  <1>2. /\ next \in Downloads /\ next.image = d.image /\ next.todo = d.todo
        /\ next.open = d.open /\ next.resume = d.resume
    <2> HIDE DEF e
    <2> QED BY <1>1, BatchType
  <1>3. /\ Persisted(e) \in [image : Md5 \cup {None}, todo : SUBSET Blocks]
        /\ \/ Persisted(e) = nvs
           \/ d.image \in Md5 /\ Persisted(e) = [image |-> d.image, todo |-> d.todo]
    <2> HIDE DEF e
    <2> QED BY <1>1 DEF Persisted, TNvs, Downloads
  <1>4. \A a, b \in BOOLEAN :
            /\ n + Cost(a) \in Nat /\ n + Cost(a) + 1 \in Nat
            /\ n + Cost(a) + Cost(b) \in Nat /\ n + Cost(a) + Cost(b) + 1 \in Nat
    BY DEF Cost
  <1>5. ASSUME NEW timed \in BOOLEAN
        PROVE  /\ Asked(next, timed) \in Downloads /\ Asked(next, timed).image = d.image
               /\ Asked(next, timed).todo = d.todo /\ Asked(next, timed).open = d.open
               /\ Asked(next, timed).resume = d.resume
    <2> HIDE DEF next
    <2> QED BY <1>2, AskedType
  <1>6. nvs \in [image : Md5 \cup {None}, todo : SUBSET Blocks]
    BY DEF TNvs
  <1> DEFINE Sent(t, timed, m) ==
                 \/ /\ Published(next, timed) /\ nvs' = t /\ Faults(m + Cost(timed))
                    /\ starved' = (starved \/ ~timed)
                    /\ UNCHANGED <<out, late, sub, subRetry>>
                 \/ Failure(Asked(next, timed), t, f, m + Cost(timed) + 1)
                 \/ /\ dl' = next /\ nvs' = t /\ Faults(m + 1) /\ starved' = TRUE
                    /\ UNCHANGED <<net, out, late, sub, subRetry>>
  <1>7. \/ d.todo = {} /\ End("SUCCESS", nvs, f) /\ Faults(n) /\ UNCHANGED <<net, starved>>
        \/ /\ dl' = e /\ Faults(n)
           /\ UNCHANGED <<net, nvs, out, late, sub, subRetry, starved>>
        \/ Failure(e, nvs, f, n)
        \/ \E t \in {Persisted(e), nvs}, timed \in BOOLEAN :
              Sent(t, timed, n + Cost(t = Persisted(e)))
    BY Zenon DEF Success
  <1> HIDE DEF c, e, next
  <1>8. CASE d.todo = {} /\ End("SUCCESS", nvs, f) /\ Faults(n) /\ UNCHANGED <<net, starved>>
    <2>1. /\ dl' = Inactive /\ TDl' /\ TSub' /\ TNvs' /\ TOut' /\ out'.image = dl.image
          /\ nvs' = NoTracker
          /\ out'.result = "SUCCEEDED" => Passes(dl.image, f)
      <3> DEFINE T == [image : Md5 \cup {None}, todo : SUBSET Blocks]
      <3>1. nvs \in T
        BY <1>6
      <3>2. "SUCCESS" \in {"SUCCESS", "TIMEOUT"}
        OBVIOUS
      <3> QED BY <1>8, <3>1, <3>2, EndOutcome
    <2>2. faults' \in 0..MaxFaults
      BY <1>8, FaultsType
    <2> QED BY <1>8, <2>1, <2>2 DEF TNet, THist
  <1>9. CASE /\ dl' = e /\ Faults(n)
             /\ UNCHANGED <<net, nvs, out, late, sub, subRetry, starved>>
    <2>1. faults' \in 0..MaxFaults
      BY <1>9, FaultsType
    <2> QED BY <1>1, <1>9, <2>1 DEF TDl, TSub, TNet, TNvs, TOut, THist, GoesOn, Saved
  <1>10. CASE Failure(e, nvs, f, n)
    <2>1. /\ TDl' /\ TSub' /\ TNet' /\ TNvs' /\ TOut'
          /\ faults' \in 0..MaxFaults /\ starved' \in BOOLEAN /\ nvs' = nvs
          /\ GoesOn(e) \/ (dl' = Inactive /\ out'.result # "SUCCEEDED")
      BY <1>1, <1>6, <1>10, FailureOutcome
    <2> QED BY <1>1, <2>1 DEF GoesOn, Saved
  <1>11. ASSUME NEW t \in {Persisted(e), nvs}, NEW timed \in BOOLEAN,
                Sent(t, timed, n + Cost(t = Persisted(e)))
         PROVE  /\ TDl' /\ TSub' /\ TNet' /\ TNvs' /\ TOut'
                /\ faults' \in 0..MaxFaults /\ starved' \in BOOLEAN /\ Saved(d)
                /\ GoesOn(d) \/ (dl' = Inactive /\ out'.result # "SUCCEEDED")
    <2> DEFINE T == [image : Md5 \cup {None}, todo : SUBSET Blocks]
               m == n + Cost(t = Persisted(e))
    <2>1. /\ t \in T
          /\ nvs' = t => TNvs' /\ Saved(d)
      BY <1>3, <1>6 DEF TNvs, Saved
    <2>2. m + Cost(timed) \in Nat /\ m + 1 \in Nat /\ m + Cost(timed) + 1 \in Nat
      <3>1. (t = Persisted(e)) \in BOOLEAN
        OBVIOUS
      <3> QED BY <1>4, <3>1
    <2>3. Sent(t, timed, m)
      BY <1>11
    <2> HIDE DEF m, T
    <2>4. CASE /\ Published(next, timed) /\ nvs' = t /\ Faults(m + Cost(timed))
               /\ starved' = (starved \/ ~timed)
               /\ UNCHANGED <<out, late, sub, subRetry>>
      <3>1. /\ TNet' /\ TDl' /\ dl'.image = next.image /\ dl'.todo = next.todo
            /\ dl'.open = next.open /\ dl'.resume = next.resume
        BY <1>2, <2>4, PublishedOutcome
      <3>2. faults' \in 0..MaxFaults
        BY <2>2, <2>4, FaultsType
      <3>3. starved' \in BOOLEAN
        BY <2>4, Zenon DEF THist
      <3> QED BY <1>2, <2>1, <2>4, <3>1, <3>2, <3>3 DEF TSub, TOut, GoesOn
    <2>5. CASE Failure(Asked(next, timed), t, f, m + Cost(timed) + 1)
      <3>1. t \in [image : Md5 \cup {None}, todo : SUBSET Blocks]
        BY <2>1 DEF T
      <3>2. /\ TDl' /\ TSub' /\ TNet' /\ TNvs' /\ TOut'
            /\ faults' \in 0..MaxFaults /\ starved' \in BOOLEAN /\ nvs' = t
            /\ GoesOn(Asked(next, timed)) \/ (dl' = Inactive /\ out'.result # "SUCCEEDED")
        BY <1>5, <2>2, <2>5, <3>1, FailureOutcome
      <3> QED BY <1>5, <2>1, <3>2 DEF GoesOn
    <2>6. CASE /\ dl' = next /\ nvs' = t /\ Faults(m + 1) /\ starved' = TRUE
               /\ UNCHANGED <<net, out, late, sub, subRetry>>
      <3>1. faults' \in 0..MaxFaults
        BY <2>2, <2>6, FaultsType
      <3> QED BY <1>2, <2>1, <2>6, <3>1 DEF TDl, TSub, TNet, TOut, GoesOn
    <2> QED BY <2>3, <2>4, <2>5, <2>6
  <1> HIDE DEF Sent
  <1> QED BY <1>7, <1>8, <1>9, <1>10, <1>11

-----------------------------------------------------------------------------
(* The inductive invariant.  The order of the work queue keeps the blocks  *)
(* of one download apart from the next: a block waits behind no start, so  *)
(* what a download writes is of its own image.                             *)
Streams == /\ Active => \A k \in 1..Len(work) :
                           /\ work[k].task # "start"
                           /\ work[k].task = "chunk" => work[k].image = dl.image
           /\ \A k, m \in 1..Len(work) :
                 k < m /\ work[k].task = "start" => work[m].task \notin {"start", "chunk"}

(* The bitmap of a download is true unless the partition was erased under  *)
(* the tracker of its image: the partition was erased before the first     *)
(* block, or holds what the tracker says, and it holds every block that is *)
(* no longer to do.                                                        *)
Partition == /\ ~Active => dl.todo = {}
             /\ Active /\ dl.image \notin spoiled =>
                    IF dl.open THEN \A b \in Blocks \ dl.todo : flash[b] = dl.image
                    ELSE dl.resume \/ dl.todo = Blocks

(* The tracker is true, and of the download in progress: a resumed one     *)
(* starts from it, another one has spoiled what tracker it found.          *)
Tracker == /\ TrackerTrue
           /\ Active /\ dl.resume => /\ nvs.image = dl.image
                                     /\ ~dl.open => nvs.todo = dl.todo
           /\ Active /\ dl.open => nvs.image \in {None, dl.image} \cup spoiled

(* After a success nobody writes the partition before the next request.    *)
Reported == out.result = "SUCCEEDED" =>
                /\ ~Active /\ \A k \in 1..Len(work) : work[k].task # "start"
                /\ out.image \in Hashed \/ out.image \notin spoiled =>
                       \A b \in Blocks : flash[b] = out.image

ImageInv == Streams /\ Partition /\ Tracker /\ Reported

(* Taking the head off the queue and adding a task that is neither a start *)
(* nor a block leave the order as it is.                                   *)
LEMMA StreamsTail ==
    ASSUME TQueue, Streams, work # <<>>, work' = Tail(work)
    PROVE  /\ TQueue'
           /\ \A k, m \in 1..Len(work') :
                 k < m /\ work'[k].task = "start" => work'[m].task \notin {"start", "chunk"}
           /\ Active => \A k \in 1..Len(work') :
                           /\ work'[k].task # "start"
                           /\ work'[k].task = "chunk" => work'[k].image = dl.image
           /\ Active /\ Head1.task = "chunk" => Head1.image = dl.image
           /\ Head1.task = "start" => ~Active
           /\ Head1.task = "start" =>
                 \A k \in 1..Len(work') : work'[k].task \notin {"start", "chunk"}
           /\ (\A k \in 1..Len(work) : work[k].task # "start") =>
                 \A k \in 1..Len(work') : work'[k].task # "start"
  <1>1. /\ Tail(work) \in Seq(WorkTasks) /\ work[1] \in WorkTasks
        /\ Len(work) \in Nat /\ Len(work) >= 1 /\ Len(Tail(work)) = Len(work) - 1
        /\ \A i \in 1..Len(Tail(work)) : Tail(work)[i] = work[i + 1]
    BY QueueTail DEF TQueue
  <1>2. TQueue'
    BY <1>1, BoundsAssumption DEF TQueue
  <1>3. \A k \in 1..Len(work') : /\ k + 1 \in 1..Len(work) /\ k + 1 > 1
                                 /\ work'[k] = work[k + 1]
    BY <1>1
  <1>4. 1 \in 1..Len(work)
    BY <1>1
  <1>5. \A k, m \in 1..Len(work') :
            k < m /\ work'[k].task = "start" => work'[m].task \notin {"start", "chunk"}
    <2> SUFFICES ASSUME NEW k \in 1..Len(work'), NEW m \in 1..Len(work'),
                        k < m, work'[k].task = "start"
                 PROVE  work'[m].task \notin {"start", "chunk"}
      OBVIOUS
    <2>1. k + 1 < m + 1
      OBVIOUS
    <2> QED BY <1>3, <2>1 DEF Streams
  <1> QED BY <1>2, <1>3, <1>4, <1>5 DEF Streams, Head1

(* A new task: a start only without a download, a block only of it.        *)
LEMMA StreamsAppend ==
    ASSUME TQueue, Streams, Fits, NEW e \in WorkTasks, work' = Append(work, e), UNCHANGED dl,
           \/ e.task \in {"fail", "sub"}
           \/ e.task = "chunk" /\ Active /\ e.image = dl.image
           \/ e.task = "start" /\ ~Active /\ \A k \in 1..Len(work) : work[k].task # "start"
    PROVE  /\ TQueue' /\ Streams'
           /\ (\A k \in 1..Len(work) : work[k].task # "start") /\ e.task # "start" =>
                 \A k \in 1..Len(work') : work'[k].task # "start"
  <1>1. /\ Append(work, e) \in Seq(WorkTasks)
        /\ Len(work) \in Nat /\ Len(Append(work, e)) = Len(work) + 1
        /\ \A i \in 1..Len(work) : Append(work, e)[i] = work[i]
        /\ Append(work, e)[Len(work) + 1] = e
    BY QueueAppend DEF TQueue
  <1>2. TQueue'
    BY <1>1, BoundsAssumption DEF TQueue, Fits
  <1>3. \A k \in 1..Len(work') : \/ k \in 1..Len(work) /\ work'[k] = work[k]
                                 \/ k = Len(work) + 1 /\ work'[k] = e
    BY <1>1
  <1>4. \A k, m \in 1..Len(work') :
            k < m /\ work'[k].task = "start" => work'[m].task \notin {"start", "chunk"}
    <2> SUFFICES ASSUME NEW k \in 1..Len(work'), NEW m \in 1..Len(work'),
                        k < m, work'[k].task = "start"
                 PROVE  work'[m].task \notin {"start", "chunk"}
      OBVIOUS
    <2>1. k \in 1..Len(work) /\ work'[k] = work[k]
      BY <1>1, <1>3
    <2>2. CASE m \in 1..Len(work) /\ work'[m] = work[m]
      BY <2>1, <2>2 DEF Streams
    <2>3. CASE work'[m] = e
      BY <2>1, <2>3 DEF Streams
    <2> QED BY <1>3, <2>2, <2>3
  <1>5. Active' <=> Active
    BY DEF Active
  <1>6. Active => \A k \in 1..Len(work') :
                      /\ work'[k].task # "start"
                      /\ work'[k].task = "chunk" => work'[k].image = dl.image
    BY <1>3 DEF Streams
  <1>7. Streams'
    BY <1>4, <1>5, <1>6 DEF Streams
  <1> QED BY <1>2, <1>3, <1>7

-----------------------------------------------------------------------------
(* A download that ended wrote nothing more, and left nothing to do.       *)
LEMMA InactiveFields ==
    Inactive.image = None /\ Inactive.todo = {}
  BY DEF Inactive

(* A worker task after which the download goes on as it was, or ends       *)
(* without success.                                                        *)
LEMMA WorkerKeeps ==
    ASSUME DownloadTypeOK, ImageInv, work # <<>>, work' = Tail(work),
           UNCHANGED <<flash, nvs, spoiled>>,
           \/ GoesOn(dl)
           \/ dl' = Inactive /\ out'.result # "SUCCEEDED"
    PROVE  TQueue' /\ ImageInv'
  <1> USE TypeParts
  <1>1. TQueue'
    BY StreamsTail DEF ImageInv
  <1>2. CASE GoesOn(dl)
    <2>1. (Active' <=> Active) /\ out' = out
      BY <1>2 DEF Active, GoesOn
    <2>2. Streams'
      BY <1>2, <2>1, StreamsTail DEF ImageInv, Streams, GoesOn
    <2>3. Partition' /\ Tracker'
      BY <1>2, <2>1 DEF ImageInv, Partition, Tracker, TrackerTrue, GoesOn
    <2>4. Reported'
      BY <2>1, StreamsTail DEF ImageInv, Reported
    <2> QED BY <1>1, <2>2, <2>3, <2>4 DEF ImageInv
  <1>3. CASE dl' = Inactive /\ out'.result # "SUCCEEDED"
    <2>1. ~Active' /\ dl'.todo = {}
      BY <1>3, InactiveFields DEF Active
    <2>2. Streams'
      BY <2>1, StreamsTail DEF ImageInv, Streams
    <2>3. Partition' /\ Tracker' /\ Reported'
      BY <1>3, <2>1 DEF ImageInv, Partition, Tracker, TrackerTrue, Reported
    <2> QED BY <1>1, <2>2, <2>3 DEF ImageInv
  <1> QED BY <1>2, <1>3

(* A step that leaves the context, the partition and the result alone.     *)
LEMMA OthersKeep ==
    ASSUME DownloadTypeOK, ImageInv, UNCHANGED <<dl, flash, out, nvs, spoiled>>, TQueue', Streams',
           (\A k \in 1..Len(work) : work[k].task # "start") =>
                 \A k \in 1..Len(work') : work'[k].task # "start"
    PROVE  ImageInv'
  <1>1. Active' <=> Active
    BY DEF Active
  <1>2. Partition' /\ Tracker'
    BY <1>1 DEF ImageInv, Partition, Tracker, TrackerTrue
  <1>3. Reported'
    BY <1>1 DEF ImageInv, Reported
  <1> QED BY <1>2, <1>3 DEF ImageInv

(* A step that leaves the queue alone as well.                             *)
LEMMA QueuedKeeps ==
    ASSUME DownloadTypeOK, ImageInv, UNCHANGED <<dl, flash, out, nvs, spoiled, work>>
    PROVE  TQueue' /\ ImageInv'
  <1>1. TQueue'
    BY TypeParts DEF TQueue
  <1>2. Streams'
    BY DEF ImageInv, Streams, Active
  <1> QED BY <1>1, <1>2, OthersKeep

-----------------------------------------------------------------------------
(* One lemma per action.                                                   *)

(* A new request: the last result is no longer reported.                   *)
LEMMA AskStartStep ==
    ASSUME DownloadTypeOK, ImageInv, NEW i \in Images, AskStart(i)
    PROVE  DownloadTypeOK' /\ ImageInv'
  <1> USE TypeParts
  <1> DEFINE e == [task |-> "start", image |-> i, block |-> 0]
  <1>1. e \in WorkTasks /\ e.task = "start"
    BY DEF WorkTasks
  <1>2. /\ ~Active /\ Fits /\ \A k \in 1..Len(work) : work[k].task # "start"
        /\ work' = Append(work, e) /\ UNCHANGED dl
    BY DEF AskStart, TQueue
  <1> HIDE DEF e
  <1>3. TQueue' /\ Streams'
    BY <1>1, <1>2, StreamsAppend DEF ImageInv
  <1>4. TOut' /\ out'.result # "SUCCEEDED"
    BY DEF AskStart, Quiet, TOut
  <1>5. TCount'
    BY BoundsAssumption DEF TCount, AskStart
  <1>6. TDl' /\ TSub' /\ TNet' /\ TNvs' /\ TFlash' /\ THist'
    BY DEF AskStart, TDl, TSub, TNet, TNvs, TFlash, THist
  <1>7. Partition' /\ Tracker' /\ Reported'
    BY <1>4 DEF AskStart, ImageInv, Partition, Tracker, TrackerTrue, Reported, Active
  <1> QED BY <1>3, <1>4, <1>5, <1>6, <1>7, TypePartsNext DEF ImageInv

(* resume_attempt leaves a tracker.                                        *)
LEMMA KeptType ==
    ASSUME TNvs, NEW i
    PROVE  Kept(i) \in [image : Md5 \cup {None}, todo : SUBSET Blocks]
  BY Zenon DEF TNvs, Kept, NoTracker

(* A start finds the queue free of blocks of an earlier download.          *)
LEMMA StartStep ==
    ASSUME DownloadTypeOK, ImageInv, Start
    PROVE  DownloadTypeOK' /\ ImageInv'
  <1> USE TypeParts
  <1> DEFINE i == Head1.image
  <1>1. work # <<>> /\ Head1.task = "start" /\ work' = Tail(work)
    BY DEF Start, Take
  <1>2. i \in Images
    BY <1>1, QueueTail DEF TQueue, Head1, WorkTasks
  <1>3. TQueue' /\ ~Active /\ \A k \in 1..Len(work') : work'[k].task \notin {"start", "chunk"}
    BY <1>1, StreamsTail DEF ImageInv
  <1>4. out.result # "SUCCEEDED"
    BY <1>1, QueueTail DEF ImageInv, Reported, TQueue, Head1
  <1>5. Streams'
    BY <1>3 DEF Streams
  <1>6. nvs' \in {nvs, Kept(i)} /\ UNCHANGED <<flash, spoiled>>
    BY DEF Start
  <1>7. starts' \in 0..MaxStarts /\ TFlash' /\ spoiled' \subseteq Md5 /\ online' \in BOOLEAN
    BY DEF Start, TFlash, THist, TCount
  <1>8. TNvs' /\ TrackerTrue'
    <2>1. Kept(i) = nvs \/ Kept(i) = NoTracker
      BY Zenon DEF Kept
    <2>2. TNvs'
      BY <1>6, KeptType DEF TNvs
    <2>3. CASE nvs' = nvs
      BY <1>6, <2>2, <2>3 DEF ImageInv, Tracker, TrackerTrue
    <2>4. CASE nvs' = NoTracker
      BY <2>2, <2>4 DEF TrackerTrue, NoTracker
    <2> QED BY <1>6, <2>1, <2>2, <2>3, <2>4
  <1> HIDE DEF i
  <1>9. ASSUME NEW timed \in BOOLEAN, Published(Fresh(i), timed), starved' = ~timed,
               Faults(Cost(timed) + Cost(nvs' = Kept(i))),
               sub' = "asked", UNCHANGED <<late, subRetry, out>>
        PROVE  DownloadTypeOK' /\ ImageInv'
    <2>1. /\ Fresh(i) \in Downloads /\ Fresh(i).image = i /\ Fresh(i).open = FALSE
          /\ Fresh(i).resume => nvs.image = i /\ Fresh(i).todo = nvs.todo /\ Kept(i) = nvs
          /\ ~Fresh(i).resume => Fresh(i).todo = Blocks
      BY <1>2, FreshType
    <2>2. /\ TNet' /\ TDl' /\ dl'.image = Fresh(i).image /\ dl'.todo = Fresh(i).todo
          /\ dl'.open = Fresh(i).open /\ dl'.resume = Fresh(i).resume
      BY <1>2, <1>9, <2>1, PublishedOutcome
    <2>3. faults' \in 0..MaxFaults
      <3>1. (nvs' = Kept(i)) \in BOOLEAN
        OBVIOUS
      <3>2. \A b, c \in BOOLEAN : Cost(b) + Cost(c) \in Nat
        BY DEF Cost
      <3> QED BY <1>9, <3>1, <3>2, FaultsType
    <2>4. TSub' /\ TOut' /\ TCount' /\ THist'
      BY <1>7, <1>9, <2>3 DEF TSub, TOut, TCount, THist
    <2>5. Active'
      BY <1>2, <2>1, <2>2, ImagesAssumption DEF Active
    <2>6. Partition' /\ Reported'
      BY <1>4, <1>9, <2>1, <2>2, <2>5 DEF Partition, Reported
    <2>7. Tracker'
      BY <1>6, <1>8, <2>1, <2>2, <2>5 DEF Tracker
    <2> QED BY <1>3, <1>5, <1>7, <1>8, <2>2, <2>4, <2>6, <2>7, TypePartsNext DEF ImageInv
  <1>10. CASE /\ Cleanup
              /\ out' = [image |-> i, result |-> "FAILED"]
              /\ Faults(Cost(~online))
              /\ UNCHANGED <<net, starved>>
    <2>1. dl' = Inactive /\ TDl' /\ TSub'
      BY <1>10, CleanupType
    <2>2. TOut' /\ out'.result # "SUCCEEDED"
      BY <1>2, <1>10 DEF TOut
    <2>3. Cost(~online) \in Nat
      BY DEF Cost
    <2>4. TCount' /\ TNet' /\ THist'
      BY <1>7, <1>10, <2>3, FaultsType DEF TCount, TNet, THist
    <2>5. Partition' /\ Tracker' /\ Reported'
      BY <1>8, <2>1, <2>2, InactiveFields DEF Partition, Tracker, Reported, Active
    <2> QED BY <1>3, <1>5, <1>7, <1>8, <2>1, <2>2, <2>4, <2>5, TypePartsNext DEF ImageInv
  <1>11. \/ \E timed \in BOOLEAN :
               /\ Published(Fresh(i), timed) /\ starved' = ~timed
               /\ Faults(Cost(timed) + Cost(nvs' = Kept(i)))
               /\ sub' = "asked" /\ UNCHANGED <<late, subRetry, out>>
         \/ /\ Cleanup
            /\ out' = [image |-> i, result |-> "FAILED"]
            /\ Faults(Cost(~online))
            /\ UNCHANGED <<net, starved>>
    BY Zenon DEF Start, i
  <1> QED BY <1>9, <1>10, <1>11

(* A block is queued only for the download it belongs to.                  *)
LEMMA ReceiveStep ==
    ASSUME DownloadTypeOK, ImageInv, NEW m \in net, Receive(m)
    PROVE  DownloadTypeOK' /\ ImageInv'
  <1> USE TypeParts
  <1> DEFINE e == [task |-> "chunk", image |-> m.image, block |-> m.block]
  <1>1. e \in WorkTasks /\ e.task = "chunk" /\ e.image = m.image
    BY DEF TNet, Data, WorkTasks
  <1>2. UNCHANGED <<dl, flash, out, nvs, spoiled>>
    BY DEF Receive
  <1>3. \/ Active /\ m.image = dl.image /\ Fits /\ work' = Append(work, e)
        \/ UNCHANGED work
    BY DEF Receive
  <1> HIDE DEF e
  <1>4. TQueue' /\ ImageInv'
    <2>1. CASE Active /\ m.image = dl.image /\ Fits /\ work' = Append(work, e)
      <3>1. /\ TQueue' /\ Streams'
            /\ (\A k \in 1..Len(work) : work[k].task # "start") =>
                 \A k \in 1..Len(work') : work'[k].task # "start"
        BY <1>1, <1>2, <2>1, StreamsAppend DEF ImageInv
      <3> QED BY <1>2, <3>1, OthersKeep
    <2>2. CASE UNCHANGED work
      BY <1>2, <2>2, QueuedKeeps
    <2> QED BY <1>3, <2>1, <2>2
  <1>5. TNet'
    BY DEF Receive, TNet
  <1>6. TCount'
    BY BoundsAssumption, FaultsType DEF Receive, TCount, Fault
  <1>7. TDl' /\ TSub' /\ TNvs' /\ TFlash' /\ TOut' /\ THist'
    BY DEF Receive, TDl, TSub, TNvs, TFlash, TOut, THist
  <1> QED BY <1>4, <1>5, <1>6, <1>7, TypePartsNext

(* The partition once the image was begun or reopened, and the trackers    *)
(* that no longer speak of it.                                             *)
LEMMA OpenedBlocks ==
    ASSUME DownloadTypeOK, ImageInv, Active, NEW resumed \in BOOLEAN, resumed => dl.resume
    PROVE  /\ Opened(resumed) \in [Blocks -> Images \cup {None}]
           /\ Spoiled(resumed) \subseteq Md5 /\ spoiled \subseteq Spoiled(resumed)
           /\ dl.image \notin Spoiled(resumed) =>
                 \A b \in Blocks \ dl.todo : Opened(resumed)[b] = dl.image
           /\ nvs.image \in {None, dl.image} \cup Spoiled(resumed)
           /\ \/ nvs.image = None \/ nvs.image \in Spoiled(resumed)
              \/ \A b \in Blocks \ nvs.todo : Opened(resumed)[b] = nvs.image
  <1> USE TypeParts
  <1>1. CASE dl.open \/ resumed
    <2>1. Opened(resumed) = flash /\ Spoiled(resumed) = spoiled
      BY <1>1 DEF Opened, Spoiled
    <2>2. nvs.image \in {None, dl.image} \cup spoiled
      BY <1>1 DEF ImageInv, Tracker
    <2>3. dl.image \notin spoiled => \A b \in Blocks \ dl.todo : flash[b] = dl.image
      <3>1. CASE dl.open
        BY <3>1 DEF ImageInv, Partition
      <3>2. CASE ~dl.open
        <4>1. nvs.image = dl.image /\ nvs.todo = dl.todo
          BY <1>1, <3>2 DEF ImageInv, Tracker
        <4>2. dl.image # None
          BY DEF Active
        <4> QED BY <4>1, <4>2 DEF ImageInv, Tracker, TrackerTrue
      <3> QED BY <3>1, <3>2
    <2> QED BY <2>1, <2>2, <2>3 DEF TFlash, THist, ImageInv, Tracker, TrackerTrue
  <1>2. CASE ~dl.open /\ ~resumed
    <2>1. /\ Opened(resumed) = [b \in Blocks |-> None]
          /\ Spoiled(resumed) = spoiled \cup ({nvs.image} \ {None})
      BY <1>2 DEF Opened, Spoiled
    <2>2. nvs.image \in Md5 \cup {None}
      BY DEF TNvs
    <2>3. dl.image \notin Spoiled(resumed) => dl.todo = Blocks
      <3>1. dl.resume => dl.image = nvs.image /\ dl.image # None
        BY DEF ImageInv, Tracker, Active
      <3> QED BY <1>2, <2>1, <3>1 DEF ImageInv, Partition
    <2> QED BY <2>1, <2>2, <2>3 DEF THist
  <1> QED BY <1>1, <1>2

(* The same once the block at the head of the queue was written as well.   *)
LEMMA WrittenBlock ==
    ASSUME DownloadTypeOK, ImageInv, work # <<>>, Head1.task = "chunk", Head1.block \in dl.todo,
           NEW resumed \in BOOLEAN, resumed => dl.resume
    PROVE  /\ Active /\ dl.image \in Images /\ Head1.block \in Blocks /\ Head1.image = dl.image
           /\ Written(Opened(resumed)) \in [Blocks -> Images \cup {None}]
           /\ dl.image \notin Spoiled(resumed) =>
                 \A b \in Blocks \ (dl.todo \ {Head1.block}) :
                     Written(Opened(resumed))[b] = dl.image
           /\ \/ nvs.image = None \/ nvs.image \in Spoiled(resumed)
              \/ \A b \in Blocks \ nvs.todo : Written(Opened(resumed))[b] = nvs.image
  <1> USE TypeParts
  <1>1. Active
    BY DEF ImageInv, Partition
  <1>2. dl.image \in Images
    BY <1>1 DEF TDl, Downloads, Active
  <1>3. Head1.block \in Blocks
    BY DEF TDl, Downloads
  <1>4. Head1.image = dl.image
    BY <1>1, QueueTail DEF ImageInv, Streams, TQueue, Head1
  <1> DEFINE f == Opened(resumed)
             sp == Spoiled(resumed)
             w == Written(f)
  <1>5. /\ f \in [Blocks -> Images \cup {None}]
        /\ dl.image \notin sp => \A b \in Blocks \ dl.todo : f[b] = dl.image
        /\ nvs.image \in {None, dl.image} \cup sp
        /\ nvs.image = None \/ nvs.image \in sp \/ \A b \in Blocks \ nvs.todo : f[b] = nvs.image
    BY <1>1, OpenedBlocks
  <1> HIDE DEF f, sp
  <1>6. /\ w \in [Blocks -> Images \cup {None}]
        /\ \A b \in Blocks : w[b] = IF b = Head1.block THEN dl.image ELSE f[b]
    BY <1>2, <1>3, <1>4, <1>5 DEF Written
  <1> HIDE DEF w
  <1>7. dl.image \notin sp => \A b \in Blocks \ (dl.todo \ {Head1.block}) : w[b] = dl.image
    BY <1>5, <1>6
  <1>8. nvs.image = None \/ nvs.image \in sp \/ \A b \in Blocks \ nvs.todo : w[b] = nvs.image
    BY <1>5, <1>6
  <1> QED BY <1>1, <1>2, <1>3, <1>4, <1>6, <1>7, <1>8 DEF w, f, sp

(* A block is written and counted.                                         *)
LEMMA ChunkWritten ==
    ASSUME DownloadTypeOK, ImageInv, Take("chunk"), UNCHANGED <<online, starts>>,
           Head1.block \in dl.todo, NEW resumed \in BOOLEAN, resumed => dl.resume, NEW n \in Nat,
           flash' = Written(Opened(resumed)), spoiled' = Spoiled(resumed),
           Success([dl EXCEPT !.open = TRUE, !.todo = @ \ {Head1.block}], flash', n)
    PROVE  DownloadTypeOK' /\ ImageInv'
  <1> USE TypeParts
  <1> DEFINE td == dl.todo \ {Head1.block}
             d == [dl EXCEPT !.open = TRUE, !.todo = td]
  <1>1. work # <<>> /\ Head1.task = "chunk" /\ work' = Tail(work)
    BY DEF Take
  <1>2. /\ Active /\ dl.image \in Images
        /\ TFlash' /\ spoiled' \subseteq Md5
        /\ dl.image \notin spoiled' => \A b \in Blocks \ td : flash'[b] = dl.image
        /\ nvs.image \in {None, dl.image} \cup spoiled'
        /\ \/ nvs.image = None \/ nvs.image \in spoiled'
           \/ \A b \in Blocks \ nvs.todo : flash'[b] = nvs.image
    BY <1>1, WrittenBlock, OpenedBlocks DEF TFlash
  <1>3. d \in Downloads /\ d.image = dl.image /\ d.todo = td /\ d.open = TRUE /\ d.resume = dl.resume
    <2>1. td \in SUBSET Blocks
      BY DEF TDl, Downloads
    <2> HIDE DEF td
    <2> QED BY <2>1 DEF TDl, Downloads
  <1>4. Success(d, flash', n)
    OBVIOUS
  <1> HIDE DEF td, d
  <1>5. /\ TDl' /\ TSub' /\ TNet' /\ TNvs' /\ TOut'
        /\ faults' \in 0..MaxFaults /\ starved' \in BOOLEAN
        /\ \/ GoesOn(d) /\ Saved(d)
           \/ /\ dl' = Inactive
              /\ Saved(d) \/ nvs' = NoTracker
              /\ out'.result = "SUCCEEDED" =>
                     out'.image = d.image /\ d.todo = {} /\ Passes(d.image, flash')
    <2> DEFINE f == flash'
    <2>1. Success(d, f, n)
      BY <1>4
    <2> HIDE DEF f
    <2>2. /\ TDl' /\ TSub' /\ TNet' /\ TNvs' /\ TOut'
          /\ faults' \in 0..MaxFaults /\ starved' \in BOOLEAN
          /\ \/ GoesOn(d) /\ Saved(d)
             \/ /\ dl' = Inactive
                /\ Saved(d) \/ nvs' = NoTracker
                /\ out'.result = "SUCCEEDED" =>
                       out'.image = d.image /\ d.todo = {} /\ Passes(d.image, f)
      BY <1>2, <1>3, <2>1, SuccessOutcome
    <2> QED BY <2>2 DEF f
  <1>6. TrackerTrue'
    <2>1. CASE nvs' = nvs
      BY <1>2, <2>1 DEF TrackerTrue
    <2>2. CASE nvs' = [image |-> d.image, todo |-> d.todo]
      BY <1>2, <1>3, <2>2 DEF TrackerTrue
    <2>3. CASE nvs' = NoTracker
      BY <2>3 DEF TrackerTrue, NoTracker
    <2> QED BY <1>5, <2>1, <2>2, <2>3 DEF Saved
  <1>7. TCount' /\ THist'
    BY <1>2, <1>5 DEF TCount, THist
  <1>8. TQueue'
    BY <1>1, StreamsTail DEF ImageInv
  <1>9. out.result # "SUCCEEDED"
    BY <1>2 DEF ImageInv, Reported
  <1>10. CASE GoesOn(d) /\ Saved(d)
    <2>1. /\ Active' /\ dl'.image = dl.image /\ dl'.todo = td /\ dl'.open = TRUE /\ out' = out
          /\ dl'.resume = dl.resume
      BY <1>2, <1>3, <1>10, ImagesAssumption DEF Active, GoesOn
    <2>2. Streams'
      BY <1>1, <1>2, <2>1, StreamsTail DEF ImageInv, Streams
    <2>3. Partition' /\ Reported'
      BY <1>2, <1>9, <2>1 DEF Partition, Reported
    <2>4. nvs' = nvs \/ nvs'.image = dl.image
      BY <1>3, <1>10 DEF Saved
    <2>5. dl.resume => nvs'.image = dl.image
      BY <1>2, <2>4 DEF ImageInv, Tracker
    <2>6. nvs'.image \in {None, dl.image} \cup spoiled'
      BY <1>2, <2>4
    <2>7. Tracker'
      BY <1>6, <2>1, <2>5, <2>6 DEF Tracker
    <2> QED BY <1>2, <1>5, <1>7, <1>8, <2>2, <2>3, <2>7, TypePartsNext DEF ImageInv
  <1>11. CASE /\ dl' = Inactive
              /\ out'.result = "SUCCEEDED" =>
                     out'.image = d.image /\ d.todo = {} /\ Passes(d.image, flash')
    <2>1. ~Active' /\ dl'.todo = {}
      BY <1>11, InactiveFields DEF Active
    <2>2. Streams'
      BY <1>1, <2>1, StreamsTail DEF ImageInv, Streams
    <2>3. \A k \in 1..Len(work') : work'[k].task # "start"
      BY <1>1, <1>2, StreamsTail DEF ImageInv
    <2>4. ASSUME out'.result = "SUCCEEDED", out'.image \in Hashed \/ out'.image \notin spoiled'
          PROVE  \A b \in Blocks : flash'[b] = out'.image
      <3>1. out'.image = dl.image /\ td = {} /\ Passes(dl.image, flash')
        BY <1>3, <1>11, <2>4
      <3>2. CASE dl.image \in Md5 \cap Hashed
        BY <3>1, <3>2 DEF Passes
      <3>3. CASE dl.image \notin Md5 \cap Hashed
        BY <1>2, <2>4, <3>1, <3>3
      <3> QED BY <3>2, <3>3
    <2>5. Partition' /\ Tracker' /\ Reported'
      BY <1>6, <2>1, <2>3, <2>4 DEF Partition, Tracker, Reported
    <2> QED BY <1>2, <1>5, <1>7, <1>8, <2>2, <2>5, TypePartsNext DEF ImageInv
  <1> QED BY <1>5, <1>10, <1>11

(* The image was begun or reopened, but the block not written.             *)
LEMMA ChunkNotWritten ==
    ASSUME DownloadTypeOK, ImageInv, Take("chunk"), UNCHANGED <<online, starts>>,
           Head1.block \in dl.todo, NEW resumed \in BOOLEAN, resumed => dl.resume, NEW n \in Nat,
           flash' = Opened(resumed), spoiled' = Spoiled(resumed),
           NEW opened \in {dl.open, TRUE},
           Failure([dl EXCEPT !.open = opened], nvs, flash', n)
    PROVE  DownloadTypeOK' /\ ImageInv'
  <1> USE TypeParts
  <1> DEFINE d == [dl EXCEPT !.open = opened]
  <1>1. work # <<>> /\ Head1.task = "chunk" /\ work' = Tail(work)
    BY DEF Take
  <1>2. /\ Active /\ dl.image \in Images
        /\ TFlash' /\ spoiled' \subseteq Md5 /\ spoiled \subseteq spoiled'
        /\ dl.image \notin spoiled' => \A b \in Blocks \ dl.todo : flash'[b] = dl.image
        /\ nvs.image \in {None, dl.image} \cup spoiled'
        /\ \/ nvs.image = None \/ nvs.image \in spoiled'
           \/ \A b \in Blocks \ nvs.todo : flash'[b] = nvs.image
    BY <1>1, WrittenBlock, OpenedBlocks DEF TFlash
  <1>3. /\ d \in Downloads /\ d.image = dl.image /\ d.todo = dl.todo /\ d.open = opened
        /\ d.resume = dl.resume /\ (opened = FALSE => dl.open = FALSE)
    BY DEF TDl, Downloads
  <1>4. Failure(d, nvs, flash', n)
    OBVIOUS
  <1> HIDE DEF d
  <1>5. /\ TDl' /\ TSub' /\ TNet' /\ TNvs' /\ TOut'
        /\ faults' \in 0..MaxFaults /\ starved' \in BOOLEAN /\ nvs' = nvs
        /\ GoesOn(d) \/ (dl' = Inactive /\ out'.result # "SUCCEEDED")
    <2> DEFINE f == flash'
    <2>1. Failure(d, nvs, f, n)
      BY <1>4
    <2>2. nvs \in [image : Md5 \cup {None}, todo : SUBSET Blocks]
      BY DEF TNvs
    <2> HIDE DEF f
    <2> QED BY <1>2, <1>3, <2>1, <2>2, FailureOutcome
  <1>6. TrackerTrue'
    BY <1>2, <1>5 DEF TrackerTrue
  <1>7. TCount' /\ THist'
    BY <1>2, <1>5 DEF TCount, THist
  <1>8. TQueue'
    BY <1>1, StreamsTail DEF ImageInv
  <1>9. out.result # "SUCCEEDED"
    BY <1>2 DEF ImageInv, Reported
  <1>10. CASE GoesOn(d)
    <2>1. /\ Active' /\ dl'.image = dl.image /\ dl'.todo = dl.todo /\ dl'.open = opened
          /\ out' = out /\ dl'.resume = dl.resume
      BY <1>2, <1>3, <1>10, ImagesAssumption DEF Active, GoesOn
    <2>2. Streams'
      BY <1>1, <1>2, <2>1, StreamsTail DEF ImageInv, Streams
    <2>3. Partition' /\ Reported'
      BY <1>2, <1>3, <1>9, <2>1 DEF ImageInv, Partition, Reported
    <2>4. Tracker'
      BY <1>2, <1>3, <1>5, <1>6, <2>1 DEF ImageInv, Tracker
    <2> QED BY <1>2, <1>5, <1>7, <1>8, <2>2, <2>3, <2>4, TypePartsNext DEF ImageInv
  <1>11. CASE dl' = Inactive /\ out'.result # "SUCCEEDED"
    <2>1. ~Active' /\ dl'.todo = {}
      BY <1>11, InactiveFields DEF Active
    <2>2. Streams'
      BY <1>1, <2>1, StreamsTail DEF ImageInv, Streams
    <2>3. Partition' /\ Tracker' /\ Reported'
      BY <1>6, <1>11, <2>1 DEF Partition, Tracker, Reported
    <2> QED BY <1>2, <1>5, <1>7, <1>8, <2>2, <2>3, TypePartsNext DEF ImageInv
  <1> QED BY <1>5, <1>10, <1>11

(* The failure handling of a block or of a timeout task.                   *)
LEMMA FailureStep ==
    ASSUME DownloadTypeOK, ImageInv, Active, work # <<>>, work' = Tail(work), NEW n \in Nat,
           Failure(dl, nvs, flash, n), UNCHANGED <<online, flash, starts, spoiled>>
    PROVE  DownloadTypeOK' /\ ImageInv'
  <1> USE TypeParts
  <1>1. dl \in Downloads /\ dl.image \in Images
    BY DEF TDl, Downloads, Active
  <1>2. nvs \in [image : Md5 \cup {None}, todo : SUBSET Blocks]
    BY DEF TNvs
  <1>3. /\ TDl' /\ TSub' /\ TNet' /\ TNvs' /\ TOut'
        /\ faults' \in 0..MaxFaults /\ starved' \in BOOLEAN /\ nvs' = nvs
        /\ GoesOn(dl) \/ (dl' = Inactive /\ out'.result # "SUCCEEDED")
    BY <1>1, <1>2, FailureOutcome
  <1>4. TQueue' /\ ImageInv'
    BY <1>3, WorkerKeeps
  <1>5. TFlash' /\ TCount' /\ THist'
    BY <1>3 DEF TFlash, TCount, THist
  <1> QED BY <1>3, <1>4, <1>5, TypePartsNext

(* The task that writes a block, with its early returns.                   *)
LEMMA ChunkStep ==
    ASSUME DownloadTypeOK, ImageInv, Chunk
    PROVE  DownloadTypeOK' /\ ImageInv'
  <1> USE TypeParts
  <1>1. work # <<>> /\ work' = Tail(work) /\ Take("chunk") /\ UNCHANGED <<online, starts>>
    BY DEF Chunk, Take
  <1>2. CASE UNCHANGED <<dl, subRetry, late, sub, net, nvs, flash, out, faults, spoiled, starved>>
    <2>1. GoesOn(dl)
      BY <1>2 DEF GoesOn
    <2>2. TQueue' /\ ImageInv'
      BY <1>1, <1>2, <2>1, WorkerKeeps
    <2>3. TDl' /\ TSub' /\ TNet' /\ TNvs' /\ TFlash' /\ TOut' /\ TCount' /\ THist'
      BY <1>1, <1>2 DEF TDl, TSub, TNet, TNvs, TFlash, TOut, TCount, THist
    <2> QED BY <2>2, <2>3, TypePartsNext
  <1>3. CASE Active /\ Failure(dl, nvs, flash, 1) /\ UNCHANGED <<flash, spoiled>>
    BY <1>1, <1>3, FailureStep
  <1> DEFINE n(resumed) == IF dl.open THEN 0 ELSE Cost(resumed = Reopens)
  <1>4. ASSUME NEW resumed \in {Reopens, FALSE}
        PROVE  /\ resumed \in BOOLEAN /\ (resumed => dl.resume)
               /\ n(resumed) \in Nat /\ n(resumed) + 1 \in Nat
    <2>1. Reopens \in BOOLEAN /\ (Reopens => dl.resume)
      BY Zenon DEF Reopens
    <2>2. resumed \in BOOLEAN /\ (resumed => dl.resume)
      <3>1. CASE resumed = Reopens
        <4> DEFINE r == Reopens
        <4>1. r \in BOOLEAN /\ (r => dl.resume) /\ resumed = r
          BY <2>1, <3>1
        <4> HIDE DEF r
        <4> QED BY <4>1
      <3>2. CASE resumed = FALSE
        BY <3>2
      <3> QED BY <3>1, <3>2
    <2>3. n(resumed) \in {0, 1}
      BY DEF Cost
    <2> HIDE DEF n
    <2> QED BY <2>2, <2>3
  <1>5. ASSUME Head1.block \in dl.todo, NEW resumed \in {Reopens, FALSE},
               flash' = Written(Opened(resumed)), spoiled' = Spoiled(resumed),
               Success([dl EXCEPT !.open = TRUE, !.todo = @ \ {Head1.block}], flash', n(resumed))
        PROVE  DownloadTypeOK' /\ ImageInv'
    <2> HIDE DEF n
    <2> QED BY <1>1, <1>4, <1>5, ChunkWritten
  <1>6. ASSUME Head1.block \in dl.todo, NEW resumed \in {Reopens, FALSE},
               flash' = Opened(resumed), spoiled' = Spoiled(resumed),
               NEW opened \in {dl.open, TRUE},
               Failure([dl EXCEPT !.open = opened], nvs, flash', n(resumed) + 1)
        PROVE  DownloadTypeOK' /\ ImageInv'
    <2> DEFINE m == n(resumed) + 1
    <2>1. m \in Nat /\ resumed \in BOOLEAN /\ (resumed => dl.resume)
      BY <1>4
    <2>2. Failure([dl EXCEPT !.open = opened], nvs, flash', m)
      BY <1>6
    <2> HIDE DEF n, m
    <2> QED BY <1>1, <1>6, <2>1, <2>2, ChunkNotWritten
  <1>7. \/ UNCHANGED <<dl, subRetry, late, sub, net, nvs, flash, out, faults, spoiled, starved>>
        \/ Active /\ Failure(dl, nvs, flash, 1) /\ UNCHANGED <<flash, spoiled>>
        \/ /\ Head1.block \in dl.todo
           /\ \E resumed \in {Reopens, FALSE} :
               /\ spoiled' = Spoiled(resumed)
               /\ \/ /\ flash' = Written(Opened(resumed))
                     /\ Success([dl EXCEPT !.open = TRUE, !.todo = @ \ {Head1.block}], flash',
                                n(resumed))
                  \/ /\ flash' = Opened(resumed)
                     /\ \E opened \in {dl.open, TRUE} :
                           Failure([dl EXCEPT !.open = opened], nvs, flash', n(resumed) + 1)
    BY Zenon DEF Chunk
  <1> HIDE DEF n
  <1> QED BY <1>2, <1>3, <1>5, <1>6, <1>7

(* The task of the request timeout.                                        *)
LEMMA FailStep ==
    ASSUME DownloadTypeOK, ImageInv, Fail
    PROVE  DownloadTypeOK' /\ ImageInv'
  <1> USE TypeParts
  <1>1. work # <<>> /\ work' = Tail(work) /\ UNCHANGED <<online, flash, starts, spoiled>>
    BY DEF Fail, Take
  <1>2. CASE Active /\ Failure(dl, nvs, flash, 0)
    BY <1>1, <1>2, FailureStep
  <1>3. CASE UNCHANGED <<dl, subRetry, late, sub, net, nvs, out, faults, starved>>
    <2>1. GoesOn(dl)
      BY <1>3 DEF GoesOn
    <2>2. TQueue' /\ ImageInv'
      BY <1>1, <1>3, <2>1, WorkerKeeps
    <2>3. TDl' /\ TSub' /\ TNet' /\ TNvs' /\ TFlash' /\ TOut' /\ TCount' /\ THist'
      BY <1>1, <1>3 DEF TDl, TSub, TNet, TNvs, TFlash, TOut, TCount, THist
    <2> QED BY <2>2, <2>3, TypePartsNext
  <1> QED BY <1>2, <1>3 DEF Fail

(* The request timeout changes only whether its timer is armed.            *)
LEMMA TimerStep ==
    ASSUME DownloadTypeOK, ImageInv, TimerFires \/ TimerQueues
    PROVE  DownloadTypeOK' /\ ImageInv'
  <1> USE TypeParts
  <1>1. /\ UNCHANGED <<online, sub, subRetry, net, nvs, flash, out, starts, spoiled>>
        /\ late' \in {"no", "yes"}
    BY DEF TimerFires, TimerQueues
  <1>2. TSub' /\ TNet' /\ TNvs' /\ TFlash' /\ TOut' /\ TCount' /\ THist'
    <2>1. starved' = starved \/ starved' = (starved \/ ~dl.armed)
      BY DEF TimerFires, TimerQueues
    <2>2. starved' \in BOOLEAN
      BY <2>1, Zenon DEF THist
    <2>3. faults' \in 0..MaxFaults
      BY BoundsAssumption, FaultsType DEF TimerFires, TimerQueues, Fault, TCount
    <2> QED BY <1>1, <2>2, <2>3 DEF TSub, TNet, TNvs, TFlash, TOut, TCount, THist
  <1>3. \/ UNCHANGED work /\ \E a \in BOOLEAN : dl' = [dl EXCEPT !.armed = a]
        \/ UNCHANGED <<work, dl>>
        \/ Fits /\ work' = Append(work, Task("fail")) /\ UNCHANGED dl
    <2>1. (dl.armed \/ Active) \in BOOLEAN
      BY Zenon
    <2> QED BY <2>1 DEF TimerFires, TimerQueues
  <1>4. CASE UNCHANGED work /\ \E a \in BOOLEAN : dl' = [dl EXCEPT !.armed = a]
    <2>1. /\ TDl' /\ dl'.image = dl.image /\ dl'.todo = dl.todo
          /\ dl'.open = dl.open /\ dl'.resume = dl.resume
      BY <1>4 DEF TDl, Downloads
    <2>2. TQueue' /\ (Active' <=> Active)
      BY <1>4, <2>1 DEF TQueue, Active
    <2>3. Streams'
      BY <1>4, <2>1, <2>2 DEF ImageInv, Streams
    <2>4. Partition' /\ Tracker' /\ Reported'
      BY <1>1, <1>4, <2>1, <2>2 DEF ImageInv, Partition, Tracker, TrackerTrue, Reported
    <2> QED BY <1>2, <2>1, <2>2, <2>3, <2>4, TypePartsNext DEF ImageInv
  <1>5. CASE UNCHANGED <<work, dl>>
    <2>1. TQueue' /\ ImageInv'
      BY <1>1, <1>5, QueuedKeeps
    <2>2. TDl'
      BY <1>5 DEF TDl
    <2> QED BY <1>2, <2>1, <2>2, TypePartsNext
  <1>6. CASE Fits /\ work' = Append(work, Task("fail")) /\ UNCHANGED dl
    <2>1. Task("fail") \in WorkTasks /\ Task("fail").task = "fail"
      BY DEF Task, WorkTasks
    <2>2. /\ TQueue' /\ Streams'
          /\ (\A k \in 1..Len(work) : work[k].task # "start") =>
                \A k \in 1..Len(work') : work'[k].task # "start"
      BY <1>6, <2>1, StreamsAppend DEF ImageInv
    <2>3. ImageInv' /\ TDl'
      BY <1>1, <1>6, <2>2, OthersKeep DEF TDl
    <2> QED BY <1>2, <2>2, <2>3, TypePartsNext
  <1> QED BY <1>3, <1>4, <1>5, <1>6

(* The connection, its events and the subscription's retry.                *)
LEMMA LinkStep ==
    ASSUME DownloadTypeOK, ImageInv, Disconnected \/ Connected \/ Suback \/ SubRetryFires
    PROVE  DownloadTypeOK' /\ ImageInv'
  <1> USE TypeParts
  <1>1. UNCHANGED <<dl, late, net, nvs, flash, out, starts, spoiled, starved>>
    BY DEF Disconnected, Connected, Suback, SubRetryFires
  <1>2. subRetry' \in BOOLEAN
    <2>1. Active \in BOOLEAN
      BY DEF Active
    <2> QED BY <2>1 DEF Disconnected, Connected, Suback, SubRetryFires, TSub, Resubscribes
  <1>3. TSub'
    BY <1>1, <1>2 DEF Disconnected, Connected, Suback, SubRetryFires, TSub
  <1>4. THist'
    BY <1>1 DEF Disconnected, Connected, Suback, SubRetryFires, THist
  <1>5. faults' \in 0..MaxFaults
    BY FaultsType DEF Disconnected, Connected, Suback, SubRetryFires, Fault, TCount
  <1>6. TDl' /\ TNet' /\ TNvs' /\ TFlash' /\ TOut' /\ TCount'
    BY <1>1, <1>5 DEF TDl, TNet, TNvs, TFlash, TOut, TCount
  <1>7. UNCHANGED work \/ (Fits /\ work' = Append(work, Task("sub")))
    BY DEF Disconnected, Connected, Suback, SubRetryFires
  <1>8. TQueue' /\ ImageInv'
    <2>1. CASE UNCHANGED work
      BY <1>1, <2>1, QueuedKeeps
    <2>2. CASE Fits /\ work' = Append(work, Task("sub"))
      <3>1. Task("sub") \in WorkTasks /\ Task("sub").task = "sub"
        BY DEF Task, WorkTasks
      <3>2. /\ TQueue' /\ Streams'
            /\ (\A k \in 1..Len(work) : work[k].task # "start") =>
                  \A k \in 1..Len(work') : work'[k].task # "start"
        BY <1>1, <2>2, <3>1, StreamsAppend DEF ImageInv
      <3> QED BY <1>1, <3>2, OthersKeep
    <2> QED BY <1>7, <2>1, <2>2
  <1> QED BY <1>3, <1>4, <1>6, <1>8, TypePartsNext

(* The subscription is asked for again.                                    *)
LEMMA SubRetryWorkStep ==
    ASSUME DownloadTypeOK, ImageInv, SubRetryWork
    PROVE  DownloadTypeOK' /\ ImageInv'
  <1> USE TypeParts
  <1>1. /\ UNCHANGED <<dl, late, online, net, nvs, flash, out, starts, spoiled, starved>>
        /\ work # <<>> /\ work' = Tail(work)
    BY DEF SubRetryWork, Take
  <1>2. TSub'
    BY <1>1 DEF SubRetryWork, TSub
  <1>3. faults' \in 0..MaxFaults
    BY FaultsType DEF SubRetryWork, Fault, TCount
  <1>4. TDl' /\ TNet' /\ TNvs' /\ TFlash' /\ TOut' /\ TCount' /\ THist'
    BY <1>1, <1>3 DEF TDl, TNet, TNvs, TFlash, TOut, TCount, THist
  <1>5. GoesOn(dl)
    BY <1>1 DEF GoesOn
  <1>6. TQueue' /\ ImageInv'
    BY <1>1, <1>5, WorkerKeeps
  <1> QED BY <1>2, <1>4, <1>6, TypePartsNext

(* After a loss of power no download runs and nothing is reported.         *)
LEMMA PowerLossStep ==
    ASSUME DownloadTypeOK, ImageInv, PowerLoss \/ PowerLossInChunk
    PROVE  DownloadTypeOK' /\ ImageInv'
  <1> USE TypeParts
  <1>1. Restarted
    BY DEF PowerLoss, PowerLossInChunk
  <1>2. TFlash' /\ spoiled' \subseteq Md5 /\ TrackerTrue'
    <2>1. nvs' = nvs
      BY <1>1 DEF Restarted
    <2>2. CASE PowerLoss
      BY <2>1, <2>2 DEF PowerLoss, TFlash, THist, ImageInv, Tracker, TrackerTrue
    <2>3. CASE PowerLossInChunk
      <3>1. Reopens \in BOOLEAN /\ (Reopens => dl.resume)
        BY Zenon DEF Reopens
      <3> DEFINE r == Reopens
                 f == Opened(r)
                 w == Written(f)
      <3>2. /\ work # <<>> /\ Head1.task = "chunk" /\ Head1.block \in dl.todo
            /\ flash' \in {f, w} /\ spoiled' = Spoiled(r)
        BY <2>3 DEF PowerLossInChunk
      <3>3. r \in BOOLEAN /\ (r => dl.resume)
        BY <3>1
      <3> HIDE DEF r
      <3>4. /\ Active
            /\ w \in [Blocks -> Images \cup {None}]
            /\ \/ nvs.image = None \/ nvs.image \in Spoiled(r)
               \/ \A b \in Blocks \ nvs.todo : w[b] = nvs.image
        BY <3>2, <3>3, WrittenBlock
      <3>5. /\ f \in [Blocks -> Images \cup {None}] /\ Spoiled(r) \subseteq Md5
            /\ \/ nvs.image = None \/ nvs.image \in Spoiled(r)
               \/ \A b \in Blocks \ nvs.todo : f[b] = nvs.image
        BY <3>3, <3>4, OpenedBlocks
      <3> HIDE DEF f, w
      <3> QED BY <2>1, <3>2, <3>4, <3>5 DEF TFlash, TrackerTrue
    <2> QED BY <2>2, <2>3
  <1>3. TDl' /\ ~Active' /\ dl'.todo = {}
    BY <1>1, InactiveType, InactiveFields DEF Restarted, TDl, Active
  <1>4. TQueue' /\ Len(work') = 0
    BY <1>1, BoundsAssumption DEF Restarted, TQueue
  <1>5. faults' \in 0..MaxFaults
    BY <1>1, BoundsAssumption, FaultsType DEF Restarted, Fault
  <1>6. TOut' /\ out'.result # "SUCCEEDED"
    BY <1>1 DEF Restarted, Quiet, TOut
  <1>7. TSub' /\ TNet' /\ TNvs' /\ TCount' /\ THist'
    BY <1>1, <1>2, <1>5 DEF Restarted, TSub, TNet, TNvs, TCount, THist
  <1>8. Streams' /\ Partition' /\ Tracker' /\ Reported'
    BY <1>2, <1>3, <1>4, <1>6 DEF Streams, Partition, Tracker, Reported
  <1> QED BY <1>2, <1>3, <1>4, <1>6, <1>7, <1>8, TypePartsNext DEF ImageInv

-----------------------------------------------------------------------------
(* Initially no download runs.                                             *)
LEMMA ImageInit ==
    ASSUME DownloadInit
    PROVE  DownloadTypeOK /\ ImageInv
  <1>1. TDl /\ ~Active /\ dl.todo = {}
    BY InactiveType, InactiveFields DEF DownloadInit, TDl, Active
  <1>2. TQueue /\ Len(work) = 0
    BY BoundsAssumption DEF DownloadInit, TQueue
  <1>3. TSub /\ TNet /\ TNvs /\ TFlash /\ TCount /\ THist
    <2>1. TSub /\ TNet /\ THist
      BY DEF DownloadInit, TSub, TNet, THist
    <2>2. TNvs
      BY DEF DownloadInit, TNvs, NoTracker
    <2>3. TFlash
      BY DEF DownloadInit, TFlash
    <2>4. TCount
      BY BoundsAssumption DEF DownloadInit, TCount
    <2> QED BY <2>1, <2>2, <2>3, <2>4
  <1>4. TOut /\ out.result # "SUCCEEDED"
    BY DEF DownloadInit, TOut, Quiet
  <1>5. TrackerTrue
    BY DEF DownloadInit, NoTracker, TrackerTrue
  <1>6. Streams /\ Partition /\ Tracker /\ Reported
    BY <1>1, <1>2, <1>4, <1>5 DEF Streams, Partition, Tracker, Reported
  <1> QED BY <1>1, <1>2, <1>3, <1>4, <1>6, TypeParts DEF ImageInv

(* Every step keeps the type and the inductive invariant.                  *)
LEMMA ImageStep ==
    ASSUME DownloadTypeOK, ImageInv, [DownloadNext]_downloadVars
    PROVE  DownloadTypeOK' /\ ImageInv'
  <1>1. CASE UNCHANGED downloadVars
    <2>1. TQueue' /\ ImageInv'
      BY <1>1, QueuedKeeps DEF downloadVars, ram
    <2>2. DownloadTypeOK'
      BY <1>1 DEF downloadVars, ram, DownloadTypeOK
    <2> QED BY <2>1, <2>2
  <1>2. CASE DownloadWorker
    BY <1>2, StartStep, ChunkStep, FailStep, SubRetryWorkStep DEF DownloadWorker
  <1>3. CASE TimerFires \/ TimerQueues
    BY <1>3, TimerStep
  <1>4. CASE \E i \in Images : AskStart(i)
    <2>1. PICK i \in Images : AskStart(i)
      BY <1>4
    <2> QED BY <2>1, AskStartStep
  <1>5. CASE \E m \in net : Receive(m)
    <2>1. PICK m \in net : Receive(m)
      BY <1>5
    <2> QED BY <2>1, ReceiveStep
  <1>6. CASE Disconnected \/ Connected \/ Suback \/ SubRetryFires
    BY <1>6, LinkStep
  <1>7. CASE PowerLoss \/ PowerLossInChunk
    BY <1>7, PowerLossStep
  <1> QED BY <1>1, <1>2, <1>3, <1>4, <1>5, <1>6, <1>7 DEF DownloadNext

(* A download that is reported as succeeded left the whole image in the    *)
(* partition (image_handler_end_and_cleanup): for every number of blocks,  *)
(* images, lost and repeated messages and losses of power.  A file type    *)
(* with get_md5_hash has it also when the job declares no MD5 and nothing  *)
(* is checked at the end; one without it has it unless the partition was   *)
(* erased under its own tracker.                                           *)
THEOREM WholeImageSafety == DownloadSpec => []WholeImage
  <1>1. DownloadInit => DownloadTypeOK /\ ImageInv
    BY ImageInit
  <1>2. DownloadTypeOK /\ ImageInv /\ [DownloadNext]_downloadVars => (DownloadTypeOK /\ ImageInv)'
    BY ImageStep
  <1>3. DownloadTypeOK /\ ImageInv => WholeImage
    BY DEF ImageInv, Reported, WholeImage
  <1> QED BY <1>1, <1>2, <1>3, PTL DEF DownloadSpec

(* What the tracker calls received is in the partition, also after a loss  *)
(* of power between the write of a block and that of the bitmap            *)
(* (resume_persist), unless the partition was erased under the tracker.    *)
THEOREM TrackerSafety == DownloadSpec => []TrackerTrue
  <1>1. DownloadInit => DownloadTypeOK /\ ImageInv
    BY ImageInit
  <1>2. DownloadTypeOK /\ ImageInv /\ [DownloadNext]_downloadVars => (DownloadTypeOK /\ ImageInv)'
    BY ImageStep
  <1>3. DownloadTypeOK /\ ImageInv => TrackerTrue
    BY DEF ImageInv, Tracker
  <1> QED BY <1>1, <1>2, <1>3, PTL DEF DownloadSpec

-----------------------------------------------------------------------------
(* The retry context.                                                      *)

USE HandlesAssumption, DelayAssumption

(* What the program counter says about the local variables.                *)
LocalsOK ==
    \A p \in Procs : /\ pc[p] \in {"put", "check", "undo", "cancel", "rcancel"} => held[p] # NULL
                     /\ seen[p] <= resetGen

(* A call that saw the last reset and has armed its timer is on record.    *)
ArmedIsRecorded ==
    \A p \in Procs : pc[p] \in {"put", "check"} /\ seen[p] = resetGen => calledSince

(* After a reset, and before a new call armed a timer, somebody is about   *)
(* to remove the timer the context holds.                                  *)
HandleDoomed ==
    handle # NULL /\ ~calledSince =>
        \E p \in Procs : \/ pc[p] = "rtake"
                         \/ pc[p] \in {"check", "undo"} /\ held[p] = handle /\ seen[p] # resetGen

BackoffInv == TypeOK /\ LocalsOK /\ OneOwner /\ ArmedIsRecorded /\ HandleDoomed

(* The initial state satisfies the invariant.                              *)
LEMMA RetryInit == Init => BackoffInv
  <1> SUFFICES ASSUME Init PROVE BackoffInv
    OBVIOUS
  <1>1. TypeOK /\ LocalsOK
    <2>1. pc \in [Procs -> Labels] /\ held \in [Procs -> Handles \cup {NULL}] /\ LocalsOK
      BY DEF Init, Labels, LocalsOK
    <2>2. seen \in [Procs -> 0..MaxResets] /\ current \in [Procs -> 0..MaxDelay]
      BY DEF Init
    <2>3. timers \in [Handles -> {"free", "armed", "fired"}]
      BY DEF Init
    <2>4. handle \in Handles \cup {NULL} /\ calledSince \in BOOLEAN /\ owed \in BOOLEAN
      BY DEF Init
    <2>5. resetGen \in 0..MaxResets /\ steps \in Nat
      BY DEF Init
    <2>6. delay \in BaseDelay..MaxDelay
      BY DEF Init
    <2> QED BY <2>1, <2>2, <2>3, <2>4, <2>5, <2>6 DEF TypeOK
  <1>2. OneOwner
    BY DEF Init, OneOwner, Live, Owns
  <1>3. ArmedIsRecorded /\ HandleDoomed
    BY DEF Init, ArmedIsRecorded, HandleDoomed
  <1> QED BY <1>1, <1>2, <1>3 DEF BackoffInv

(* The next delay stays between the base and the maximum.                  *)
LEMMA DelayRange ==
    ASSUME NEW d \in BaseDelay..MaxDelay
    PROVE  NextDelay(d) \in BaseDelay..MaxDelay
  <1>1. d * ExpFactor \in Nat /\ d * ExpFactor >= d
    OBVIOUS
  <1> QED BY <1>1 DEF NextDelay, Capped

(* Every step keeps the variables in their types.                          *)
LEMMA TypeNext == TypeOK /\ LocalsOK /\ [Next]_vars => (TypeOK' /\ LocalsOK')
  <1> SUFFICES ASSUME TypeOK /\ LocalsOK, [Next]_vars PROVE (TypeOK' /\ LocalsOK')
    OBVIOUS
  <1> USE DEF Goto, Hold, Done, vars, ctxVars, localVars, history
  <1>1. ASSUME NEW p \in Procs, RetryLoad(p) PROVE (TypeOK' /\ LocalsOK')
    BY <1>1 DEF RetryLoad, TypeOK, LocalsOK, Labels
  <1>2. ASSUME NEW p \in Procs, RetryCas(p) PROVE (TypeOK' /\ LocalsOK')
    <2>1. delay' \in BaseDelay..MaxDelay
      BY <1>2, DelayRange DEF RetryCas, TypeOK
    <2>2. current' \in [Procs -> 0..MaxDelay] /\ steps' \in Nat
      BY <1>2 DEF RetryCas, TypeOK
    <2>3. pc' \in [Procs -> Labels] /\ LocalsOK'
      BY <1>2 DEF RetryCas, TypeOK, LocalsOK, Labels
    <2> QED BY <1>2, <2>1, <2>2, <2>3 DEF RetryCas, TypeOK
  <1>3. ASSUME NEW p \in Procs, FireCall(p) PROVE (TypeOK' /\ LocalsOK')
    BY <1>3 DEF FireCall, TypeOK, LocalsOK, Labels
  <1>4. ASSUME NEW p \in Procs, LoadGen(p) PROVE (TypeOK' /\ LocalsOK')
    BY <1>4 DEF LoadGen, TypeOK, LocalsOK, Labels
  <1>5. ASSUME NEW p \in Procs, TakeHandle(p) PROVE (TypeOK' /\ LocalsOK')
    BY <1>5 DEF TakeHandle, TypeOK, LocalsOK, Labels
  <1>6. ASSUME NEW p \in Procs, Arm(p) PROVE (TypeOK' /\ LocalsOK')
    BY <1>6 DEF Arm, TypeOK, LocalsOK, Labels
  <1>7. ASSUME NEW p \in Procs, ArmFails(p) PROVE (TypeOK' /\ LocalsOK')
    BY <1>7 DEF ArmFails, TypeOK, LocalsOK, Labels
  <1>8. ASSUME NEW p \in Procs, PutBack(p) PROVE (TypeOK' /\ LocalsOK')
    BY <1>8 DEF PutBack, TypeOK, LocalsOK, Labels
  <1>9. ASSUME NEW p \in Procs, CheckGen(p) PROVE (TypeOK' /\ LocalsOK')
    BY <1>9 DEF CheckGen, TypeOK, LocalsOK, Labels
  <1>10. ASSUME NEW p \in Procs, Undo(p) PROVE (TypeOK' /\ LocalsOK')
    BY <1>10 DEF Undo, TypeOK, LocalsOK, Labels
  <1>11. ASSUME NEW p \in Procs, CancelHeld(p) PROVE (TypeOK' /\ LocalsOK')
    BY <1>11 DEF CancelHeld, TypeOK, LocalsOK, Labels
  <1>12. ASSUME NEW p \in Procs, ResetBumpGen(p) PROVE (TypeOK' /\ LocalsOK')
    <2>1. resetGen' \in 0..MaxResets /\ resetGen' >= resetGen
      BY <1>12 DEF ResetBumpGen, TypeOK
    <2>2. pc' \in [Procs -> Labels]
      BY <1>12 DEF ResetBumpGen, TypeOK, Labels
    <2>3. LocalsOK'
      BY <1>12, <2>1 DEF ResetBumpGen, TypeOK, LocalsOK
    <2> QED BY <1>12, <2>1, <2>2, <2>3 DEF ResetBumpGen, TypeOK
  <1>13. ASSUME NEW p \in Procs, ResetTake(p) PROVE (TypeOK' /\ LocalsOK')
    BY <1>13 DEF ResetTake, TypeOK, LocalsOK, Labels
  <1>14. ASSUME NEW p \in Procs, ResetCancel(p) PROVE (TypeOK' /\ LocalsOK')
    BY <1>14 DEF ResetCancel, TypeOK, LocalsOK, Labels
  <1>15. ASSUME NEW p \in Procs, ResetStore(p) PROVE (TypeOK' /\ LocalsOK')
    BY <1>15 DEF ResetStore, TypeOK, LocalsOK, Labels
  <1>16. ASSUME NEW h \in Handles, Expire(h) PROVE (TypeOK' /\ LocalsOK')
    BY <1>16 DEF Expire, TypeOK, LocalsOK, Labels
  <1>17. ASSUME UNCHANGED vars PROVE (TypeOK' /\ LocalsOK')
    BY <1>17 DEF TypeOK, LocalsOK
  <1> QED
    BY <1>1, <1>2, <1>3, <1>4, <1>5, <1>6, <1>7, <1>8, <1>9, <1>10, <1>11, <1>12, <1>13, <1>14,
       <1>15, <1>16, <1>17 DEF Next, Call, Schedule, Reset

(* Every step keeps every timer with exactly one owner.                    *)
LEMMA OwnerNext == TypeOK /\ LocalsOK /\ OneOwner /\ [Next]_vars => OneOwner'
  <1> SUFFICES ASSUME TypeOK /\ LocalsOK /\ OneOwner, [Next]_vars PROVE OneOwner'
    OBVIOUS
  <1> USE DEF Goto, Hold, Done, vars, ctxVars, localVars, history
  <1>1. ASSUME NEW p \in Procs, RetryLoad(p) PROVE OneOwner'
    BY <1>1 DEF RetryLoad, TypeOK, LocalsOK, OneOwner, Owns, Live
  <1>2. ASSUME NEW p \in Procs, RetryCas(p) PROVE OneOwner'
    BY <1>2 DEF RetryCas, TypeOK, LocalsOK, OneOwner, Owns, Live
  <1>3. ASSUME NEW p \in Procs, FireCall(p) PROVE OneOwner'
    BY <1>3 DEF FireCall, TypeOK, LocalsOK, OneOwner, Owns, Live
  <1>4. ASSUME NEW p \in Procs, LoadGen(p) PROVE OneOwner'
    BY <1>4 DEF LoadGen, TypeOK, LocalsOK, OneOwner, Owns, Live
  <1>5. ASSUME NEW p \in Procs, TakeHandle(p) PROVE OneOwner'
    BY <1>5 DEF TakeHandle, TypeOK, LocalsOK, OneOwner, Owns, Live
  <1>6. ASSUME NEW p \in Procs, Arm(p) PROVE OneOwner'
    BY <1>6 DEF Arm, TypeOK, LocalsOK, OneOwner, Owns, Live
  <1>7. ASSUME NEW p \in Procs, ArmFails(p) PROVE OneOwner'
    BY <1>7 DEF ArmFails, TypeOK, LocalsOK, OneOwner, Owns, Live
  <1>8. ASSUME NEW p \in Procs, PutBack(p) PROVE OneOwner'
    BY <1>8 DEF PutBack, TypeOK, LocalsOK, OneOwner, Owns, Live
  <1>9. ASSUME NEW p \in Procs, CheckGen(p) PROVE OneOwner'
    BY <1>9 DEF CheckGen, TypeOK, LocalsOK, OneOwner, Owns, Live
  <1>10. ASSUME NEW p \in Procs, Undo(p) PROVE OneOwner'
    BY <1>10 DEF Undo, TypeOK, LocalsOK, OneOwner, Owns, Live
  <1>11. ASSUME NEW p \in Procs, CancelHeld(p) PROVE OneOwner'
    BY <1>11 DEF CancelHeld, TypeOK, LocalsOK, OneOwner, Owns, Live
  <1>12. ASSUME NEW p \in Procs, ResetBumpGen(p) PROVE OneOwner'
    BY <1>12 DEF ResetBumpGen, TypeOK, LocalsOK, OneOwner, Owns, Live
  <1>13. ASSUME NEW p \in Procs, ResetTake(p) PROVE OneOwner'
    BY <1>13 DEF ResetTake, TypeOK, LocalsOK, OneOwner, Owns, Live
  <1>14. ASSUME NEW p \in Procs, ResetCancel(p) PROVE OneOwner'
    BY <1>14 DEF ResetCancel, TypeOK, LocalsOK, OneOwner, Owns, Live
  <1>15. ASSUME NEW p \in Procs, ResetStore(p) PROVE OneOwner'
    BY <1>15 DEF ResetStore, TypeOK, LocalsOK, OneOwner, Owns, Live
  <1>16. ASSUME NEW h \in Handles, Expire(h) PROVE OneOwner'
    BY <1>16 DEF Expire, TypeOK, LocalsOK, OneOwner, Owns, Live
  <1>17. ASSUME UNCHANGED vars PROVE OneOwner'
    BY <1>17 DEF OneOwner, Owns, Live
  <1> QED
    BY <1>1, <1>2, <1>3, <1>4, <1>5, <1>6, <1>7, <1>8, <1>9, <1>10, <1>11, <1>12, <1>13, <1>14,
       <1>15, <1>16, <1>17 DEF Next, Call, Schedule, Reset

(* Every step keeps the timer of an earlier call marked for removal.       *)
LEMMA DoomedNext ==
  TypeOK /\ LocalsOK /\ ArmedIsRecorded /\ HandleDoomed /\ [Next]_vars
    => (ArmedIsRecorded' /\ HandleDoomed')
  <1> SUFFICES ASSUME TypeOK /\ LocalsOK /\ ArmedIsRecorded /\ HandleDoomed, [Next]_vars
               PROVE  (ArmedIsRecorded' /\ HandleDoomed')
    OBVIOUS
  <1> USE DEF Goto, Hold, Done, vars, ctxVars, localVars, history
  <1>1. ASSUME NEW p \in Procs, RetryLoad(p) PROVE (ArmedIsRecorded' /\ HandleDoomed')
    BY <1>1 DEF RetryLoad, TypeOK, LocalsOK, ArmedIsRecorded, HandleDoomed
  <1>2. ASSUME NEW p \in Procs, RetryCas(p) PROVE (ArmedIsRecorded' /\ HandleDoomed')
    BY <1>2 DEF RetryCas, TypeOK, LocalsOK, ArmedIsRecorded, HandleDoomed
  <1>3. ASSUME NEW p \in Procs, FireCall(p) PROVE (ArmedIsRecorded' /\ HandleDoomed')
    BY <1>3 DEF FireCall, TypeOK, LocalsOK, ArmedIsRecorded, HandleDoomed
  <1>4. ASSUME NEW p \in Procs, LoadGen(p) PROVE (ArmedIsRecorded' /\ HandleDoomed')
    BY <1>4 DEF LoadGen, TypeOK, LocalsOK, ArmedIsRecorded, HandleDoomed
  <1>5. ASSUME NEW p \in Procs, TakeHandle(p) PROVE (ArmedIsRecorded' /\ HandleDoomed')
    BY <1>5 DEF TakeHandle, TypeOK, LocalsOK, ArmedIsRecorded, HandleDoomed
  <1>6. ASSUME NEW p \in Procs, Arm(p) PROVE (ArmedIsRecorded' /\ HandleDoomed')
    BY <1>6 DEF Arm, TypeOK, LocalsOK, ArmedIsRecorded, HandleDoomed
  <1>7. ASSUME NEW p \in Procs, ArmFails(p) PROVE (ArmedIsRecorded' /\ HandleDoomed')
    BY <1>7 DEF ArmFails, TypeOK, LocalsOK, ArmedIsRecorded, HandleDoomed
  <1>8. ASSUME NEW p \in Procs, PutBack(p) PROVE (ArmedIsRecorded' /\ HandleDoomed')
    BY <1>8 DEF PutBack, TypeOK, LocalsOK, ArmedIsRecorded, HandleDoomed
  <1>9. ASSUME NEW p \in Procs, CheckGen(p) PROVE (ArmedIsRecorded' /\ HandleDoomed')
    BY <1>9 DEF CheckGen, TypeOK, LocalsOK, ArmedIsRecorded, HandleDoomed
  <1>10. ASSUME NEW p \in Procs, Undo(p) PROVE (ArmedIsRecorded' /\ HandleDoomed')
    BY <1>10 DEF Undo, TypeOK, LocalsOK, ArmedIsRecorded, HandleDoomed
  <1>11. ASSUME NEW p \in Procs, CancelHeld(p) PROVE (ArmedIsRecorded' /\ HandleDoomed')
    BY <1>11 DEF CancelHeld, TypeOK, LocalsOK, ArmedIsRecorded, HandleDoomed
  <1>12. ASSUME NEW p \in Procs, ResetBumpGen(p) PROVE (ArmedIsRecorded' /\ HandleDoomed')
    BY <1>12 DEF ResetBumpGen, TypeOK, LocalsOK, ArmedIsRecorded, HandleDoomed
  <1>13. ASSUME NEW p \in Procs, ResetTake(p) PROVE (ArmedIsRecorded' /\ HandleDoomed')
    BY <1>13 DEF ResetTake, TypeOK, LocalsOK, ArmedIsRecorded, HandleDoomed
  <1>14. ASSUME NEW p \in Procs, ResetCancel(p) PROVE (ArmedIsRecorded' /\ HandleDoomed')
    BY <1>14 DEF ResetCancel, TypeOK, LocalsOK, ArmedIsRecorded, HandleDoomed
  <1>15. ASSUME NEW p \in Procs, ResetStore(p) PROVE (ArmedIsRecorded' /\ HandleDoomed')
    BY <1>15 DEF ResetStore, TypeOK, LocalsOK, ArmedIsRecorded, HandleDoomed
  <1>16. ASSUME NEW h \in Handles, Expire(h) PROVE (ArmedIsRecorded' /\ HandleDoomed')
    BY <1>16 DEF Expire, TypeOK, LocalsOK, ArmedIsRecorded, HandleDoomed
  <1>17. ASSUME UNCHANGED vars PROVE (ArmedIsRecorded' /\ HandleDoomed')
    BY <1>17 DEF ArmedIsRecorded, HandleDoomed
  <1> QED
    BY <1>1, <1>2, <1>3, <1>4, <1>5, <1>6, <1>7, <1>8, <1>9, <1>10, <1>11, <1>12, <1>13, <1>14,
       <1>15, <1>16, <1>17 DEF Next, Call, Schedule, Reset

(* The inductive invariant holds in every reachable state.                 *)
LEMMA BackoffInvAlways == Spec => []BackoffInv
  <1>1. Init => BackoffInv
    BY RetryInit
  <1>2. BackoffInv /\ [Next]_vars => BackoffInv'
    BY TypeNext, OwnerNext, DoomedNext DEF BackoffInv
  <1> QED
    BY <1>1, <1>2, PTL DEF Spec

(* Every timer that exists has exactly one owner, the context or the call  *)
(* that took it out of the context (backoff.c): none is cancelled twice    *)
(* and none is left without anybody to cancel it.                          *)
THEOREM BackoffSafety == Spec => [](TypeOK /\ OneOwner)
  <1>1. BackoffInv => TypeOK /\ OneOwner
    BY DEF BackoffInv
  <1> QED
    BY <1>1, BackoffInvAlways, PTL

(* A reset is final: once every call under way has returned, no timer that *)
(* was armed before the reset is left, even when the reset came between    *)
(* the creation of the timer and its entry into the context.               *)
THEOREM ResetSafety == Spec => []ResetIsFinal
  <1>1. BackoffInv => ResetIsFinal
    <2> SUFFICES ASSUME BackoffInv PROVE ResetIsFinal
      OBVIOUS
    <2>1. Quiescent /\ ~calledSince => handle = NULL
      BY DEF BackoffInv, HandleDoomed, Quiescent
    <2> QED BY <2>1 DEF BackoffInv, ResetIsFinal, OneOwner, Owns, Quiescent
  <1> QED
    BY <1>1, BackoffInvAlways, PTL

-----------------------------------------------------------------------------
(***************************************************************************)
(* The POSIX primitives, for any number of threads, any capacity and any   *)
(* bits: no wake-up is lost.                                               *)
(***************************************************************************)

(* What a thread may wait for in the call it is in.                        *)
WaitNames(t) ==
    CASE object = "queue"     -> {"send", "receive", "peek"}
      [] object = "semaphore" -> {"take"}
      [] object = "plain"     -> {"take_mutex"}
      [] object = "mutex"     -> {"take_recursive"}
      [] object = "group"     -> {"wait", "sync"}
      [] OTHER                -> IF t = Worker THEN {"dequeue"} ELSE {"post"}

Names    == {"none", "send", "receive", "peek", "take", "give", "take_mutex", "give_mutex",
             "take_recursive", "give_recursive", "wait", "sync", "set", "clear", "post", "dequeue",
             "delete"}
CallType == [name : Names, mask : SUBSET Bits, add : SUBSET Bits, all : BOOLEAN, clear : BOOLEAN]
At       == {"idle", "wait", "awake", "join", "gone"}
ThreadType == [call : CallType, limit : Posix!Limits, at : At]

PosixTypes ==
    /\ object \in Posix!Objects
    /\ th \in [Posix!Everyone -> ThreadType]
    /\ count \in 0..Capacity
    /\ owner \in Procs \cup {Posix!NoOne}
    /\ bits \in SUBSET Bits
    /\ running \in BOOLEAN /\ swallowed \in BOOLEAN

(* A call that waits is one of the object's; only a loop comes to an end,  *)
(* and only a thread that deletes it waits for the worker.                 *)
Waiters ==
    /\ \A t \in Posix!Everyone : th[t].at \in {"wait", "awake"} => th[t].call.name \in WaitNames(t)
    /\ \A t \in Posix!Everyone : th[t].at = "join" => running = FALSE
    /\ running = FALSE => object = "loop"
    /\ object # "loop" => th[Worker].at = "idle"

Conds    == {"not_empty", "not_full"}
Awake(v) == {u \in Posix!Everyone : th[u].at = "awake" /\ Posix!Cond(th[u].call) = v}

(* The parts of NoLostWakeup.                                              *)
Behind(v) == Posix!Waiting(v) = {} \/ Cardinality(Awake(v)) >= Posix!Units(v)
Counted   == object # "group" /\ swallowed = FALSE => \A v \in Conds : Behind(v)
GroupMet  == object = "group" => \A u \in Posix!Waiting("not_empty") :
                                    ~Posix!Ready(u, [th[u].call EXCEPT !.add = {}])
Ended     == running = FALSE => Posix!Waiting("not_empty") \cup Posix!Waiting("not_full") = {}

PosixInv == PosixTypes /\ Waiters /\ Counted /\ GroupMet /\ Ended

USE PosixAssumption DEF Posix!PosixConstants, ThreadType

(* The finite sets of the module are those of the library.                 *)
LEMMA SameFinite == \A S : Posix!IsFiniteSet(S) <=> IsFiniteSet(S)
  BY DEF IsFiniteSet, Posix!IsFiniteSet

(* ... and so are their sizes.                                             *)
LEMMA SameCardinality == \A S : Posix!Cardinality(S) = Cardinality(S)
  BY DEF Cardinality, Posix!Cardinality

(* The same, object by object.                                             *)
LEMMA WaitNamesAre ==
    ASSUME NEW t
    PROVE  /\ object = "queue" => WaitNames(t) = {"send", "receive", "peek"}
           /\ object = "semaphore" => WaitNames(t) = {"take"}
           /\ object = "plain" => WaitNames(t) = {"take_mutex"}
           /\ object = "mutex" => WaitNames(t) = {"take_recursive"}
           /\ object = "group" => WaitNames(t) = {"wait", "sync"}
           /\ object = "loop" => WaitNames(t) = IF t = Worker THEN {"dequeue"} ELSE {"post"}
  BY DEF WaitNames

(* There are finitely many threads.                                        *)
LEMMA EveryoneFinite == IsFiniteSet(Posix!Everyone)
  <1>1. IsFiniteSet(Procs \cup {Worker})
    BY FS_AddElement, SameFinite
  <1> QED BY <1>1 DEF Posix!Everyone

(* Any set of them has a size.                                             *)
LEMMA AwakeFinite ==
    ASSUME NEW A, A \subseteq Posix!Everyone PROVE IsFiniteSet(A) /\ Cardinality(A) \in Nat
  BY EveryoneFinite, FS_Subset, FS_CardinalityType

(* What a step does to the threads that are awake and to the units.        *)
LEMMA Enough ==
    ASSUME NEW A, NEW B, A \subseteq Posix!Everyone, B \subseteq Posix!Everyone, NEW m \in Int,
           NEW n \in Int,
           Cardinality(A) >= m,
           \/ n <= 0
           \/ A \subseteq B /\ n <= m
           \/ \E t : A \ {t} \subseteq B /\ n <= m - 1
           \/ \E t \in B \ A : A \subseteq B /\ n <= m + 1
    PROVE  Cardinality(B) >= n
  <1>1. /\ IsFiniteSet(A) /\ Cardinality(A) \in Nat
        /\ IsFiniteSet(B) /\ Cardinality(B) \in Nat
    BY AwakeFinite
  <1>2. CASE n <= 0
    BY <1>1, <1>2
  <1>3. CASE A \subseteq B /\ n <= m
    <2>1. Cardinality(A) <= Cardinality(B)
      BY <1>1, <1>3, FS_Subset
    <2> QED BY <2>1, <1>1, <1>3
  <1>4. CASE \E t : A \ {t} \subseteq B /\ n <= m - 1
    <2>1. PICK t : A \ {t} \subseteq B /\ n <= m - 1
      BY <1>4
    <2>2. IsFiniteSet(A \ {t}) /\ Cardinality(A \ {t}) \in Nat
      BY <1>1, FS_RemoveElement, FS_CardinalityType
    <2>3. Cardinality(A \ {t}) >= Cardinality(A) - 1
      <3>1. Cardinality(A \ {t})
              = IF t \in A THEN Cardinality(A) - 1 ELSE Cardinality(A)
        BY ONLY <1>1, FS_RemoveElement
      <3> QED BY ONLY <3>1, <1>1
    <2>4. Cardinality(A \ {t}) <= Cardinality(B)
      BY <1>1, <2>1, FS_Subset
    <2>5. Cardinality(B) >= Cardinality(A) - 1
      BY <2>2, <2>3, <2>4, <1>1
    <2>6. n <= m - 1
      BY <2>1
    <2> QED BY ONLY <2>5, <2>6, <1>1, Cardinality(A) >= m, m \in Int, n \in Int
  <1>5. CASE \E t \in B \ A : A \subseteq B /\ n <= m + 1
    <2>1. PICK t \in B \ A : A \subseteq B /\ n <= m + 1
      BY <1>5
    <2>2. IsFiniteSet(A \cup {t}) /\ Cardinality(A \cup {t}) = Cardinality(A) + 1
      BY <1>1, <2>1, FS_AddElement
    <2>3. Cardinality(A \cup {t}) <= Cardinality(B)
      BY <1>1, <2>1, <2>2, FS_Subset
    <2> QED BY <2>1, <2>2, <2>3, <1>1
  <1> QED BY <1>2, <1>3, <1>4, <1>5

(* Units are counted.                                                      *)
LEMMA UnitsType == ASSUME PosixTypes, NEW v \in Conds PROVE Posix!Units(v) \in Int
  BY DEF PosixTypes, Posix!Units, Posix!NoOne

(* Only threads that wait are woken.                                       *)
LEMMA WokenWait ==
    ASSUME NEW v, NEW w, w \in Posix!Signal(v) \/ w \in Posix!Broadcast(v) \/ w \in Posix!Nobody
    PROVE  w \subseteq Posix!Waiting(v)
  BY DEF Posix!Signal, Posix!Broadcast, Posix!Nobody

(* Where the threads are after thread t went on to mine and woke w.        *)
LEMMA MovedSets ==
    ASSUME PosixTypes, NEW t \in Posix!Everyone, NEW mine \in ThreadType,
           NEW w, \A u \in w : u \in Posix!Everyone /\ th[u].at = "wait",
           NEW f, f = Posix!Moved(t, mine, w)
    PROVE  /\ f \in [Posix!Everyone -> ThreadType]
           /\ f[t] = mine
           /\ \A u \in Posix!Everyone \ {t} :
                 /\ f[u].call = th[u].call /\ f[u].limit = th[u].limit
                 /\ f[u].at = IF u \in w THEN "awake" ELSE th[u].at
  <1>1. \A u \in Posix!Everyone : th[u] \in ThreadType
    BY DEF PosixTypes
  <1>2. ASSUME NEW u \in Posix!Everyone
        PROVE  LET e == [th[u] EXCEPT !.at = "awake"]
               IN  e \in ThreadType
                   /\ e.call = th[u].call /\ e.limit = th[u].limit /\ e.at = "awake"
    BY <1>1 DEF At
  <1>3. ASSUME NEW u \in Posix!Everyone
        PROVE  f[u] = IF u = t THEN mine
                      ELSE IF u \in w THEN [th[u] EXCEPT !.at = "awake"] ELSE th[u]
    BY <1>3 DEF Posix!Moved
  <1>4. f \in [Posix!Everyone -> ThreadType]
    <2>1. f = [u \in Posix!Everyone |-> f[u]]
      BY DEF Posix!Moved
    <2>2. \A u \in Posix!Everyone : f[u] \in ThreadType
      BY <1>1, <1>2, <1>3
    <2> QED BY <2>1, <2>2
  <1> QED BY <1>2, <1>3, <1>4

(* The same said of the sets of threads that wait and that are awake.      *)
LEMMA MovedWaiting ==
    ASSUME PosixTypes, NEW t \in Posix!Everyone, NEW mine \in ThreadType,
           NEW w, \A u \in w : u \in Posix!Everyone /\ th[u].at = "wait",
           th' = Posix!Moved(t, mine, w)
    PROVE  /\ th' \in [Posix!Everyone -> ThreadType]
           /\ \A v \in Conds :
                 /\ Posix!Waiting(v)' = ((Posix!Waiting(v) \ w) \ {t})
                                          \cup (IF mine.at = "wait" /\ Posix!Cond(mine.call) = v THEN {t} ELSE {})
                 /\ Awake(v) \ {t} \subseteq Awake(v)'
                 /\ (w \cap Posix!Waiting(v)) \ {t} \subseteq Awake(v)'
                 /\ Awake(v)' \subseteq Posix!Everyone
                 /\ th[t].at # "awake" => Awake(v) \subseteq Awake(v)'
  <1> DEFINE H == th'
  <1>1. /\ H \in [Posix!Everyone -> ThreadType]
        /\ H[t] = mine
        /\ \A u \in Posix!Everyone \ {t} :
              /\ H[u].call = th[u].call /\ H[u].limit = th[u].limit
              /\ H[u].at = IF u \in w THEN "awake" ELSE th[u].at
    BY MovedSets
  <1>2. \A v \in Conds : /\ Posix!Waiting(v)' = {u \in Posix!Everyone : H[u].at = "wait" /\ Posix!Cond(H[u].call) = v}
                         /\ Awake(v)' = {u \in Posix!Everyone : H[u].at = "awake" /\ Posix!Cond(H[u].call) = v}
    BY DEF Posix!Waiting, Awake, Posix!Everyone, Posix!Cond
  <1> HIDE DEF H
  <1>3. ASSUME NEW v \in Conds
        PROVE  Posix!Waiting(v)' = ((Posix!Waiting(v) \ w) \ {t})
                                          \cup (IF mine.at = "wait" /\ Posix!Cond(mine.call) = v THEN {t} ELSE {})
    BY <1>1, <1>2 DEF Posix!Waiting, Posix!Cond
  <1>4. ASSUME NEW v \in Conds
        PROVE  /\ Awake(v) \ {t} \subseteq Awake(v)'
               /\ (w \cap Posix!Waiting(v)) \ {t} \subseteq Awake(v)'
               /\ Awake(v)' \subseteq Posix!Everyone
               /\ th[t].at # "awake" => Awake(v) \subseteq Awake(v)'
    BY <1>1, <1>2 DEF Posix!Waiting, Posix!Cond, Awake
  <1> QED BY <1>1, <1>3, <1>4 DEF H

(* What there is to take, and what a call makes of it.                     *)
LEMMA UnitsAre ==
    ASSUME object \in Posix!Objects
    PROVE  /\ Posix!Units("not_full") = Capacity - count
           /\ object \in {"plain", "mutex"}
                => Posix!Units("not_empty") = IF owner = Posix!NoOne THEN 1 ELSE 0
           /\ object \notin {"plain", "mutex"} => Posix!Units("not_empty") = count
  BY DEF Posix!Units, Posix!NoOne, Posix!Objects

(* The same after a step.                                                  *)
LEMMA UnitsAreNext ==
    ASSUME object' \in Posix!Objects
    PROVE  /\ Posix!Units("not_full")' = Capacity - count'
           /\ object' \in {"plain", "mutex"}
                => Posix!Units("not_empty")' = IF owner' = Posix!NoOne THEN 1 ELSE 0
           /\ object' \notin {"plain", "mutex"} => Posix!Units("not_empty")' = count'
  BY DEF Posix!Units, Posix!NoOne, Posix!Objects

Steady == {"peek", "take_mutex", "give_mutex", "take_recursive", "give_recursive", "wait", "sync",
           "set", "clear"}

(* How many there are when a call is done,                                 *)
LEMMA CountAfter ==
    ASSUME NEW t, NEW c, Posix!Effect(t, c)
    PROVE  /\ c.name \in {"send", "post"} => count' = IF running THEN count + 1 ELSE count
           /\ c.name \in {"receive", "take"} => count' = count - 1
           /\ c.name = "dequeue" /\ count > 0 => count' = count - 1
           /\ c.name = "give" => count' = IF count < Capacity THEN count + 1 ELSE count
           /\ c.name \in Steady => count' = count
  BY DEF Posix!Effect, Steady

(* who owns the mutex,                                                     *)
LEMMA OwnerAfter ==
    ASSUME NEW t, NEW c, Posix!Effect(t, c)
    PROVE  /\ c.name \in {"take_mutex", "take_recursive"} => owner' = t
           /\ c.name \in {"give_mutex", "give_recursive"} => owner' = IF depth = 1 THEN Posix!NoOne ELSE owner
           /\ c.name \notin {"take_mutex", "take_recursive", "give_mutex", "give_recursive"} => owner' = owner
  BY DEF Posix!Effect

(* whom the call wakes,                                                    *)
LEMMA WakesAre ==
    ASSUME NEW c
    PROVE  /\ c.name \in {"send", "post"} => Posix!Wakes(c) = IF running THEN Posix!Signal("not_empty") ELSE Posix!Nobody
           /\ c.name \in {"receive", "dequeue"} => Posix!Wakes(c) = Posix!Signal("not_full")
           /\ c.name = "give" => Posix!Wakes(c) = IF count < Capacity THEN Posix!Signal("not_empty") ELSE Posix!Nobody
           /\ c.name \in {"give_mutex", "give_recursive"} =>
                 Posix!Wakes(c) = IF depth = 1 THEN Posix!Signal("not_empty") ELSE Posix!Nobody
           /\ c.name \in {"set", "sync"} => Posix!Wakes(c) = Posix!Broadcast("not_empty")
           /\ c.name \in {"peek", "take", "take_mutex", "take_recursive", "wait", "clear"} => Posix!Wakes(c) = Posix!Nobody
  BY DEF Posix!Wakes

(* and what it waited for.                                                 *)
LEMMA ReadyIs ==
    ASSUME NEW t, NEW c
    PROVE  /\ c.name = "send" => (Posix!Ready(t, c) <=> count < Capacity)
           /\ c.name = "post" => (Posix!Ready(t, c) <=> count < Capacity \/ ~running)
           /\ c.name \in {"receive", "peek", "take"} => (Posix!Ready(t, c) <=> count > 0)
           /\ c.name = "dequeue" => (Posix!Ready(t, c) <=> count > 0 \/ ~running)
           /\ c.name = "take_mutex" => (Posix!Ready(t, c) <=> owner = Posix!NoOne)
           /\ c.name = "take_recursive" => (Posix!Ready(t, c) <=> owner \in {Posix!NoOne, t})
           /\ c.name \in {"wait", "sync"} => (Posix!Ready(t, c) <=> Posix!Met(c, bits \cup c.add))
           /\ c.name \in {"give", "give_mutex", "give_recursive", "set", "clear"} => Posix!Ready(t, c)
  BY DEF Posix!Ready

(* The calls an object has.                                                *)
LEMMA CallNames ==
    ASSUME object \in Posix!Objects, NEW c \in Posix!Calls
    PROVE  /\ c \in CallType
           /\ object = "queue" => c.name \in {"send", "receive", "peek"}
           /\ object = "semaphore" => c.name \in {"take", "give"}
           /\ object = "plain" => c.name \in {"take_mutex", "give_mutex"}
           /\ object = "mutex" => c.name \in {"take_recursive", "give_recursive"}
           /\ object = "group" => c.name \in {"wait", "sync", "set", "clear"}
           /\ object = "loop" => c.name = "post"
           /\ c.name # "sync" /\ c.name # "set" => c.add = {}
  <1>1. CASE object = "group"
    <2>1. c \in Posix!WaitBits \cup Posix!Sync \cup Posix!SetBits \cup Posix!ClearBits
      BY <1>1 DEF Posix!Calls
    <2>2. c \in CallType /\ c.name \in {"wait", "sync", "set", "clear"}
             /\ (c.name # "sync" /\ c.name # "set" => c.add = {})
      <3>1. CASE c \in Posix!WaitBits
        BY <3>1 DEF Posix!WaitBits, Posix!Masks, CallType, Names
      <3>2. CASE c \in Posix!Sync
        BY <3>2 DEF Posix!Sync, Posix!Masks, CallType, Names
      <3>3. CASE c \in Posix!SetBits
        BY <3>3 DEF Posix!SetBits, Posix!Masks, CallType, Names
      <3>4. CASE c \in Posix!ClearBits
        BY <3>4 DEF Posix!ClearBits, Posix!Masks, CallType, Names
      <3> QED BY <2>1, <3>1, <3>2, <3>3, <3>4
    <2> QED BY <1>1, <2>2
  <1>0. \A n \in Names : /\ Posix!Call(n) \in CallType
                         /\ Posix!Call(n).name = n /\ Posix!Call(n).add = {}
    BY DEF Posix!Call, CallType
  <1>2. CASE object = "queue"
    <2>1. c \in Posix!QueueCalls
      BY <1>2 DEF Posix!Calls
    <2> QED BY <1>0, <1>2, <2>1 DEF Posix!QueueCalls, Names
  <1>3. CASE object = "semaphore"
    <2>1. c \in Posix!SemaphoreCalls
      BY <1>3 DEF Posix!Calls
    <2> QED BY <1>0, <1>3, <2>1 DEF Posix!SemaphoreCalls, Names
  <1>4. CASE object = "plain"
    <2>1. c \in Posix!PlainCalls
      BY <1>4 DEF Posix!Calls
    <2> QED BY <1>0, <1>4, <2>1 DEF Posix!PlainCalls, Names
  <1>5. CASE object = "mutex"
    <2>1. c \in Posix!RecursiveCalls
      BY <1>5 DEF Posix!Calls
    <2> QED BY <1>0, <1>5, <2>1 DEF Posix!RecursiveCalls, Names
  <1>6. CASE object = "loop"
    <2>1. c = Posix!Call("post")
      BY <1>6 DEF Posix!Calls
    <2> QED BY <1>0, <1>6, <2>1 DEF Names
  <1> QED BY <1>1, <1>2, <1>3, <1>4, <1>5, <1>6 DEF Posix!Objects

(* A signal wakes a thread if there is one.                                *)
LEMMA SignalWakes ==
    ASSUME NEW v, NEW w \in Posix!Signal(v)
    PROVE  Posix!Waiting(v) = {} \/ \E u \in Posix!Waiting(v) : u \in w
  BY DEF Posix!Signal

(* Nobody waits for room but in a queue and in the loop.                   *)
LEMMA NoRoomWanted ==
    ASSUME PosixTypes, Waiters, object \notin {"queue", "loop"}
    PROVE  Posix!Waiting("not_full") = {}
  <1>1. \A u \in Posix!Everyone : th[u].at = "wait" => th[u].call.name \notin {"send", "post"}
    BY DEF PosixTypes, Waiters, WaitNames, Posix!Objects
  <1> QED BY <1>1 DEF Posix!Waiting, Posix!Cond

(* A call that has found its condition met takes one of what it waited for *)
(* and wakes a thread for what it has made available.                      *)
CallOf(c) ==
    /\ object = "queue" => c.name \in {"send", "receive", "peek"}
    /\ object = "semaphore" => c.name \in {"take", "give"}
    /\ object = "plain" => c.name \in {"take_mutex", "give_mutex"}
    /\ object = "mutex" => c.name \in {"take_recursive", "give_recursive"}
    /\ object = "group" => c.name \in {"wait", "sync", "set", "clear"}
    /\ object = "loop" => c.name \in {"post", "dequeue"}

Woken(v, w) == \/ Posix!Units(v)' <= Posix!Units(v)
               \/ Posix!Waiting(v) = {}
               \/ Posix!Units(v)' <= Posix!Units(v) + 1 /\ \E u \in Posix!Waiting(v) : u \in w

Taken(c) == Posix!Units(Posix!Cond(c))' <= 0 \/ Posix!Units(Posix!Cond(c))' <= Posix!Units(Posix!Cond(c)) - 1

(* A call that is done leaves the books balanced.                          *)
LEMMA UnitsStep ==
    ASSUME PosixTypes, Waiters, object # "group", running = TRUE, NEW t \in Posix!Everyone, NEW c,
           CallOf(c),
           c.name \in {"take_mutex", "take_recursive"} => t \in Procs,
           Posix!Ready(t, c), c.name = "dequeue" => count > 0, Posix!Effect(t, c),
           NEW w \in Posix!Wakes(c), object' = object
    PROVE  /\ \A u \in w : u \in Posix!Everyone /\ th[u].at = "wait"
           /\ \A v \in Conds : Woken(v, w)
           /\ c.name \notin {"peek", "give", "give_mutex", "give_recursive"} => Taken(c)
  <1>0. object \in Posix!Objects /\ object' \in Posix!Objects /\ count \in Nat
    BY DEF PosixTypes
  <1>a. \A v : \A u \in Posix!Waiting(v) : u \in Posix!Everyone /\ th[u].at = "wait"
    BY DEF Posix!Waiting
  <1>b. \A v \in Conds : v \in {"not_empty", "not_full"}
    BY DEF Conds
  <1>1. CASE object = "queue"
    <2>1. CASE c.name = "send"
      <3>1. count' = count + 1 /\ w \in Posix!Signal("not_empty")
        BY <2>1, CountAfter, WakesAre
      <3>2. /\ Posix!Units("not_full")' = Posix!Units("not_full") - 1
            /\ Posix!Units("not_empty")' = Posix!Units("not_empty") + 1
            /\ Posix!Units("not_full") \in Int /\ Posix!Units("not_empty") \in Int
        BY <1>0, <1>1, <3>1, UnitsAre, UnitsAreNext
      <3> QED BY <1>a, <1>b, <2>1, <3>1, <3>2, SignalWakes, WokenWait DEF Woken, Taken, Posix!Cond
    <2>2. CASE c.name = "receive"
      <3>1. count' = count - 1 /\ w \in Posix!Signal("not_full")
        BY <2>2, CountAfter, WakesAre
      <3>2. /\ Posix!Units("not_full")' = Posix!Units("not_full") + 1
            /\ Posix!Units("not_empty")' = Posix!Units("not_empty") - 1
            /\ Posix!Units("not_full") \in Int /\ Posix!Units("not_empty") \in Int
        BY <1>0, <1>1, <3>1, UnitsAre, UnitsAreNext
      <3> QED BY <1>a, <1>b, <2>2, <3>1, <3>2, SignalWakes, WokenWait DEF Woken, Taken, Posix!Cond
    <2>3. CASE c.name = "peek"
      <3>1. count' = count /\ w = {}
        BY <2>3, CountAfter, WakesAre DEF Posix!Nobody, Steady
      <3>2. /\ Posix!Units("not_full")' = Posix!Units("not_full")
            /\ Posix!Units("not_empty")' = Posix!Units("not_empty")
            /\ Posix!Units("not_full") \in Int /\ Posix!Units("not_empty") \in Int
        BY <1>0, <1>1, <3>1, UnitsAre, UnitsAreNext
      <3> QED BY <1>b, <2>3, <3>1, <3>2 DEF Woken
    <2> QED BY <1>1, <2>1, <2>2, <2>3 DEF CallOf
  <1>2. CASE object = "semaphore"
    <2>0. Posix!Waiting("not_full") = {}
      BY <1>2, NoRoomWanted
    <2>1. CASE c.name = "take"
      <3>1. count' = count - 1 /\ w = {}
        BY <2>1, CountAfter, WakesAre DEF Posix!Nobody
      <3>2. /\ Posix!Units("not_empty")' = Posix!Units("not_empty") - 1
            /\ Posix!Units("not_empty") \in Int
        BY <1>0, <1>2, <3>1, UnitsAre, UnitsAreNext
      <3> QED BY <1>b, <2>0, <2>1, <3>1, <3>2 DEF Woken, Taken, Posix!Cond
    <2>2. CASE c.name = "give" /\ count < Capacity
      <3>1. count' = count + 1 /\ w \in Posix!Signal("not_empty")
        BY <2>2, CountAfter, WakesAre
      <3>2. /\ Posix!Units("not_empty")' = Posix!Units("not_empty") + 1
            /\ Posix!Units("not_empty") \in Int
        BY <1>0, <1>2, <3>1, UnitsAre, UnitsAreNext
      <3> QED BY <1>a, <1>b, <2>0, <2>2, <3>1, <3>2, SignalWakes, WokenWait DEF Woken
    <2>3. CASE c.name = "give" /\ ~(count < Capacity)
      <3>1. count' = count /\ w = {}
        BY <2>3, CountAfter, WakesAre DEF Posix!Nobody
      <3>2. /\ Posix!Units("not_empty")' = Posix!Units("not_empty")
            /\ Posix!Units("not_empty") \in Int
        BY <1>0, <1>2, <3>1, UnitsAre, UnitsAreNext
      <3> QED BY <1>b, <2>0, <2>3, <3>1, <3>2 DEF Woken
    <2> QED BY <1>2, <2>1, <2>2, <2>3 DEF CallOf
  <1>3. CASE object \in {"plain", "mutex"}
    <2>0. Posix!Waiting("not_full") = {}
      BY <1>3, NoRoomWanted
    <2>1. CASE c.name \in {"take_mutex", "take_recursive"}
      <3>1. owner' = t /\ w = {}
        BY <2>1, OwnerAfter, WakesAre DEF Posix!Nobody
      <3>2. t # Posix!NoOne
        BY <2>1 DEF Posix!NoOne, Posix!Everyone
      <3>3. Posix!Units("not_empty")' = 0
        BY <1>0, <1>3, <3>1, <3>2, UnitsAreNext
      <3>4. Posix!Units("not_empty") \in {0, 1}
        BY <1>0, <1>3, UnitsAre
      <3> QED BY <1>b, <2>0, <2>1, <3>1, <3>3, <3>4 DEF Woken, Taken, Posix!Cond
    <2>2. CASE c.name \in {"give_mutex", "give_recursive"} /\ depth = 1
      <3>1. w \in Posix!Signal("not_empty")
        BY <2>2, WakesAre
      <3>2. Posix!Units("not_empty") \in {0, 1} /\ Posix!Units("not_empty")' \in {0, 1}
        BY <1>0, <1>3, UnitsAre, UnitsAreNext
      <3> QED BY <1>a, <1>b, <2>0, <2>2, <3>1, <3>2, SignalWakes, WokenWait DEF Woken
    <2>3. CASE c.name \in {"give_mutex", "give_recursive"} /\ depth # 1
      <3>1. owner' = owner /\ w = {}
        BY <2>3, OwnerAfter, WakesAre DEF Posix!Nobody
      <3>2. Posix!Units("not_empty") \in {0, 1} /\ Posix!Units("not_empty")' = Posix!Units("not_empty")
        BY <1>0, <1>3, <3>1, UnitsAre, UnitsAreNext
      <3> QED BY <1>b, <2>0, <2>3, <3>1, <3>2 DEF Woken
    <2> QED BY <1>3, <2>1, <2>2, <2>3 DEF CallOf
  <1>4. CASE object = "loop"
    <2>1. CASE c.name = "post"
      <3>1. count' = count + 1 /\ w \in Posix!Signal("not_empty")
        BY <2>1, CountAfter, WakesAre
      <3>2. /\ Posix!Units("not_full")' = Posix!Units("not_full") - 1
            /\ Posix!Units("not_empty")' = Posix!Units("not_empty") + 1
            /\ Posix!Units("not_full") \in Int /\ Posix!Units("not_empty") \in Int
        BY <1>0, <1>4, <3>1, UnitsAre, UnitsAreNext
      <3> QED BY <1>a, <1>b, <2>1, <3>1, <3>2, SignalWakes, WokenWait DEF Woken, Taken, Posix!Cond
    <2>2. CASE c.name = "dequeue"
      <3>1. count' = count - 1 /\ w \in Posix!Signal("not_full")
        BY <2>2, CountAfter, WakesAre
      <3>2. /\ Posix!Units("not_full")' = Posix!Units("not_full") + 1
            /\ Posix!Units("not_empty")' = Posix!Units("not_empty") - 1
            /\ Posix!Units("not_full") \in Int /\ Posix!Units("not_empty") \in Int
        BY <1>0, <1>4, <3>1, UnitsAre, UnitsAreNext
      <3> QED BY <1>a, <1>b, <2>2, <3>1, <3>2, SignalWakes, WokenWait DEF Woken, Taken, Posix!Cond
    <2> QED BY <1>4, <2>1, <2>2 DEF CallOf
  <1> QED BY <1>0, <1>1, <1>2, <1>3, <1>4 DEF Posix!Objects

(* A thread that is in no call.                                            *)
LEMMA IdleType == Posix!Idle \in ThreadType
                  /\ Posix!Idle.at = "idle"
  BY DEF Posix!Idle, Posix!Call, CallType, Names, At, Posix!Limits

(* A call that has found its condition met leaves nobody behind ...        *)
LEMMA CountedDone ==
    ASSUME PosixTypes, Waiters, Counted, object # "group", swallowed = FALSE, running = TRUE,
           object' = object,
           NEW t \in Posix!Everyone, NEW c, CallOf(c),
           c.name \in {"take_mutex", "take_recursive"} => t \in Procs,
           Posix!Ready(t, c), c.name = "dequeue" => count > 0, Posix!Effect(t, c),
           NEW w \in Posix!Wakes(c),
           th' = Posix!Moved(t, Posix!Idle, w),
           \/ th[t].at = "idle"
           \/ /\ th[t].at = "awake" /\ Posix!Cond(th[t].call) = Posix!Cond(c)
              /\ c.name \notin {"peek", "give", "give_mutex", "give_recursive"}
    PROVE  \A v \in Conds : Behind(v)'
  <1>1. /\ \A u \in w : u \in Posix!Everyone /\ th[u].at = "wait"
        /\ \A v \in Conds : Woken(v, w)
        /\ c.name \notin {"peek", "give", "give_mutex", "give_recursive"} => Taken(c)
    BY UnitsStep
  <1> SUFFICES ASSUME NEW v \in Conds PROVE Behind(v)'
    OBVIOUS
  <1>2. /\ Posix!Waiting(v)' \subseteq Posix!Waiting(v)
        /\ Awake(v) \ {t} \subseteq Awake(v)'
        /\ (w \cap Posix!Waiting(v)) \ {t} \subseteq Awake(v)'
        /\ Awake(v)' \subseteq Posix!Everyone /\ Awake(v) \subseteq Posix!Everyone
    BY <1>1, MovedWaiting, IdleType DEF Awake
  <1>3. CASE Posix!Waiting(v) = {}
    BY <1>2, <1>3 DEF Behind
  <1>4. CASE Posix!Waiting(v) # {}
    <2>1. Cardinality(Awake(v)) >= Posix!Units(v)
      BY <1>4 DEF Counted, Behind
    <2>2. Posix!Units(v) \in Int /\ Posix!Units(v)' \in Int
      <3>1. object \in Posix!Objects /\ object' \in Posix!Objects /\ count \in Int
        BY DEF PosixTypes
      <3>2. count' \in Int
        BY <3>1, CountAfter, ReadyIs DEF CallOf, Steady, Posix!Objects
      <3> QED BY <3>1, <3>2, UnitsAre, UnitsAreNext DEF Conds
    <2>3. CASE t \in Awake(v)
      <3>1. Taken(c) /\ Posix!Cond(c) = v
        BY <2>3, <1>1 DEF Awake
      <3>2. Posix!Units(v)' <= 0 \/ Posix!Units(v)' <= Posix!Units(v) - 1
        BY <3>1 DEF Taken
      <3>3. Cardinality(Awake(v)') >= Posix!Units(v)'
        BY <3>2, <2>1, <2>2, <1>2, Enough
      <3> QED BY <3>3 DEF Behind, Awake
    <2>4. CASE t \notin Awake(v)
      <3>1. Awake(v) \subseteq Awake(v)'
        BY <2>4, <1>2
      <3>2. Posix!Units(v)' <= Posix!Units(v) \/ (Posix!Units(v)' <= Posix!Units(v) + 1 /\ \E u \in Posix!Waiting(v) : u \in w)
        BY <1>1, <1>4 DEF Woken
      <3>3. ASSUME NEW u \in Posix!Waiting(v), u \in w PROVE u \in Awake(v)' \ Awake(v)
        <4>1. th[u].at = "wait" /\ u # t
          BY <3>3 DEF Posix!Waiting
        <4> QED BY <4>1, <3>3, <1>2 DEF Awake
      <3>4. Cardinality(Awake(v)') >= Posix!Units(v)'
        BY <3>1, <3>2, <3>3, <2>1, <2>2, <1>2, Enough
      <3> QED BY <3>4 DEF Behind, Awake
    <2> QED BY <2>3, <2>4
  <1> QED BY <1>3, <1>4

(* ... and one that waits finds nothing to take.                           *)
LEMMA NothingThere ==
    ASSUME PosixTypes, object # "group", NEW t, NEW c, c.name \in WaitNames(t), c.name # "dequeue",
           ~Posix!Ready(t, c)
    PROVE  Posix!Units(Posix!Cond(c)) <= 0
  <1>1. object \in Posix!Objects /\ count \in Nat
    BY DEF PosixTypes
  <1>2. c.name \in {"send", "post"} \/ c.name \in {"receive", "peek", "take", "take_mutex", "take_recursive"}
    BY <1>1, WaitNamesAre DEF Posix!Objects
  <1>3. CASE c.name \in {"send", "post"}
    <2>1. Posix!Cond(c) = "not_full" /\ ~(count < Capacity)
      BY <1>3, ReadyIs DEF Posix!Cond
    <2> QED BY <2>1, <1>1, UnitsAre
  <1>4. CASE c.name \in {"receive", "peek", "take"}
    <2>1. Posix!Cond(c) = "not_empty" /\ ~(count > 0)
      BY <1>4, ReadyIs DEF Posix!Cond
    <2>2. object \notin {"plain", "mutex"}
      BY <1>4, WaitNamesAre
    <2> QED BY <2>1, <2>2, <1>1, UnitsAre
  <1>5. CASE c.name \in {"take_mutex", "take_recursive"}
    <2>1. Posix!Cond(c) = "not_empty" /\ owner # Posix!NoOne
      BY <1>5, ReadyIs DEF Posix!Cond
    <2>2. object \in {"plain", "mutex"}
      BY <1>1, <1>5, WaitNamesAre DEF Posix!Objects
    <2> QED BY <2>1, <2>2, <1>1, UnitsAre
  <1> QED BY <1>2, <1>3, <1>4, <1>5

(* A step that takes nothing away and leaves everybody who is awake awake, *)
(* but for a thread that finds nothing.                                    *)
LEMMA CountedQuiet ==
    ASSUME PosixTypes, Counted, object # "group", swallowed = FALSE,
           UNCHANGED <<object, count, owner>>,
           NEW t, \A v \in Conds : /\ Awake(v)' \subseteq Posix!Everyone
                                   /\ \/ Posix!Units(v) <= 0
                                      \/ Posix!Waiting(v)' \subseteq Posix!Waiting(v) /\ Awake(v) \subseteq Awake(v)'
    PROVE  \A v \in Conds : Behind(v)'
  <1> SUFFICES ASSUME NEW v \in Conds PROVE Behind(v)'
    OBVIOUS
  <1>1. Posix!Units(v)' = Posix!Units(v)
    BY DEF Posix!Units
  <1>2. Posix!Units(v) \in Int /\ Awake(v) \subseteq Posix!Everyone
    BY UnitsType DEF Awake
  <1>3. CASE Posix!Units(v) <= 0
    <2>1. Cardinality(Awake(v)') \in Nat
      BY AwakeFinite
    <2> QED BY <2>1, <1>1, <1>2, <1>3 DEF Behind, Awake
  <1>4. CASE Posix!Waiting(v)' \subseteq Posix!Waiting(v) /\ Awake(v) \subseteq Awake(v)' /\ Posix!Waiting(v) # {}
    <2>1. Cardinality(Awake(v)) >= Posix!Units(v)
      BY <1>4 DEF Counted, Behind
    <2>2. Cardinality(Awake(v)') >= Posix!Units(v)'
      BY <2>1, <1>1, <1>2, <1>4, Enough
    <2> QED BY <2>2 DEF Behind, Awake
  <1>5. CASE Posix!Waiting(v)' \subseteq Posix!Waiting(v) /\ Posix!Waiting(v) = {}
    BY <1>5 DEF Behind
  <1> QED BY <1>3, <1>4, <1>5

(* The object stays within its bounds.                                     *)
LEMMA EffectType ==
    ASSUME PosixTypes, NEW t, NEW c \in CallType, CallOf(c),
           c.name \in {"take_mutex", "take_recursive"} => t \in Procs,
           Posix!Ready(t, c), c.name = "dequeue" => count > 0, Posix!Effect(t, c)
    PROVE  count' \in 0..Capacity /\ owner' \in Procs \cup {Posix!NoOne} /\ bits' \in SUBSET Bits
  <1>1. object \in Posix!Objects /\ count \in 0..Capacity /\ running \in BOOLEAN
        /\ owner \in Procs \cup {Posix!NoOne} /\ bits \in SUBSET Bits
    BY DEF PosixTypes
  <1>2. c.name \in {"send", "post", "receive", "take", "give", "dequeue"} \/ c.name \in Steady
    BY <1>1 DEF CallOf, Steady, Posix!Objects
  <1>3. count' \in 0..Capacity
    <2>1. CASE c.name \in {"send", "post"}
      <3>1. count < Capacity \/ ~running
        BY <2>1, ReadyIs
      <3>2. count' = IF running THEN count + 1 ELSE count
        BY <2>1, CountAfter
      <3> QED BY <3>1, <3>2, <1>1
    <2>2. CASE c.name \in {"receive", "take"}
      <3>1. count > 0 /\ count' = count - 1
        BY <2>2, ReadyIs, CountAfter
      <3> QED BY <3>1, <1>1
    <2>3. CASE c.name \in {"give", "dequeue"}
      BY <2>3, <1>1, CountAfter
    <2>4. CASE c.name \in Steady
      BY <2>4, <1>1, CountAfter
    <2> QED BY <1>2, <2>1, <2>2, <2>3, <2>4
  <1>4. owner' \in Procs \cup {Posix!NoOne}
    BY <1>1, OwnerAfter
  <1>5. bits' \in SUBSET Bits
    <2>1. c.add \in SUBSET Bits
      BY DEF CallType
    <2>2. bits' \subseteq bits \cup c.add
      BY DEF Posix!Effect
    <2> QED BY <1>1, <2>1, <2>2
  <1> QED BY <1>3, <1>4, <1>5

(* Who waits for what, after a move.                                       *)
LEMMA WaitersMoved ==
    ASSUME PosixTypes, Waiters, UNCHANGED <<object, running>>, NEW t \in Posix!Everyone,
           NEW mine \in ThreadType, NEW w,
           \A u \in w : u \in Posix!Everyone /\ th[u].at = "wait", th' = Posix!Moved(t, mine, w),
           mine.at \in {"wait", "awake"} => mine.call.name \in WaitNames(t),
           mine.at = "join" => running = FALSE,
           object # "loop" /\ t = Worker => mine.at = "idle"
    PROVE  Waiters' /\ th' \in [Posix!Everyone -> ThreadType]
  <1> DEFINE H == th'
  <1>1. /\ H \in [Posix!Everyone -> ThreadType]
        /\ H[t] = mine
        /\ \A u \in Posix!Everyone \ {t} :
              /\ H[u].call = th[u].call /\ H[u].limit = th[u].limit
              /\ H[u].at = IF u \in w THEN "awake" ELSE th[u].at
    BY MovedSets
  <1>2. \A u : WaitNames(u)' = WaitNames(u)
    BY DEF WaitNames
  <1>3. Worker \in Posix!Everyone
    BY DEF Posix!Everyone
  <1> HIDE DEF H
  <1>4. /\ \A u \in Posix!Everyone : H[u].at \in {"wait", "awake"} => H[u].call.name \in WaitNames(u)
        /\ \A u \in Posix!Everyone : H[u].at = "join" => running = FALSE
        /\ object # "loop" => H[Worker].at = "idle"
    BY <1>1, <1>3 DEF Waiters
  <1>5. running' = FALSE => object' = "loop"
    BY DEF Waiters
  <1> QED BY <1>1, <1>2, <1>4, <1>5 DEF Waiters, H, Posix!Everyone

(* Bits that are not there keep a thread waiting.                          *)
LEMMA MetGrows ==
    ASSUME NEW c, NEW a, NEW b, a \subseteq b, Posix!Met(c, a)
    PROVE  Posix!Met(c, b)
  BY DEF Posix!Met

(* What is met does not depend on the bits a call brings.                  *)
LEMMA MetSame ==
    ASSUME NEW c \in CallType, NEW a
    PROVE  LET d == [c EXCEPT !.add = {}]
           IN  /\ d \in CallType /\ d.name = c.name /\ d.mask = c.mask /\ d.all = c.all /\ d.clear = c.clear /\ d.add = {}
               /\ Posix!Met(d, a) = Posix!Met(c, a)
  BY DEF CallType, Posix!Met

(* The same call without the bits it has already set.                      *)
LEMMA DropAdd ==
    ASSUME PosixTypes, NEW t, NEW c \in CallType, CallOf(c), NEW d, d = [c EXCEPT !.add = {}]
    PROVE  /\ d \in CallType /\ CallOf(d) /\ d.name = c.name /\ d.add = {} /\ Posix!Cond(d) = Posix!Cond(c)
           /\ Posix!Wakes(d) = Posix!Wakes(c)
           /\ object # "group" => Posix!Ready(t, d) = Posix!Ready(t, c)
           /\ object = "group" /\ Posix!Ready(t, d) => Posix!Ready(t, c)
  <1>1. d \in CallType /\ d.name = c.name /\ d.mask = c.mask /\ d.all = c.all /\ d.clear = c.clear /\ d.add = {}
    BY DEF CallType
  <1>2. object \in Posix!Objects
    BY DEF PosixTypes
  <1>3. Posix!Wakes(d) = Posix!Wakes(c)
    BY <1>1 DEF Posix!Wakes
  <1>4. ASSUME object # "group" PROVE Posix!Ready(t, d) = Posix!Ready(t, c)
    <2>1. c.name \notin {"wait", "sync"}
      BY <1>2, <1>4 DEF CallOf, Posix!Objects
    <2> QED BY <1>1, <2>1 DEF Posix!Ready
  <1>5. ASSUME object = "group", Posix!Ready(t, d) PROVE Posix!Ready(t, c)
    <2>1. CASE c.name \in {"wait", "sync"}
      <3>1. Posix!Met(d, bits \cup d.add)
        BY <1>1, <1>5, <2>1, ReadyIs
      <3>2. Posix!Met(c, bits \cup d.add)
        BY <3>1, <1>1 DEF Posix!Met
      <3>3. Posix!Met(c, bits \cup c.add)
        BY <3>2, <1>1, MetGrows
      <3> QED BY <3>3, <2>1, ReadyIs
    <2>2. CASE c.name \in {"set", "clear"}
      BY <2>2, ReadyIs
    <2> QED BY <1>5, <2>1, <2>2 DEF CallOf
  <1> QED BY <1>1, <1>3, <1>4, <1>5 DEF CallOf, Posix!Cond

(* A call that is done ...                                                 *)
LEMMA DoneStep ==
    ASSUME PosixInv, UNCHANGED <<object, running>>, swallowed' \in BOOLEAN,
           swallowed' = FALSE => swallowed = FALSE,
           NEW t \in Posix!Everyone, NEW c \in CallType, CallOf(c),
           c.name \in {"take_mutex", "take_recursive"} => t \in Procs,
           object # "loop" => t # Worker,
           Posix!Ready(t, c), c.name = "dequeue" => count > 0, Posix!Effect(t, c),
           NEW w \in Posix!Wakes(c),
           object = "group" => c.add = {} \/ c.name \in {"sync", "set"},
           th' = Posix!Moved(t, Posix!Idle, w),
           \/ th[t].at = "idle"
           \/ /\ th[t].at = "awake" /\ Posix!Cond(th[t].call) = Posix!Cond(c)
              /\ c.name \notin {"give", "give_mutex", "give_recursive"}
              /\ c.name = "peek" => swallowed' = TRUE
    PROVE  PosixInv'
  <1>1. PosixTypes /\ Waiters /\ Counted /\ GroupMet /\ Ended
    BY DEF PosixInv
  <1>2. object \in Posix!Objects /\ running \in BOOLEAN
    BY <1>1 DEF PosixTypes
  <1>3. \A u \in w : u \in Posix!Everyone /\ th[u].at = "wait"
    <2>1. \E v \in Conds : w \in Posix!Signal(v) \/ w \in Posix!Broadcast(v) \/ w \in Posix!Nobody
      <3>1. c.name \in {"send", "post", "receive", "dequeue", "give", "give_mutex", "give_recursive", "set", "sync",
                        "peek", "take", "take_mutex", "take_recursive", "wait", "clear"}
        BY <1>2 DEF CallOf, Posix!Objects
      <3> QED BY <3>1, WakesAre DEF Conds
    <2> QED BY <2>1, WokenWait DEF Posix!Waiting
  <1>4. Waiters' /\ th' \in [Posix!Everyone -> ThreadType]
    BY <1>1, <1>3, IdleType, WaitersMoved
  <1>5. PosixTypes'
    BY <1>1, <1>4, EffectType DEF PosixTypes, Posix!Everyone, Posix!Limits, Posix!Objects,
       Posix!NoOne
  <1>6. \A v \in Conds : Posix!Waiting(v)' \subseteq Posix!Waiting(v) \ w
    BY <1>1, <1>3, IdleType, MovedWaiting
  <1>7. Ended'
    BY <1>6 DEF PosixInv, Ended, Conds
  <1>8. ASSUME object # "group", swallowed' = FALSE PROVE \A v \in Conds : Behind(v)'
    <2>1. CASE running = TRUE
      BY <1>1, <1>8, <2>1, CountedDone
    <2>2. CASE running = FALSE
      BY <1>7, <2>2 DEF Ended, Behind, Conds
    <2> QED BY <1>2, <2>1, <2>2
  <1>9. Counted'
    BY <1>8 DEF Counted
  <1>10. GroupMet'
    <2> SUFFICES ASSUME object = "group", NEW u \in Posix!Waiting("not_empty")'
                 PROVE  ~Posix!Ready(u, [th[u].call EXCEPT !.add = {}])'
      BY DEF GroupMet
    <2>1. u \in Posix!Waiting("not_empty") \ w
      BY <1>6 DEF Conds
    <2>2. CASE c.name \in {"sync", "set"}
      BY <2>1, <2>2, WakesAre DEF Posix!Broadcast
    <2>3. CASE c.name \in {"wait", "clear"}
      <3>1. bits' \subseteq bits
        BY <2>3 DEF Posix!Effect
      <3>2. u # t /\ u \in Posix!Everyone /\ u \notin w /\ th[u].at = "wait"
        BY <2>1, IdleType DEF Posix!Waiting
      <3>3. th'[u].call = th[u].call
        BY <1>1, <1>3, <3>2, IdleType, MovedSets
      <3>4. th[u].call \in CallType /\ th[u].call.name \in {"wait", "sync"}
        BY <1>1, <3>2, WaitNamesAre DEF PosixTypes, Waiters
      <3> DEFINE d == [th[u].call EXCEPT !.add = {}]
      <3>5. d.add = {} /\ d.name \in {"wait", "sync"}
        BY <3>4 DEF CallType
      <3>6. ~Posix!Ready(u, d)
        BY <1>1, <2>1 DEF GroupMet
      <3>7. ~Posix!Met(d, bits \cup d.add)
        BY <3>5, <3>6, ReadyIs
      <3> HIDE DEF d
      <3>8. ~Posix!Met(d, bits' \cup d.add)
        BY <3>7, <3>1, MetGrows
      <3>9. Posix!Ready(u, [th[u].call EXCEPT !.add = {}])' <=> Posix!Met(d, bits' \cup d.add)
        BY <3>3, <3>5 DEF Posix!Ready, Posix!Met, d
      <3> QED BY <3>8, <3>9
    <2> QED BY <2>2, <2>3 DEF CallOf
  <1> QED BY <1>4, <1>5, <1>7, <1>9, <1>10 DEF PosixInv

(* ... one that is refused or waits ...                                    *)
LEMMA WaitStep ==
    ASSUME PosixInv, UNCHANGED <<object, running, swallowed, count, owner>>,
           NEW t \in Procs, th[t].at = "idle", NEW c \in CallType, CallOf(c), c.name # "dequeue",
           ~Posix!Ready(t, c),
           bits' = bits \cup c.add, c.name # "sync" /\ c.name # "set" => c.add = {},
           NEW mine,
           mine = Posix!Idle \/ \E l \in Posix!Limits : mine = [call |-> c, limit |-> l, at |-> "wait"],
           NEW w \in IF c.name = "sync" THEN Posix!Broadcast("not_empty") ELSE Posix!Nobody,
           th' = Posix!Moved(t, mine, w)
    PROVE  PosixInv'
  <1>1. PosixTypes /\ Waiters /\ Counted /\ GroupMet /\ Ended
    BY DEF PosixInv
  <1>2. object \in Posix!Objects /\ running \in BOOLEAN /\ t \in Posix!Everyone /\ t # Worker
    BY <1>1 DEF PosixTypes, Posix!Everyone
  <1>3. mine \in ThreadType /\ mine.at \in {"idle", "wait"}
        /\ (mine.at = "wait" => mine.call = c)
    BY IdleType DEF At
  <1>4. c.name \in WaitNames(t)
    BY <1>2, ReadyIs, WaitNamesAre DEF CallOf, Posix!Objects
  <1>5. running = TRUE
    <2> SUFFICES ASSUME running = FALSE PROVE FALSE
      BY <1>2
    <2>1. object = "loop"
      BY <1>1 DEF Waiters
    <2>2. c.name = "post"
      BY <2>1 DEF CallOf
    <2> QED BY <2>2, ReadyIs
  <1>6. \A u \in w : u \in Posix!Everyone /\ th[u].at = "wait"
    BY DEF Posix!Broadcast, Posix!Nobody, Posix!Waiting
  <1>7. Waiters' /\ th' \in [Posix!Everyone -> ThreadType]
    <2>1. mine.at \in {"wait", "awake"} => mine.call.name \in WaitNames(t)
      BY <1>3, <1>4
    <2> QED BY <1>1, <1>2, <1>3, <1>6, <2>1, WaitersMoved
  <1>8. PosixTypes'
    <2>1. bits' \in SUBSET Bits
      BY <1>1 DEF PosixTypes, CallType
    <2> QED BY <1>1, <1>7, <2>1 DEF PosixTypes, Posix!Everyone, Posix!Limits, Posix!Objects,
               Posix!NoOne
  <1>9. Ended'
    BY <1>5 DEF Ended
  <1>10. \A v \in Conds :
           /\ Posix!Waiting(v)' = ((Posix!Waiting(v) \ w) \ {t})
                                    \cup (IF mine.at = "wait" /\ Posix!Cond(mine.call) = v THEN {t} ELSE {})
           /\ Awake(v) \subseteq Awake(v)' /\ Awake(v)' \subseteq Posix!Everyone
    BY <1>1, <1>2, <1>3, <1>6, MovedWaiting
  <1>11. Counted'
    <2> SUFFICES ASSUME object # "group", swallowed = FALSE PROVE \A v \in Conds : Behind(v)'
      BY DEF Counted
    <2>1. ASSUME NEW v \in Conds PROVE Posix!Units(v) <= 0 \/ Posix!Waiting(v)' \subseteq Posix!Waiting(v)
      <3>1. CASE mine.at = "wait" /\ Posix!Cond(mine.call) = v
        BY <1>1, <1>3, <1>4, <3>1, NothingThere
      <3>2. CASE ~(mine.at = "wait" /\ Posix!Cond(mine.call) = v)
        BY <3>2, <1>10
      <3> QED BY <3>1, <3>2
    <2> QED BY <1>1, <1>10, <2>1, CountedQuiet
  <1>12. GroupMet'
    <2> SUFFICES ASSUME object = "group", NEW u \in Posix!Waiting("not_empty")'
                 PROVE  ~Posix!Ready(u, [th[u].call EXCEPT !.add = {}])'
      BY DEF GroupMet
    <2>0. c.name \in {"wait", "sync"}
      BY <1>4, WaitNamesAre
    <2>1. CASE u = t
      <3>1. mine.at = "wait"
        BY <2>1, <1>10, <1>2 DEF Conds
      <3>2. th'[u].call = c
        BY <1>1, <1>2, <1>3, <1>6, <2>1, <3>1, MovedSets
      <3> DEFINE d == [c EXCEPT !.add = {}]
      <3>3. d.add = {} /\ d.name = c.name /\ d.mask = c.mask /\ d.all = c.all
        BY DEF CallType
      <3>4. ~Posix!Met(c, bits \cup c.add)
        BY <2>0, ReadyIs
      <3> HIDE DEF d
      <3>5. ~Posix!Met(d, bits')
        BY <3>3, <3>4 DEF Posix!Met
      <3>6. ~Posix!Met(d, bits' \cup d.add)
        BY <3>3, <3>5
      <3>7. Posix!Ready(u, [th[u].call EXCEPT !.add = {}])' <=> Posix!Met(d, bits' \cup d.add)
        BY <3>2, <3>3, <2>0 DEF Posix!Ready, Posix!Met, d
      <3> QED BY <3>6, <3>7
    <2>2. CASE u # t
      <3>1. u \in Posix!Waiting("not_empty") \ w
        BY <2>2, <1>10 DEF Conds
      <3>2. c.name = "wait"
        BY <2>0, <3>1 DEF Posix!Broadcast
      <3>3. bits' = bits
        BY <3>2
      <3>4. u \in Posix!Everyone /\ u \notin w /\ th[u].at = "wait"
        BY <3>1 DEF Posix!Waiting
      <3>5. th'[u].call = th[u].call
        BY <1>1, <1>2, <1>3, <1>6, <2>2, <3>4, MovedSets
      <3>6. ~Posix!Ready(u, [th[u].call EXCEPT !.add = {}])
        BY <1>1, <3>1 DEF GroupMet
      <3>7. th[u].call \in CallType /\ th[u].call.name \in {"wait", "sync"}
        BY <1>1, <3>4, WaitNamesAre DEF PosixTypes, Waiters
      <3> DEFINE d == [th[u].call EXCEPT !.add = {}]
      <3>8. d.name \in {"wait", "sync"}
        BY <3>7 DEF CallType
      <3> HIDE DEF d
      <3>9. ~Posix!Met(d, bits \cup d.add)
        BY <3>6, <3>8, ReadyIs DEF d
      <3>10. Posix!Ready(u, [th[u].call EXCEPT !.add = {}])' <=> Posix!Met(d, bits' \cup d.add)
        BY <3>5, <3>8 DEF Posix!Ready, Posix!Met, d
      <3> QED BY <3>3, <3>9, <3>10
    <2> QED BY <2>1, <2>2
  <1> QED BY <1>7, <1>8, <1>9, <1>11, <1>12 DEF PosixInv

(* ... and the other steps of the threads.                                 *)
LEMMA EnterStep ==
    ASSUME PosixInv, NEW t \in Procs, Posix!Enter(t)
    PROVE  PosixInv'
  <1>1. PICK c \in Posix!Calls, l \in Posix!Limits :
          /\ c.name \in {"give_mutex", "give_recursive"} => owner = t
          /\ IF Posix!Ready(t, c)
             THEN /\ Posix!Effect(t, c)
                  /\ \E w \in Posix!Wakes(c) : th' = Posix!Moved(t, Posix!Idle, w)
             ELSE /\ bits' = bits \cup c.add
                  /\ \E w \in IF c.name = "sync" THEN Posix!Broadcast("not_empty") ELSE Posix!Nobody :
                        th' = Posix!Moved(t, IF l = "zero" THEN Posix!Idle
                                             ELSE [call |-> c, limit |-> l, at |-> "wait"], w)
                  /\ UNCHANGED <<count, owner, depth>>
    BY DEF Posix!Enter, Posix!mutex
  <1>2. th[t].at = "idle" /\ UNCHANGED <<object, running, swallowed>> /\ t # Worker /\ t \in Posix!Everyone
        /\ swallowed' \in BOOLEAN
    BY DEF Posix!Enter, Posix!loop, Posix!Everyone, PosixInv, PosixTypes
  <1>3. c \in CallType /\ CallOf(c) /\ c.name # "dequeue" /\ (c.name # "sync" /\ c.name # "set" => c.add = {})
    BY CallNames DEF PosixInv, PosixTypes, CallOf, Posix!Objects
  <1>4. CASE Posix!Ready(t, c)
    <2>1. PICK w \in Posix!Wakes(c) : th' = Posix!Moved(t, Posix!Idle, w)
      BY <1>1, <1>4
    <2>2. Posix!Effect(t, c)
      BY <1>1, <1>4
    <2>3. object = "group" => c.add = {} \/ c.name \in {"sync", "set"}
      BY <1>3
    <2> QED BY <1>2, <1>3, <1>4, <2>1, <2>2, <2>3, DoneStep
  <1>5. CASE ~Posix!Ready(t, c)
    <2> DEFINE mine == IF l = "zero" THEN Posix!Idle ELSE [call |-> c, limit |-> l, at |-> "wait"]
    <2>1. PICK w \in IF c.name = "sync" THEN Posix!Broadcast("not_empty") ELSE Posix!Nobody :
             th' = Posix!Moved(t, mine, w)
      BY <1>1, <1>5
    <2>2. mine = Posix!Idle \/ \E k \in Posix!Limits : mine = [call |-> c, limit |-> k, at |-> "wait"]
      OBVIOUS
    <2> HIDE DEF mine
    <2>3. bits' = bits \cup c.add /\ UNCHANGED <<count, owner>>
      BY <1>1, <1>5
    <2> QED BY <1>2, <1>3, <1>5, <2>1, <2>2, <2>3, WaitStep
  <1> QED BY <1>4, <1>5

(* A thread that leaves the object as it is.                               *)
LEMMA StandStep ==
    ASSUME PosixInv, UNCHANGED <<object, running, swallowed, count, owner, bits>>,
           NEW t \in Posix!Everyone, NEW mine \in ThreadType,
           th' = Posix!Moved(t, mine, {}),
           mine.at \in {"wait", "awake"} => mine.call.name \in WaitNames(t),
           mine.at = "join" => running = FALSE,
           object # "loop" /\ t = Worker => mine.at = "idle",
           object # "group" => \A v \in Conds :
               \/ Posix!Units(v) <= 0
               \/ /\ mine.at = "wait" => Posix!Cond(mine.call) # v
                  /\ th[t].at = "awake" => Posix!Cond(th[t].call) # v,
           running = FALSE => mine.at # "wait",
           object = "group" /\ mine.at = "wait" => ~Posix!Ready(t, [mine.call EXCEPT !.add = {}])
    PROVE  PosixInv'
  <1>1. PosixTypes /\ Waiters /\ Counted /\ GroupMet /\ Ended
    BY DEF PosixInv
  <1>2. Waiters' /\ th' \in [Posix!Everyone -> ThreadType]
    BY <1>1, WaitersMoved
  <1>3. PosixTypes'
    BY <1>1, <1>2 DEF PosixTypes, Posix!Everyone, Posix!Limits, Posix!Objects, Posix!NoOne
  <1>4. \A v \in Conds :
           /\ Posix!Waiting(v)' = (Posix!Waiting(v) \ {t})
                                    \cup (IF mine.at = "wait" /\ Posix!Cond(mine.call) = v THEN {t} ELSE {})
           /\ Awake(v) \ {t} \subseteq Awake(v)' /\ Awake(v)' \subseteq Posix!Everyone
    BY <1>1, MovedWaiting
  <1>5. Ended'
    BY <1>1, <1>4 DEF Ended, Conds
  <1>6. Counted'
    <2> SUFFICES ASSUME object # "group", swallowed = FALSE PROVE \A v \in Conds : Behind(v)'
      BY DEF Counted
    <2>1. ASSUME NEW v \in Conds
          PROVE  \/ Posix!Units(v) <= 0
                 \/ Posix!Waiting(v)' \subseteq Posix!Waiting(v) /\ Awake(v) \subseteq Awake(v)'
      <3>1. CASE Posix!Units(v) <= 0
        BY <3>1
      <3>2. CASE /\ mine.at = "wait" => Posix!Cond(mine.call) # v
                 /\ th[t].at = "awake" => Posix!Cond(th[t].call) # v
        <4>1. t \notin Awake(v)
          BY <3>2 DEF Awake
        <4>2. Posix!Waiting(v)' \subseteq Posix!Waiting(v)
          BY <1>4, <3>2
        <4> QED BY <1>4, <4>1, <4>2
      <3> QED BY <3>1, <3>2
    <2> QED BY <1>1, <1>4, <2>1, CountedQuiet
  <1>7. GroupMet'
    <2> SUFFICES ASSUME object = "group", NEW u \in Posix!Waiting("not_empty")'
                 PROVE  ~Posix!Ready(u, [th[u].call EXCEPT !.add = {}])'
      BY DEF GroupMet
    <2>1. u \in Posix!Everyone
      BY DEF Posix!Waiting, Posix!Everyone
    <2>2. CASE u = t
      <3>1. mine.at = "wait" /\ th'[t].call = mine.call
        BY <1>1, <1>4, <2>2, MovedSets DEF Conds
      <3> QED BY <2>2, <3>1 DEF Posix!Ready, Posix!Met
    <2>3. CASE u # t
      <3>1. u \in Posix!Waiting("not_empty")
        BY <1>4, <2>3 DEF Conds
      <3>2. th'[u].call = th[u].call
        BY <1>1, <2>1, <2>3, MovedSets
      <3>3. ~Posix!Ready(u, [th[u].call EXCEPT !.add = {}])
        BY <1>1, <3>1 DEF GroupMet
      <3> QED BY <3>2, <3>3 DEF Posix!Ready, Posix!Met
    <2> QED BY <2>2, <2>3
  <1> QED BY <1>2, <1>3, <1>5, <1>6, <1>7 DEF PosixInv

(* One thread that changes on its own is moved,                            *)
LEMMA SetThread ==
    ASSUME PosixTypes, NEW t \in Posix!Everyone, NEW r, th' = [th EXCEPT ![t] = r]
    PROVE  th' = Posix!Moved(t, r, {})
  BY DEF PosixTypes, Posix!Moved

(* also when only its place changes.                                       *)
LEMMA SetAt ==
    ASSUME PosixTypes, NEW t \in Posix!Everyone, NEW a \in At, th' = [th EXCEPT ![t].at = a]
    PROVE  LET r == [th[t] EXCEPT !.at = a]
           IN  /\ th' = Posix!Moved(t, r, {}) /\ r \in ThreadType
               /\ r.call = th[t].call /\ r.at = a
  <1>1. th' = [th EXCEPT ![t] = [th[t] EXCEPT !.at = a]]
    OBVIOUS
  <1>2. th' = Posix!Moved(t, [th[t] EXCEPT !.at = a], {})
    BY <1>1, SetThread
  <1>3. th[t] \in ThreadType
    BY DEF PosixTypes
  <1> QED BY <1>2, <1>3

(* A thread that was woken goes on or waits again.                         *)
LEMMA ResumeStep ==
    ASSUME PosixInv, NEW t \in Procs, Posix!Resume(t)
    PROVE  PosixInv'
  <1> DEFINE c == th[t].call
  <1>1. /\ th[t].at = "awake" /\ UNCHANGED <<object, running>>
        /\ IF Posix!Ready(t, c)
           THEN /\ Posix!Effect(t, [c EXCEPT !.add = {}])
                /\ \E w \in IF c.name = "sync" THEN Posix!Nobody ELSE Posix!Wakes(c) :
                      th' = Posix!Moved(t, Posix!Idle, w)
                /\ swallowed' = (swallowed \/ c.name = "peek")
           ELSE /\ th' = [th EXCEPT ![t].at = "wait"]
                /\ UNCHANGED <<count, owner, bits, swallowed>>
    BY DEF Posix!Resume, Posix!loop, Posix!mutex
  <1>2. t \in Posix!Everyone /\ t # Worker /\ PosixTypes /\ Waiters /\ object \in Posix!Objects /\ running \in BOOLEAN
    BY DEF PosixInv, PosixTypes, Posix!Everyone
  <1>3. c \in CallType /\ c.name \in WaitNames(t)
    BY <1>1, <1>2 DEF PosixTypes, Waiters
  <1> DEFINE d == [c EXCEPT !.add = {}]
  <1> HIDE DEF c
  <1>4. CallOf(c) /\ c.name \notin {"give", "give_mutex", "give_recursive", "set", "dequeue"}
    BY <1>2, <1>3, WaitNamesAre DEF CallOf, Posix!Objects
  <1>5. /\ d \in CallType /\ CallOf(d) /\ d.name = c.name /\ d.add = {} /\ Posix!Cond(d) = Posix!Cond(c)
        /\ Posix!Wakes(d) = Posix!Wakes(c)
        /\ object # "group" => Posix!Ready(t, d) = Posix!Ready(t, c)
        /\ object = "group" /\ Posix!Ready(t, d) => Posix!Ready(t, c)
    BY <1>2, <1>3, <1>4, DropAdd
  <1> HIDE DEF d
  <1>6. CASE Posix!Ready(t, c) /\ object # "group"
    <2>1. Posix!Ready(t, d)
      BY <1>5, <1>6
    <2>2. c.name # "sync"
      BY <1>2, <1>3, <1>6, WaitNamesAre DEF Posix!Objects
    <2>3. PICK w \in Posix!Wakes(d) : th' = Posix!Moved(t, Posix!Idle, w)
      BY <1>1, <1>5, <1>6, <2>2
    <2>4. Posix!Effect(t, d)
      BY <1>1, <1>6 DEF d
    <2>5. (swallowed' = FALSE => swallowed = FALSE) /\ (d.name = "peek" => swallowed' = TRUE)
      <3>1. swallowed' = (swallowed \/ c.name = "peek")
        BY <1>1, <1>6
      <3>2. swallowed \in BOOLEAN
        BY <1>2 DEF PosixTypes
      <3>3. d.name = "peek" => swallowed' = TRUE
        BY <3>1, <1>5
      <3>4. swallowed' = FALSE => swallowed = FALSE
        BY <3>1, <3>2
      <3> QED BY <3>3, <3>4
    <2>6. Posix!Cond(th[t].call) = Posix!Cond(d)
      BY <1>5 DEF c
    <2>7. swallowed' \in BOOLEAN
      BY <1>1, <1>6
    <2> QED BY <1>1, <1>2, <1>4, <1>5, <1>6, <2>1, <2>3, <2>4, <2>5, <2>6, <2>7, DoneStep
  <1>7. CASE Posix!Ready(t, c) /\ object = "group"
    <2>1. c.name \in {"wait", "sync"}
      BY <1>3, <1>7, WaitNamesAre
    <2>2. th' = Posix!Moved(t, Posix!Idle, {})
      BY <1>1, <1>7, <2>1, WakesAre DEF Posix!Nobody
    <2>3. bits' \subseteq bits /\ UNCHANGED <<count, owner>>
      <3>1. Posix!Effect(t, d)
        BY <1>1, <1>7 DEF d
      <3>2. d.name \in Steady /\ d.name \notin {"take_mutex", "take_recursive", "give_mutex", "give_recursive"}
        BY <1>5, <2>1 DEF Steady
      <3>3. count' = count /\ owner' = owner
        BY <3>1, <3>2, CountAfter, OwnerAfter
      <3>4. bits' \subseteq bits
        BY <3>1, <1>5 DEF Posix!Effect
      <3> QED BY <3>3, <3>4
    <2>4. PosixTypes /\ Waiters /\ Counted /\ GroupMet /\ Ended
      BY DEF PosixInv
    <2>5. Waiters' /\ th' \in [Posix!Everyone -> ThreadType]
      BY <1>1, <1>2, <2>2, IdleType, WaitersMoved
    <2>6. PosixTypes'
      <3>1. bits' \in SUBSET Bits
        BY <2>3, <2>4 DEF PosixTypes
      <3> QED BY <1>1, <2>3, <2>4, <2>5, <3>1 DEF PosixTypes, Posix!Everyone, Posix!Limits,
                 Posix!Objects, Posix!NoOne
    <2>7. \A v \in Conds : Posix!Waiting(v)' \subseteq Posix!Waiting(v) \ {t}
      BY <1>2, <2>2, IdleType, MovedWaiting
    <2>8. Ended'
      BY <1>1, <2>4, <2>7 DEF Ended, Conds
    <2>9. GroupMet'
      <3> SUFFICES ASSUME NEW u \in Posix!Waiting("not_empty")'
                   PROVE  ~Posix!Ready(u, [th[u].call EXCEPT !.add = {}])'
        BY DEF GroupMet
      <3>1. u \in Posix!Waiting("not_empty") /\ u # t
        BY <2>7 DEF Conds
      <3>2. u \in Posix!Everyone /\ th[u].at = "wait"
        BY <3>1 DEF Posix!Waiting
      <3>3. th'[u].call = th[u].call
        BY <1>2, <2>2, <3>1, <3>2, IdleType, MovedSets
      <3>4. th[u].call \in CallType /\ th[u].call.name \in {"wait", "sync"}
        BY <1>7, <2>4, <3>2, WaitNamesAre DEF PosixTypes, Waiters
      <3> DEFINE g == [th[u].call EXCEPT !.add = {}]
      <3>5. g.name \in {"wait", "sync"}
        BY <3>4 DEF CallType
      <3>6. ~Posix!Ready(u, g)
        BY <1>7, <2>4, <3>1 DEF GroupMet
      <3>7. Posix!Ready(u, [th[u].call EXCEPT !.add = {}])' <=> Posix!Met(g, bits' \cup g.add)
        BY <3>3, <3>5 DEF Posix!Ready, Posix!Met
      <3> HIDE DEF g
      <3>8. ~Posix!Met(g, bits \cup g.add)
        BY <3>5, <3>6, ReadyIs
      <3>9. ~Posix!Met(g, bits' \cup g.add)
        BY <3>8, <2>3, MetGrows
      <3> QED BY <3>7, <3>9
    <2>10. Counted'
      BY <1>1, <1>7 DEF Counted
    <2> QED BY <2>5, <2>6, <2>8, <2>9, <2>10 DEF PosixInv
  <1>8. CASE ~Posix!Ready(t, c)
    <2> DEFINE r == [th[t] EXCEPT !.at = "wait"]
    <2>1. th' = Posix!Moved(t, r, {}) /\ r \in ThreadType
          /\ r.call = c /\ r.at = "wait"
      BY <1>1, <1>2, <1>8, SetAt DEF At, c
    <2> HIDE DEF r
    <2>2. object # "group" => Posix!Units(Posix!Cond(c)) <= 0
      BY <1>2, <1>3, <1>4, <1>8, NothingThere
    <2>3. object = "group" => ~Posix!Ready(t, [r.call EXCEPT !.add = {}])
      BY <1>5, <1>8, <2>1 DEF d
    <2>4. running # FALSE
      <3> SUFFICES ASSUME running = FALSE PROVE FALSE
        OBVIOUS
      <3>1. object = "loop"
        BY <1>2 DEF Waiters
      <3>2. c.name = "post"
        BY <3>1, <1>2, <1>3, WaitNamesAre
      <3> QED BY <3>2, <1>8, ReadyIs
    <2>5. object # "group" => \A v \in Conds :
               \/ Posix!Units(v) <= 0
               \/ /\ r.at = "wait" => Posix!Cond(r.call) # v
                  /\ th[t].at = "awake" => Posix!Cond(th[t].call) # v
      BY <2>1, <2>2 DEF c
    <2>6. r.at \in {"wait", "awake"} => r.call.name \in WaitNames(t)
      BY <1>3, <2>1
    <2>7. UNCHANGED <<object, running, swallowed, count, owner, bits>>
      BY <1>1, <1>8
    <2> QED BY <1>2, <2>1, <2>3, <2>4, <2>5, <2>6, <2>7, StandStep
  <1> QED BY <1>6, <1>7, <1>8

(* It gives up.                                                            *)
LEMMA TimeOutStep ==
    ASSUME PosixInv, NEW t \in Procs, Posix!TimeOut(t)
    PROVE  PosixInv'
  <1>1. th[t].at = "wait" /\ th' = [th EXCEPT ![t] = Posix!Idle]
        /\ UNCHANGED <<object, running, swallowed, count, owner, bits>>
    BY DEF Posix!TimeOut, Posix!loop, Posix!mutex
  <1>2. t \in Posix!Everyone /\ PosixTypes
    BY DEF PosixInv, Posix!Everyone
  <1>3. th' = Posix!Moved(t, Posix!Idle, {})
    BY <1>1, <1>2, SetThread
  <1> QED BY <1>1, <1>2, <1>3, IdleType, StandStep

(* It wakes for no reason.                                                 *)
LEMMA SpuriousStep ==
    ASSUME PosixInv, NEW t \in Posix!Everyone, Posix!Spurious(t)
    PROVE  PosixInv'
  <1> DEFINE r == [th[t] EXCEPT !.at = "awake"]
  <1>1. th[t].at = "wait" /\ th' = [th EXCEPT ![t].at = "awake"]
        /\ UNCHANGED <<object, running, swallowed, count, owner, bits>>
    BY DEF Posix!Spurious, Posix!loop, Posix!mutex
  <1>2. PosixTypes /\ Waiters
    BY DEF PosixInv
  <1>3. th' = Posix!Moved(t, r, {}) /\ r \in ThreadType
          /\ r.call = th[t].call /\ r.at = "awake"
    BY <1>1, <1>2, SetAt DEF At
  <1>4. th[t].call.name \in WaitNames(t)
    BY <1>1, <1>2 DEF Waiters
  <1>5. ~(object # "loop" /\ t = Worker)
    BY <1>1, <1>2 DEF Waiters
  <1> HIDE DEF r
  <1> QED BY <1>1, <1>3, <1>4, <1>5, StandStep

(* The thread of the loop takes an event, waits, or leaves.                *)
LEMMA DequeueStep ==
    ASSUME PosixInv, Posix!Dequeue
    PROVE  PosixInv'
  <1>1. /\ object = "loop" /\ th[Worker].at \in {"idle", "awake"} /\ UNCHANGED <<object, running, swallowed>>
        /\ \/ /\ count > 0 /\ Posix!Effect(Worker, Posix!Call("dequeue"))
              /\ \E w \in Posix!Wakes(Posix!Call("dequeue")) : th' = Posix!Moved(Worker, Posix!Idle, w)
           \/ /\ count = 0 /\ UNCHANGED <<count, owner, bits>>
              /\ th' = [th EXCEPT ![Worker] = [call |-> Posix!Call("dequeue"), limit |-> "forever",
                                               at |-> IF running THEN "wait" ELSE "gone"]]
    BY DEF Posix!Dequeue, Posix!mutex
  <1>2. PosixTypes /\ Waiters /\ Worker \in Posix!Everyone
    BY DEF PosixInv, Posix!Everyone
  <1> DEFINE c == Posix!Call("dequeue")
  <1>3. c \in CallType /\ c.name = "dequeue" /\ c.add = {} /\ CallOf(c) /\ Posix!Cond(c) = "not_empty"
    BY <1>1 DEF Posix!Call, CallType, Names, CallOf, Posix!Cond
  <1>4. th[Worker].at = "awake" => Posix!Cond(th[Worker].call) = "not_empty"
    <2>1. th[Worker].at = "awake" => th[Worker].call.name = "dequeue"
      BY <1>1, <1>2, WaitNamesAre DEF Waiters
    <2> QED BY <2>1 DEF Posix!Cond
  <1> HIDE DEF c
  <1>5. CASE count > 0
    <2>1. Posix!Effect(Worker, c)
      BY <1>1, <1>5 DEF c
    <2>2. PICK w \in Posix!Wakes(c) : th' = Posix!Moved(Worker, Posix!Idle, w)
      BY <1>1, <1>5 DEF c
    <2>3. Posix!Ready(Worker, c)
      BY <1>3, <1>5, ReadyIs
    <2>4. swallowed' \in BOOLEAN
      BY <1>1, <1>2 DEF PosixTypes
    <2> QED BY <1>1, <1>2, <1>3, <1>4, <1>5, <2>1, <2>2, <2>3, <2>4, DoneStep
  <1>6. CASE count = 0
    <2> DEFINE r == [call |-> c, limit |-> "forever", at |-> IF running THEN "wait" ELSE "gone"]
    <2>1. UNCHANGED <<count, owner, bits>> /\ th' = [th EXCEPT ![Worker] = r]
      BY <1>1, <1>6 DEF c
    <2>2. th' = Posix!Moved(Worker, r, {})
      BY <1>2, <2>1, SetThread
    <2>3. r \in ThreadType
      BY <1>3 DEF Posix!Limits, At
    <2>4. r.call = c /\ r.at \in {"wait", "gone"} /\ (running = FALSE => r.at # "wait")
      OBVIOUS
    <2> HIDE DEF r
    <2>5. \A v \in Conds :
               \/ Posix!Units(v) <= 0
               \/ /\ r.at = "wait" => Posix!Cond(r.call) # v
                  /\ th[Worker].at = "awake" => Posix!Cond(th[Worker].call) # v
      <3>1. Posix!Units("not_empty") <= 0
        BY <1>1, <1>2, <1>6, UnitsAre DEF PosixTypes
      <3> QED BY <1>3, <1>4, <2>4, <3>1 DEF Conds
    <2>6. r.at \in {"wait", "awake"} => r.call.name \in WaitNames(Worker)
      BY <1>1, <1>3, <2>4, WaitNamesAre
    <2> QED BY <1>1, <1>2, <2>1, <2>2, <2>3, <2>4, <2>5, <2>6, StandStep
  <1> QED BY <1>1, <1>5, <1>6

(* The loop is told to end: everybody is woken.                            *)
LEMMA DeleteStep ==
    ASSUME PosixInv, NEW t \in Procs, Posix!Delete(t)
    PROVE  PosixInv'
  <1> DEFINE w    == Posix!Waiting("not_empty") \cup Posix!Waiting("not_full")
             mine == [call |-> Posix!Call("delete"), limit |-> "forever", at |-> "join"]
  <1>1. /\ object = "loop" /\ th[t].at = "idle" /\ running' = FALSE
        /\ th' = Posix!Moved(t, mine, w) /\ UNCHANGED <<object, count, owner, bits, swallowed>>
    BY DEF Posix!Delete, Posix!mutex
  <1>2. PosixTypes /\ Waiters /\ t \in Posix!Everyone /\ t # Worker
    BY DEF PosixInv, Posix!Everyone
  <1>3. mine \in ThreadType /\ mine.at = "join"
    BY DEF CallType, Posix!Call, Names, Posix!Limits, At
  <1>4. \A u \in w : u \in Posix!Everyone /\ th[u].at = "wait"
    BY DEF Posix!Waiting
  <1> HIDE DEF mine
  <1> DEFINE H == th'
  <1>5. /\ H \in [Posix!Everyone -> ThreadType]
        /\ H[t] = mine
        /\ \A u \in Posix!Everyone \ {t} :
              /\ H[u].call = th[u].call /\ H[u].limit = th[u].limit
              /\ H[u].at = IF u \in w THEN "awake" ELSE th[u].at
    BY <1>1, <1>2, <1>3, <1>4, MovedSets
  <1>6. \A u : WaitNames(u)' = WaitNames(u)
    BY <1>1 DEF WaitNames
  <1>7. \A v \in Conds : Posix!Waiting(v)' = {}
    <2>1. \A v \in Conds : Posix!Waiting(v)' \subseteq Posix!Waiting(v) \ w
      <3>1. \A v \in Conds : Posix!Waiting(v)' = ((Posix!Waiting(v) \ w) \ {t})
                                          \cup (IF mine.at = "wait" /\ Posix!Cond(mine.call) = v THEN {t} ELSE {})
        BY <1>1, <1>2, <1>3, <1>4, MovedWaiting
      <3> QED BY <3>1, <1>3
    <2> QED BY <2>1 DEF Conds
  <1> HIDE DEF H
  <1>8. Waiters'
    <2>1. /\ \A u \in Posix!Everyone : H[u].at \in {"wait", "awake"} => H[u].call.name \in WaitNames(u)
      BY <1>2, <1>3, <1>4, <1>5 DEF Waiters
    <2> QED BY <1>1, <1>6, <2>1 DEF Waiters, H, Posix!Everyone
  <1>9. PosixTypes'
    BY <1>1, <1>2, <1>5 DEF PosixTypes, H, Posix!Everyone, Posix!Limits, Posix!Objects, Posix!NoOne
  <1>10. Counted' /\ GroupMet' /\ Ended'
    BY <1>1, <1>7 DEF Counted, GroupMet, Ended, Behind, Conds
  <1> QED BY <1>8, <1>9, <1>10 DEF PosixInv

(* The loop is freed.                                                      *)
LEMMA FreeStep ==
    ASSUME PosixInv, NEW t \in Procs, Posix!Free(t)
    PROVE  PosixInv'
  <1>1. th[t].at = "join" /\ count' = 0 /\ th' = [th EXCEPT ![t] = Posix!Idle]
        /\ UNCHANGED <<object, owner, bits, running, swallowed>>
    BY DEF Posix!Free, Posix!mutex
  <1>2. PosixTypes /\ Waiters /\ Ended /\ t \in Posix!Everyone /\ t # Worker
    BY DEF PosixInv, Posix!Everyone
  <1>3. running = FALSE /\ object = "loop"
    BY <1>1, <1>2 DEF Waiters
  <1>4. th' = Posix!Moved(t, Posix!Idle, {})
    BY <1>1, <1>2, SetThread
  <1>5. Waiters' /\ th' \in [Posix!Everyone -> ThreadType]
    BY <1>1, <1>2, <1>4, IdleType, WaitersMoved
  <1>6. PosixTypes'
    BY <1>1, <1>2, <1>5 DEF PosixTypes, Posix!Everyone, Posix!Limits, Posix!Objects, Posix!NoOne
  <1>7. \A v \in Conds : Posix!Waiting(v)' \subseteq Posix!Waiting(v)
    BY <1>2, <1>4, IdleType, MovedWaiting
  <1>8. Counted' /\ GroupMet' /\ Ended'
    BY <1>1, <1>2, <1>3, <1>7 DEF Counted, GroupMet, Ended, Behind, Conds
  <1> QED BY <1>5, <1>6, <1>8 DEF PosixInv

(* The initial state, and every step.                                      *)
LEMMA PosixInit == Posix!Init => PosixInv
  <1> SUFFICES ASSUME Posix!Init PROVE PosixInv
    OBVIOUS
  <1>1. /\ object \in Posix!Objects /\ th = [t \in Posix!Everyone |-> Posix!Idle] /\ count = 0
        /\ owner = Posix!NoOne /\ bits = {} /\ running = TRUE /\ swallowed = FALSE
    BY DEF Posix!Init
  <1>2. \A t \in Posix!Everyone : th[t] = Posix!Idle
    BY <1>1
  <1>3. PosixTypes
    <2>1. th \in [Posix!Everyone -> ThreadType]
      BY <1>1, IdleType
    <2>2. count \in 0..Capacity
      BY <1>1
    <2>3. owner \in Procs \cup {Posix!NoOne} /\ bits \in SUBSET Bits
      BY <1>1
    <2>4. running \in BOOLEAN /\ swallowed \in BOOLEAN
      BY <1>1
    <2> QED BY <1>1, <2>1, <2>2, <2>3, <2>4 DEF PosixTypes
  <1>4. Waiters
    BY <1>1, <1>2, IdleType DEF Waiters, Posix!Everyone
  <1>5. \A v : Posix!Waiting(v) = {}
    BY <1>2, IdleType DEF Posix!Waiting
  <1> QED BY <1>1, <1>3, <1>4, <1>5 DEF PosixInv, Counted, Behind, GroupMet, Ended

(* Every step.                                                             *)
LEMMA PosixStep == PosixInv /\ [Posix!Next]_(Posix!vars) => PosixInv'
  <1> SUFFICES ASSUME PosixInv, [Posix!Next]_(Posix!vars) PROVE PosixInv'
    OBVIOUS
  <1>1. ASSUME UNCHANGED <<object, th, count, owner, bits, running, swallowed>> PROVE PosixInv'
    <2>1. PosixTypes'
      BY <1>1 DEF PosixInv, PosixTypes, Posix!Everyone, Posix!Limits, Posix!Objects, Posix!NoOne
    <2>2. \A t : WaitNames(t)' = WaitNames(t)
      BY <1>1 DEF WaitNames
    <2>3. Waiters'
      BY <1>1, <2>2 DEF PosixInv, Waiters, Posix!Everyone
    <2>4. \A v : /\ Posix!Waiting(v)' = Posix!Waiting(v) /\ Awake(v)' = Awake(v)
                 /\ Posix!Units(v)' = Posix!Units(v)
      BY <1>1 DEF Posix!Waiting, Awake, Posix!Units, Posix!Everyone, Posix!Cond
    <2>5. \A v : Behind(v)' = Behind(v)
      BY <2>4 DEF Behind
    <2>6. Counted'
      BY <1>1, <2>5 DEF PosixInv, Counted
    <2>7. \A u, c : Posix!Ready(u, c)' = Posix!Ready(u, c)
      BY <1>1 DEF Posix!Ready, Posix!Met
    <2>8. GroupMet'
      BY <1>1, <2>4, <2>7 DEF PosixInv, GroupMet
    <2>9. Ended'
      BY <1>1, <2>4 DEF PosixInv, Ended
    <2> QED BY <2>1, <2>3, <2>6, <2>8, <2>9 DEF PosixInv
  <1>2. ASSUME NEW t \in Procs, NEW h \in Handlers, Posix!Register(t, h) PROVE PosixInv'
    BY <1>1, <1>2 DEF Posix!Register, Posix!mutex
  <1>3. ASSUME Posix!Handle PROVE PosixInv'
    BY <1>1, <1>3 DEF Posix!Handle, Posix!mutex
  <1>4. ASSUME UNCHANGED Posix!vars PROVE PosixInv'
    BY <1>1, <1>4 DEF Posix!vars, Posix!mutex, Posix!loop
  <1> QED BY <1>2, <1>3, <1>4, EnterStep, ResumeStep, TimeOutStep, SpuriousStep, DequeueStep,
             DeleteStep, FreeStep
          DEF Posix!Next

(* No wake-up of the POSIX primitives is lost (queue_posix.c,              *)
(* semaphore_posix.c, event_group_posix.c, event_loop_posix.c): a thread   *)
(* that waits for what is there is behind as many woken threads as there   *)
(* is to take, one that waits for bits that are set has been woken, and    *)
(* nobody waits in a loop that ends.                                       *)
THEOREM WakeUpSafety == Posix!Spec => []NoLostWakeup
  <1>1. PosixInv => NoLostWakeup
    <2> SUFFICES ASSUME PosixInv PROVE NoLostWakeup
      OBVIOUS
    <2>1. ASSUME object # "group" /\ ~swallowed, NEW v \in {"not_empty", "not_full"}
          PROVE  Posix!Waiting(v) = {} \/ Posix!Cardinality({u \in Posix!Everyone : th[u].at = "awake" /\ Posix!Cond(th[u].call) = v})
                                            >= Posix!Units(v)
      <3>1. Behind(v)
        BY <2>1 DEF PosixInv, PosixTypes, Counted, Conds
      <3> QED BY <3>1, SameCardinality DEF Behind, Awake
    <2>2. object = "group" => \A u \in Posix!Waiting("not_empty") : ~Posix!Ready(u, [th[u].call EXCEPT !.add = {}])
      BY DEF PosixInv, GroupMet
    <2>3. object = "loop" /\ ~running => Posix!Waiting("not_empty") \cup Posix!Waiting("not_full") = {}
      BY DEF PosixInv, PosixTypes, Ended
    <2> QED BY <2>1, <2>2, <2>3 DEF NoLostWakeup, Posix!NoLostWakeup
  <1> QED BY <1>1, PosixInit, PosixStep, PTL DEF Posix!Spec

-----------------------------------------------------------------------------
(* The timer chain.                                                        *)
USE DelaysAssumption, TicksAssumption, LimitsAssumption

(* The dispatch task is never so late that an expiry overtakes the next.   *)
InTime == total > 2 * MaxLate + Slack + Skew

(* How many runs of the task are settled or decided.                       *)
Served == runs + step.run

(* The types, and that a one-tick delay is the least.                      *)
ChainTypes ==
    /\ tick \in Nat /\ begun = Skew /\ begun <= tick
    /\ clock \in Nat /\ clock <= tick /\ segment \in Nat /\ segment <= clock
    /\ periodic \in BOOLEAN /\ total \in Nat \ {0}
    /\ deadline \in Nat /\ total <= deadline /\ deadline <= begun + total
    /\ period \in Nat \ {0} /\ due \in Nat /\ armed \in BOOLEAN /\ (armed => tick <= due)
    /\ fires \in Nat /\ fires <= CatchUpMax /\ stage \in {"wait", "arm", "run"}
    /\ step \in [run : Nat, arm : Nat]
    /\ since \in Nat /\ since <= tick /\ runs \in Nat
    /\ stage = "wait" => step = Idle
    /\ stage = "arm" => step.arm > 0

(* An expiry is handled within MaxLate ticks, on a reading of its time.    *)
Window ==
    /\ Dispatching => tick <= since + MaxLate
    /\ stage # "wait" => since <= clock + Skew

(* A one-shot task is armed, due or served, one of the three.              *)
OneShot == ~periodic =>
    /\ armed => fires = 0 /\ Served = 0 /\ due <= begun + total + Skew + MaxLate
    /\ fires <= 1 /\ (fires = 1 => Served = 0) /\ Served <= 1
    /\ stage = "arm" => ~armed /\ fires = 0 /\ Served = 0 /\ step.arm <= deadline - clock
    /\ Served = 0 => armed \/ fires = 1 \/ stage = "arm"
    /\ Served = 1 => begun + total <= tick + Slack + Skew
    /\ total <= MaxTicks => /\ stage # "arm" /\ (armed => due = begun + total)
                            /\ fires = 1 => begun + total <= tick

(* A period the timer counts in one go: expiries lie on the grid.          *)
ShortPeriod == periodic /\ total <= MaxTicks =>
    /\ armed /\ period = total /\ stage # "arm" /\ begun + total <= due /\ due <= tick + total
    /\ (Served + fires) * total <= due - total - begun
    /\ InTime =>
        /\ (Served + fires) * total = due - total - begun
        /\ fires <= 1
        /\ fires = 1 => since + total <= due + MaxLate
        /\ fires = 1 /\ stage # "wait" => since + total <= due

(* The boundary after reading t, counted from the deadline.                *)
Ahead(t) == Boundary(deadline, total, t + Slack)

(* A boundary before which every period is served.                         *)
Covered(b) == \E n \in Nat : b = deadline + n * total /\ n <= Served

(* A period in segments: what lies before the boundary is served.          *)
LongPeriod == periodic /\ total > MaxTicks /\ InTime =>
    /\ armed
    /\ stage # "arm" =>
        /\ Covered(Ahead(segment))
        /\ fires = 0 => due <= Ahead(segment) + Skew + MaxLate
        /\ stage = "wait" /\ fires > 0 => since <= Ahead(segment) + Skew + MaxLate
    /\ stage = "arm" => Covered(Ahead(clock)) /\ step.arm = Clamp(Ahead(clock) - clock)
    /\ stage = "run" => segment = clock

(* The inductive invariant of the timer chain.                             *)
ChainInv == ChainTypes /\ Window /\ OneShot /\ ShortPeriod /\ LongPeriod

(* The maximum of two numbers.                                             *)
LEMMA MaxOf == ASSUME NEW a \in Int, NEW b \in Int PROVE Max({a, b}) = IF a >= b THEN a ELSE b
  BY DEF Max

(* The minimum of two numbers.                                             *)
LEMMA MinOf == ASSUME NEW a \in Int, NEW b \in Int PROVE Min({a, b}) = IF a <= b THEN a ELSE b
  BY DEF Min

(* What a quotient is.                                                     *)
LEMMA DivFacts ==
    ASSUME NEW a \in Nat, NEW d \in Nat \ {0}
    PROVE  a \div d \in Nat /\ (a \div d) * d <= a /\ a < (a \div d) * d + d
  OBVIOUS

(* Comparing multiples.                                                    *)
LEMMA ProductOrder ==
    ASSUME NEW a \in Nat, NEW b \in Nat, NEW d \in Nat \ {0}, a * d < b * d + d
    PROVE  a <= b
  OBVIOUS

(* More of the same is no less.                                            *)
LEMMA ProductGrows ==
    ASSUME NEW a \in Nat, NEW b \in Nat, a <= b, NEW d \in Nat
    PROVE  a * d <= b * d
  OBVIOUS

(* One more of the same.                                                   *)
LEMMA ProductStep ==
    ASSUME NEW a \in Nat, NEW d \in Nat
    PROVE  a * d \in Nat /\ (a + 1) * d = a * d + d
  OBVIOUS

(* A clamped period is one tick at least and exact where it can be.        *)
LEMMA ClampFacts ==
    ASSUME NEW x \in Int
    PROVE  /\ Clamp(x) \in Nat \ {0} /\ Clamp(x) <= MaxTicks
           /\ 1 <= x => Clamp(x) <= x
           /\ 1 <= x /\ x <= MaxTicks => Clamp(x) = x
  <1>1. Min({x, MaxTicks}) = IF x <= MaxTicks THEN x ELSE MaxTicks
    BY MinOf
  <1>2. Clamp(x) = IF 1 >= Min({x, MaxTicks}) THEN 1 ELSE Min({x, MaxTicks})
    BY <1>1, MaxOf DEF Clamp
  <1> QED BY <1>1, <1>2

(* Every delay takes a tick at least.                                      *)
LEMMA SplitFacts == \A ms \in Delays : SplitDelay(ms) \in Nat \ {0}
  <1> SUFFICES ASSUME NEW ms \in Delays PROVE SplitDelay(ms) \in Nat \ {0}
    OBVIOUS
  <1>1. ms * TickRate \in Nat
    OBVIOUS
  <1>2. (ms * TickRate) \div 1000 \in Nat
    BY <1>1
  <1> QED BY <1>2, MaxOf DEF SplitDelay

(* The boundary is the first one after the reading.                        *)
LEMMA BoundaryFacts ==
    ASSUME ChainTypes, NEW x \in Nat
    PROVE  \E n \in Nat : /\ Boundary(deadline, total, x) = deadline + n * total
                          /\ x < deadline + n * total /\ n * total \in Nat
                          /\ n = 0 \/ deadline + n * total <= x + total
  <1> USE DEF ChainTypes
  <1>1. CASE x < deadline
    <2>1. Boundary(deadline, total, x) = deadline + 0 * total /\ 0 * total = 0
      BY <1>1 DEF Boundary
    <2> QED BY <1>1, <2>1
  <1>2. CASE ~(x < deadline)
    <2> DEFINE q == (x - deadline) \div total
    <2>1. x - deadline \in Nat
      BY <1>2
    <2>2. q \in Nat /\ q * total <= x - deadline /\ x - deadline < q * total + total
      BY <2>1, DivFacts
    <2>3. Boundary(deadline, total, x) = deadline + (q + 1) * total
      BY <1>2 DEF Boundary
    <2> HIDE DEF q
    <2>4. (q + 1) * total = q * total + total /\ q * total \in Nat
      BY <2>2, ProductStep
    <2>5. x < deadline + (q + 1) * total /\ deadline + (q + 1) * total <= x + total
      BY <2>1, <2>2, <2>4
    <2>6. q + 1 \in Nat /\ (q + 1) * total \in Nat
      BY <2>2, <2>4
    <2> QED BY <2>3, <2>5, <2>6
  <1> QED BY <1>1, <1>2

(* What the boundary aimed at is.                                          *)
LEMMA TargetFacts ==
    ASSUME ChainTypes
    PROVE  \E n \in Nat : /\ n * total \in Nat /\ Target(clock) = deadline + n * total
                          /\ ~periodic => n = 0
                          /\ periodic => /\ segment < deadline + n * total
                                         /\ n = 0 \/ deadline + n * total <= segment + total
  <1>1. CASE periodic
    <2>1. segment \in Nat /\ Target(clock) = Boundary(deadline, total, segment)
      BY <1>1 DEF Target, ChainTypes
    <2> QED BY <1>1, <2>1, BoundaryFacts
  <1>2. CASE ~periodic
    <2>1. Target(clock) = deadline + 0 * total /\ 0 * total = 0
      BY <1>2 DEF Target, ChainTypes
    <2> QED BY <1>2, <2>1
  <1> QED BY <1>1, <1>2

(* What a step of the chain decides at reading now.                        *)
LEMMA StepFacts ==
    ASSUME ChainTypes, NEW now \in Nat
    PROVE  /\ Step(now) \in [run : Nat, arm : Nat]
           /\ total <= MaxTicks =>
                Step(now).arm = 0 /\ Step(now).run = IF periodic THEN fires ELSE 1
           /\ total > MaxTicks /\ ~periodic =>
                /\ deadline <= now + Slack => Step(now).run = 1 /\ Step(now).arm = 0
                /\ deadline > now + Slack =>
                     /\ Step(now).run = 0 /\ Step(now).arm > 0 /\ Step(now).arm <= deadline - now
           /\ total > MaxTicks /\ periodic =>
                LET t == Boundary(deadline, total, segment)
                IN  /\ t > now + Slack => /\ Step(now).run = 0 /\ Step(now).arm = Clamp(t - now)
                    /\ t <= now + Slack =>
                         /\ Step(now).run = 1
                         /\ Step(now).arm = Clamp(Boundary(deadline, total, now + Slack) - now)
                    /\ Step(now).arm > 0
  <1> USE DEF ChainTypes
  <1>1. CASE total <= MaxTicks
    BY <1>1 DEF Step
  <1>2. CASE total > MaxTicks /\ ~periodic
    <2>1. Target(now) = deadline
      BY <1>2 DEF Target
    <2>2. CASE deadline <= now + Slack
      BY <1>2, <2>1, <2>2 DEF Step, Reached
    <2>3. CASE deadline > now + Slack
      <3>1. Step(now) = [run |-> 0, arm |-> Clamp(deadline - now)]
        BY <1>2, <2>1, <2>3 DEF Step, Reached
      <3> QED BY <1>2, <2>3, <3>1, ClampFacts
    <2> QED BY <2>2, <2>3
  <1>3. CASE total > MaxTicks /\ periodic
    <2> DEFINE t == Boundary(deadline, total, segment)
               u == Boundary(deadline, total, now + Slack)
    <2>1. t \in Nat /\ u \in Nat
      <3>1. now + Slack \in Nat
        OBVIOUS
      <3> QED BY <3>1, BoundaryFacts
    <2>2. Target(now) = t
      BY <1>3 DEF Target
    <2>3. CASE t <= now + Slack
      <3>1. Step(now) = [run |-> 1, arm |-> Clamp(u - now)]
        BY <1>3, <2>1, <2>2, <2>3 DEF Step, Reached
      <3> HIDE DEF t, u
      <3>2. Clamp(u - now) \in Nat \ {0}
        BY <2>1, ClampFacts
      <3> QED BY <1>3, <2>1, <2>3, <3>1, <3>2 DEF t, u
    <2>4. CASE t > now + Slack
      <3>1. Step(now) = [run |-> 0, arm |-> Clamp(t - now)]
        BY <1>3, <2>1, <2>2, <2>4 DEF Step, Reached
      <3> HIDE DEF t, u
      <3>2. Clamp(t - now) \in Nat \ {0}
        BY <2>1, ClampFacts
      <3> QED BY <1>3, <2>1, <2>4, <3>1, <3>2 DEF t, u
    <2> QED BY <2>1, <2>3, <2>4
  <1> QED BY <1>1, <1>2, <1>3 DEF ChainTypes

(* The initial states have the types.                                      *)
LEMMA ChainTypesInit == ChainInit => ChainTypes /\ Window
  <1> SUFFICES ASSUME ChainInit PROVE ChainTypes /\ Window
    OBVIOUS
  <1>1. total \in Nat \ {0}
    BY SplitFacts DEF ChainInit
  <1>2. period \in Nat \ {0}
    BY <1>1, ClampFacts DEF ChainInit
  <1>3. step = Idle /\ step \in [run : Nat, arm : Nat] /\ stage = "wait" /\ fires = 0
    BY DEF ChainInit, Idle
  <1>4. ~Dispatching
    BY <1>3 DEF Dispatching
  <1>5. periodic \in BOOLEAN
    BY DEF ChainInit
  <1>6. Window
    BY <1>3, <1>4 DEF Window
  <1> QED BY <1>1, <1>2, <1>3, <1>5, <1>6 DEF ChainInit, ChainTypes

(* The dispatch task takes an expiry at a reading of the present time.     *)
LEMMA ExpiryTaken ==
    ASSUME ChainTypes, Window, TakeExpiry
    PROVE  \E now \in Nat :
             /\ clock' = now /\ clock <= now /\ now <= tick /\ tick <= now + Skew
             /\ stage = "wait" /\ fires > 0 /\ fires' = 0 /\ step = Idle
             /\ tick <= since + MaxLate
             /\ step' = Step(now) /\ stage' = IF step'.arm > 0 THEN "arm" ELSE "run"
             /\ UNCHANGED <<tick, timer, segment, period, due, armed, begun, since, runs>>
  <1>1. PICK now \in Max({clock, tick - Skew})..tick : clock' = now
    BY DEF TakeExpiry
  <1>2. Max({clock, tick - Skew}) = IF clock >= tick - Skew THEN clock ELSE tick - Skew
    BY MaxOf DEF ChainTypes
  <1>3. now \in Nat /\ clock <= now /\ now <= tick /\ tick <= now + Skew
    BY <1>1, <1>2 DEF ChainTypes
  <1> QED BY <1>1, <1>3 DEF TakeExpiry, ChainTypes, Window, Dispatching

(* The steps keep the types and the window of a dispatch.                  *)
LEMMA ChainTypesNext == ChainTypes /\ Window /\ ChainNext => ChainTypes' /\ Window'
  <1> SUFFICES ASSUME ChainTypes, Window, ChainNext PROVE ChainTypes' /\ Window'
    OBVIOUS
  <1>1. CASE Tick
    BY <1>1 DEF Tick, ChainTypes, Window, Dispatching, timer
  <1>2. CASE CountExpiry
    BY <1>2 DEF CountExpiry, ChainTypes, Window, Dispatching, timer
  <1>3. CASE TakeExpiry
    <2>1. PICK now \in Nat :
            /\ clock' = now /\ clock <= now /\ now <= tick /\ tick <= now + Skew
            /\ fires' = 0 /\ step' = Step(now) /\ tick <= since + MaxLate
            /\ stage' = IF step'.arm > 0 THEN "arm" ELSE "run"
            /\ UNCHANGED <<tick, timer, segment, period, due, armed, begun, since, runs>>
      BY <1>3, ExpiryTaken
    <2>2. Step(now) \in [run : Nat, arm : Nat]
      BY StepFacts
    <2>3. ChainTypes'
      BY <2>1, <2>2 DEF ChainTypes, timer
    <2>4. Window'
      BY <2>1 DEF ChainTypes, Window, timer
    <2> QED BY <2>3, <2>4
  <1>4. CASE ArmSegment
    BY <1>4 DEF ArmSegment, ChainTypes, Window, Dispatching, timer
  <1>5. CASE RunTask
    <2>1. Idle \in [run : Nat, arm : Nat]
      BY DEF Idle
    <2>2. runs + step.run \in Nat /\ since \in Nat
      BY DEF ChainTypes
    <2>3. ChainTypes'
      BY <1>5, <2>1, <2>2 DEF RunTask, ChainTypes, timer
    <2>4. Window'
      BY <1>5 DEF RunTask, ChainTypes, Window, Dispatching, timer
    <2> QED BY <2>3, <2>4
  <1> QED BY <1>1, <1>2, <1>3, <1>4, <1>5 DEF ChainNext

(* A one-shot task starts armed,                                           *)
LEMMA OneShotInit == ChainInit => OneShot
  <1> SUFFICES ASSUME ChainInit PROVE OneShot
    OBVIOUS
  <1>1. ChainTypes
    BY ChainTypesInit
  <1>2. Served = 0
    BY DEF ChainInit, Served, Idle
  <1>3. due = begun + Clamp(total) /\ Clamp(total) <= total
        /\ (total <= MaxTicks => Clamp(total) = total) /\ Clamp(total) \in Nat
    BY <1>1, ClampFacts DEF ChainInit, ChainTypes
  <1> QED BY <1>1, <1>2, <1>3 DEF OneShot, ChainInit, ChainTypes

(* No step changes what the timer was scheduled with.                      *)
LEMMA SameTimer == ChainNext => UNCHANGED timer
  BY DEF ChainNext, Tick, CountExpiry, TakeExpiry, ArmSegment, RunTask

(* every step of the chain keeps it armed, due or served,                  *)
LEMMA OneShotStep ==
    ASSUME ChainTypes, Window, OneShot, ChainNext, ~periodic
    PROVE  OneShot'
  <1>0. Served \in Nat /\ runs \in Nat /\ step.run \in Nat /\ step.arm \in Nat
    BY DEF Served, ChainTypes
  <1>1. CASE Tick
    <2>1. Served' = Served
      BY <1>1 DEF Tick, Served
    <2> QED BY <1>0, <1>1, <2>1 DEF Tick, OneShot, ChainTypes, timer
  <1>2. CASE CountExpiry
    <2>1. Served' = Served
      BY <1>2 DEF CountExpiry, Served
    <2> QED BY <1>0, <1>2, <2>1 DEF CountExpiry, OneShot, ChainTypes, timer
  <1>3. CASE TakeExpiry
    <2>a. PICK now \in Nat :
            /\ clock' = now /\ now <= tick /\ fires > 0 /\ fires' = 0 /\ step' = Step(now)
            /\ stage' = IF step'.arm > 0 THEN "arm" ELSE "run"
            /\ UNCHANGED <<tick, timer, segment, period, due, armed, begun, since, runs>>
      BY <1>3, ExpiryTaken
    <2>1. /\ fires = 1 /\ Served = 0 /\ ~armed /\ runs = 0 /\ runs' = 0 /\ fires' = 0
          /\ UNCHANGED <<tick, timer, segment, period, due, armed, begun, since>>
          /\ clock' = now /\ now <= tick /\ step' = Step(now)
          /\ stage' = IF step'.arm > 0 THEN "arm" ELSE "run"
      BY <1>0, <2>a DEF OneShot, ChainTypes, Served
    <2>2. CASE total <= MaxTicks
      <3>1. step'.run = 1 /\ step'.arm = 0
        BY <2>1, <2>2, StepFacts
      <3>2. Served' = 1
        BY <2>1, <3>1 DEF Served
      <3> QED BY <2>1, <2>2, <3>1, <3>2 DEF OneShot, ChainTypes, timer
    <2>3. CASE total > MaxTicks
      <3>0. now + Slack \in Nat /\ deadline \in Nat
        BY DEF ChainTypes
      <3>1. CASE deadline <= now + Slack
        <4>1. step'.run = 1 /\ step'.arm = 0
          BY <2>1, <2>3, <3>1, StepFacts
        <4>2. Served' = 1 /\ stage' = "run"
          BY <2>1, <4>1 DEF Served
        <4>3. begun + total <= tick + Slack + Skew
          BY <2>1, <3>1 DEF ChainTypes
        <4> QED BY <2>1, <2>3, <4>2, <4>3 DEF OneShot, ChainTypes, timer
      <3>2. CASE deadline > now + Slack
        <4>1. step'.run = 0 /\ step'.arm > 0 /\ step'.arm <= deadline - now
          BY <2>1, <2>3, <3>2, StepFacts
        <4>2. Served' = 0 /\ stage' = "arm"
          BY <2>1, <4>1 DEF Served
        <4> QED BY <2>1, <2>3, <4>1, <4>2 DEF OneShot, ChainTypes, timer
      <3> QED BY <3>0, <3>1, <3>2
    <2> QED BY <2>2, <2>3 DEF ChainTypes
  <1>4. CASE ArmSegment
    <2>1. Served' = Served
      BY <1>4 DEF ArmSegment, Served
    <2>2. tick <= clock + Skew + MaxLate
      BY <1>4 DEF ArmSegment, Window, Dispatching, ChainTypes
    <2> QED BY <1>0, <1>4, <2>1, <2>2 DEF ArmSegment, OneShot, ChainTypes, timer
  <1>5. CASE RunTask
    <2>1. Served' = Served
      BY <1>0, <1>5 DEF RunTask, Served, Idle
    <2> QED BY <1>0, <1>5, <2>1 DEF RunTask, OneShot, ChainTypes, timer
  <1> QED BY <1>1, <1>2, <1>3, <1>4, <1>5 DEF ChainNext

(* and so does every step of any timer.                                    *)
LEMMA OneShotNext == ChainTypes /\ Window /\ OneShot /\ ChainNext => OneShot'
  <1> SUFFICES ASSUME ChainTypes, Window, OneShot, ChainNext PROVE OneShot'
    OBVIOUS
  <1>1. CASE periodic
    BY <1>1, SameTimer DEF OneShot, timer
  <1>2. CASE ~periodic
    BY <1>2, OneShotStep
  <1> QED BY <1>1, <1>2

(* A short period starts on the grid,                                      *)
LEMMA ShortPeriodInit == ChainInit => ShortPeriod
  <1> SUFFICES ASSUME ChainInit, periodic, total <= MaxTicks PROVE ShortPeriod
    BY DEF ShortPeriod
  <1>1. ChainTypes
    BY ChainTypesInit
  <1>2. Served + fires = 0 /\ 0 * total = 0
    BY <1>1 DEF ChainInit, Served, Idle, ChainTypes
  <1>3. Clamp(total) = total
    BY <1>1, ClampFacts DEF ChainTypes
  <1> QED BY <1>1, <1>2, <1>3 DEF ShortPeriod, ChainInit, ChainTypes

(* every step of the chain keeps it there,                                 *)
LEMMA ShortPeriodStep ==
    ASSUME ChainTypes, Window, ShortPeriod, ChainNext, periodic, total <= MaxTicks
    PROVE  ShortPeriod'
  <1>1. PICK k \in Nat : k = Served + fires
    BY DEF Served, ChainTypes
  <1>2. /\ armed /\ period = total /\ stage # "arm" /\ begun + total <= due /\ due <= tick + total
        /\ k * total <= due - total - begun
        /\ InTime => /\ k * total = due - total - begun
                     /\ fires <= 1
                     /\ fires = 1 => since + total <= due + MaxLate
                     /\ fires = 1 /\ stage # "wait" => since + total <= due
    BY <1>1 DEF ShortPeriod
  <1>3. UNCHANGED <<periodic, total>> /\ InTime' = InTime
    BY SameTimer DEF timer, InTime
  <1>4. k * total \in Nat /\ (k + 1) * total = k * total + total
    BY <1>1, ProductStep DEF ChainTypes
  <1>5. CASE Tick
    <2>1. (Served + fires)' = k
      BY <1>1, <1>5 DEF Tick, Served
    <2> QED BY <1>2, <1>3, <1>5, <2>1 DEF Tick, ShortPeriod, ChainTypes
  <1>6. CASE CountExpiry
    <2>1. /\ tick = due /\ armed' = periodic /\ due' = due + total
          /\ fires' = IF fires < CatchUpMax THEN fires + 1 ELSE fires
          /\ since' = IF Dispatching THEN since ELSE tick
          /\ UNCHANGED <<tick, begun, period, stage>> /\ Served' = Served
      BY <1>2, <1>6 DEF CountExpiry, Served
    <2>2. (Served + fires)' \in {k, k + 1} /\ (Served' + fires') * total <= due' - total - begun
      <3>1. (Served + fires)' = k \/ (Served + fires)' = k + 1
        BY <1>1, <2>1 DEF ChainTypes, Served
      <3> QED BY <1>2, <1>4, <2>1, <3>1 DEF ChainTypes
    <2>3. since' \in Nat /\ since' <= due
      BY <2>1 DEF ChainTypes
    <2>4. InTime => fires = 0
      <3>1. fires = 1 => tick <= since + MaxLate
        BY DEF Window, Dispatching
      <3> QED BY <1>2, <2>1, <3>1 DEF InTime, ChainTypes
    <2>5. InTime => fires' = 1 /\ (Served + fires)' = k + 1
      BY <1>1, <2>1, <2>4 DEF ChainTypes, Served
    <2>6. InTime => (Served' + fires') * total = due' - total - begun
      BY <1>2, <1>4, <2>1, <2>5 DEF ChainTypes
    <2> QED BY <1>2, <1>3, <2>1, <2>2, <2>3, <2>5, <2>6 DEF ShortPeriod, ChainTypes
  <1>7. CASE TakeExpiry
    <2>1. PICK now \in Nat :
            /\ fires' = 0 /\ step = Idle /\ step' = Step(now)
            /\ stage' = IF step'.arm > 0 THEN "arm" ELSE "run"
            /\ UNCHANGED <<tick, timer, segment, period, due, armed, begun, since, runs>>
      BY <1>7, ExpiryTaken
    <2>2. Step(now).arm = 0 /\ Step(now).run = fires
      BY StepFacts
    <2>3. (Served + fires)' = k /\ stage' = "run"
      BY <1>1, <2>1, <2>2 DEF Served, Idle, ChainTypes
    <2> QED BY <1>2, <1>3, <2>1, <2>3 DEF ShortPeriod, ChainTypes
  <1>8. CASE ArmSegment
    BY <1>2, <1>8 DEF ArmSegment
  <1>9. CASE RunTask
    <2>1. /\ stage = "run" /\ stage' = "wait" /\ since' = tick
          /\ UNCHANGED <<tick, fires, period, due, armed, begun>> /\ Served' = Served
      BY <1>9 DEF RunTask, Served, Idle, ChainTypes
    <2>2. tick <= since + MaxLate
      BY <2>1 DEF Window, Dispatching
    <2>3. InTime /\ fires = 1 => tick + total <= due + MaxLate
      BY <1>2, <2>1, <2>2 DEF ChainTypes
    <2>4. (Served + fires)' = k
      BY <1>1, <2>1
    <2> QED BY <1>2, <1>3, <2>1, <2>3, <2>4 DEF ShortPeriod, ChainTypes
  <1> QED BY <1>5, <1>6, <1>7, <1>8, <1>9 DEF ChainNext

(* and so does every step of any timer.                                    *)
LEMMA ShortPeriodNext == ChainTypes /\ Window /\ ShortPeriod /\ ChainNext => ShortPeriod'
  <1> SUFFICES ASSUME ChainTypes, Window, ShortPeriod, ChainNext PROVE ShortPeriod'
    OBVIOUS
  <1>1. UNCHANGED <<periodic, total>>
    BY SameTimer DEF timer
  <1>2. CASE periodic /\ total <= MaxTicks
    BY <1>2, ShortPeriodStep
  <1>3. CASE ~(periodic /\ total <= MaxTicks)
    BY <1>1, <1>3 DEF ShortPeriod
  <1> QED BY <1>2, <1>3

(* The boundary ahead is the first one the slack does not reach.           *)
LEMMA AheadFacts ==
    ASSUME ChainTypes, NEW r \in Nat
    PROVE  \E n \in Nat : /\ Ahead(r) = deadline + n * total /\ n * total \in Nat
                          /\ r + Slack < deadline + n * total
                          /\ n = 0 \/ deadline + n * total <= r + Slack + total
  <1>1. r + Slack \in Nat
    OBVIOUS
  <1> QED BY <1>1, BoundaryFacts DEF Ahead

(* Two boundaries in order are counted in order.                           *)
LEMMA CountOrder ==
    ASSUME NEW n \in Nat, NEW m \in Nat, NEW d \in Nat, NEW l \in Nat \ {0}, NEW x \in Nat,
           m = 0 \/ d + m * l <= x + l, x < d + n * l
    PROVE  m <= n
  <1>1. n * l \in Nat /\ m * l \in Nat
    BY ProductStep
  <1>2. CASE m = 0
    BY <1>2
  <1>3. CASE d + m * l <= x + l
    <2>1. m * l < n * l + l
      BY <1>1, <1>3
    <2> QED BY <2>1, ProductOrder
  <1> QED BY <1>2, <1>3

(* A long period starts with nothing behind the boundary,                  *)
LEMMA LongPeriodInit == ChainInit => LongPeriod
  <1> SUFFICES ASSUME ChainInit, periodic, total > MaxTicks, InTime PROVE LongPeriod
    BY DEF LongPeriod
  <1>1. ChainTypes
    BY ChainTypesInit
  <1>2. segment \in Nat /\ deadline = segment + total /\ segment <= Skew /\ begun = Skew
    BY DEF ChainInit
  <1>3. segment + Slack < deadline
    BY <1>1, <1>2 DEF InTime, ChainTypes
  <1>4. Ahead(segment) = deadline
    BY <1>3 DEF Ahead, Boundary
  <1>5. Covered(Ahead(segment))
    <2>1. Ahead(segment) = deadline + 0 * total /\ 0 <= Served
      BY <1>1, <1>4 DEF ChainTypes, ChainInit, Served, Idle
    <2> QED BY <2>1 DEF Covered
  <1>6. Clamp(total) <= total /\ Clamp(total) \in Nat
    BY <1>1, ClampFacts DEF ChainTypes
  <1>7. due <= Ahead(segment) + Skew + MaxLate
    BY <1>1, <1>2, <1>4, <1>6 DEF ChainInit, ChainTypes
  <1>8. armed /\ stage = "wait" /\ fires = 0
    BY DEF ChainInit
  <1> QED BY <1>5, <1>7, <1>8 DEF LongPeriod

(* a decision runs the task once per boundary it leaves behind,            *)
LEMMA LongPeriodTake ==
    ASSUME ChainTypes, Window, LongPeriod, TakeExpiry, periodic, total > MaxTicks, InTime
    PROVE  LongPeriod'
  <1>1. PICK now \in Nat :
          /\ clock' = now /\ clock <= now /\ now <= tick /\ stage = "wait" /\ fires > 0
          /\ step = Idle /\ tick <= since + MaxLate /\ step' = Step(now)
          /\ stage' = IF step'.arm > 0 THEN "arm" ELSE "run"
          /\ UNCHANGED <<timer, armed, runs>>
    BY ExpiryTaken
  <1>2. /\ armed /\ Covered(Ahead(segment)) /\ since <= Ahead(segment) + Skew + MaxLate
    BY <1>1 DEF LongPeriod
  <1>3. /\ segment \in Nat /\ segment <= now /\ deadline \in Nat /\ total \in Nat \ {0}
        /\ since \in Nat /\ tick \in Nat /\ runs \in Nat /\ runs = Served
    BY <1>1 DEF ChainTypes, Served, Idle
  <1>4. PICK n \in Nat : Ahead(segment) = deadline + n * total /\ n <= Served
    BY <1>2 DEF Covered
  <1>5. n * total \in Nat /\ (n + 1) * total = n * total + total
    BY <1>3, <1>4, ProductStep
  <1>6. segment + Slack < deadline + n * total
    BY <1>3, <1>4, AheadFacts
  <1>7. PICK m \in Nat : /\ Boundary(deadline, total, segment) = deadline + m * total
                         /\ m * total \in Nat /\ segment < deadline + m * total
                         /\ m = 0 \/ deadline + m * total <= segment + total
    BY <1>3, BoundaryFacts
  <1>8. PICK p \in Nat : /\ Ahead(now) = deadline + p * total /\ p * total \in Nat
                         /\ now + Slack < deadline + p * total
                         /\ p = 0 \/ deadline + p * total <= now + Slack + total
    BY AheadFacts
  <1>9. m <= n
    <2>1. segment < deadline + n * total
      BY <1>3, <1>5, <1>6
    <2> QED BY <1>3, <1>7, <2>1, CountOrder
  <1>10. /\ Step(now).arm = Clamp(Ahead(now) - now) /\ Step(now).arm > 0
         /\ Step(now).run \in Nat /\ p <= runs + Step(now).run
    <2>1. CASE deadline + m * total > now + Slack
      <3>1. Step(now).run = 0 /\ Step(now).arm = Clamp(deadline + m * total - now)
            /\ Step(now).arm > 0
        <4> DEFINE t == Boundary(deadline, total, segment)
        <4>1. t > now + Slack /\ t = deadline + m * total
          BY <1>7, <2>1
        <4>2. Step(now).run = 0 /\ Step(now).arm = Clamp(t - now) /\ Step(now).arm > 0
          BY <4>1, StepFacts
        <4> HIDE DEF t
        <4>3. t \in Nat /\ m * total \in Nat /\ deadline \in Nat
          BY <1>3, <1>7, <4>1
        <4> QED BY <4>1, <4>2, <4>3
      <3>2. now + Slack \in Nat /\ now + Slack < deadline + m * total
        BY <1>3, <1>7, <2>1
      <3>3. p <= m
        BY <1>3, <1>8, <3>2, CountOrder
      <3>4. segment < deadline + p * total
        BY <1>3, <1>8
      <3>5. m <= p
        BY <1>3, <1>7, <3>4, CountOrder
      <3>6. m = p
        BY <3>3, <3>5
      <3>7. p <= runs
        BY <1>3, <1>4, <1>9, <3>6
      <3> QED BY <1>3, <1>8, <3>1, <3>6, <3>7
    <2>2. CASE ~(deadline + m * total > now + Slack)
      <3>1. deadline + m * total <= now + Slack
        BY <1>3, <1>7, <2>2
      <3>2. Step(now).run = 1 /\ Step(now).arm = Clamp(Ahead(now) - now) /\ Step(now).arm > 0
        BY <1>7, <3>1, StepFacts DEF Ahead
      <3>3. now + Slack \in Nat /\ now + Slack < deadline + (n + 1) * total
        BY <1>1, <1>2, <1>3, <1>4, <1>5 DEF InTime
      <3>4. p <= n + 1
        BY <1>3, <1>8, <3>3, CountOrder
      <3> QED BY <1>3, <1>4, <3>2, <3>4
    <2> QED BY <2>1, <2>2
  <1>11. UNCHANGED <<deadline, total, periodic, armed, runs>> /\ stage' = "arm"
    BY <1>1, <1>10 DEF timer
  <1>12. Ahead(clock)' = Ahead(now) /\ Served' = runs + Step(now).run
    BY <1>1, <1>11 DEF Ahead, Served
  <1>13. Covered(Ahead(clock))'
    BY <1>8, <1>10, <1>11, <1>12 DEF Covered
  <1>14. (Clamp(Ahead(clock) - clock))' = Clamp(Ahead(now) - now)
    BY <1>1, <1>12 DEF Clamp
  <1> QED BY <1>1, <1>2, <1>10, <1>11, <1>13, <1>14 DEF LongPeriod

(* every step of the chain leaves nothing behind the boundary,             *)
LEMMA LongPeriodStep ==
    ASSUME ChainTypes, Window, LongPeriod, ChainNext, periodic, total > MaxTicks, InTime
    PROVE  LongPeriod'
  <1>1. UNCHANGED <<deadline, total, periodic>>
    BY SameTimer DEF timer
  <1>2. PICK b \in Nat : b = Ahead(segment) /\ segment < b
    <2>1. segment \in Nat /\ deadline \in Nat
      BY DEF ChainTypes
    <2> QED BY <2>1, AheadFacts
  <1>3. PICK e \in Nat : e = Ahead(clock) /\ clock < e
    <2>1. clock \in Nat /\ deadline \in Nat
      BY DEF ChainTypes
    <2> QED BY <2>1, AheadFacts
  <1>4. /\ armed
        /\ stage # "arm" => /\ Covered(b)
                            /\ fires = 0 => due <= b + Skew + MaxLate
                            /\ stage = "wait" /\ fires > 0 => since <= b + Skew + MaxLate
        /\ stage = "arm" => Covered(e) /\ step.arm = Clamp(e - clock)
        /\ stage = "run" => segment = clock
    BY <1>2, <1>3 DEF LongPeriod
  <1>6. CASE Tick
    <2>1. UNCHANGED <<clock, segment, due, armed, fires, stage, step, since, runs>>
      BY <1>6 DEF Tick
    <2>2. Ahead(segment)' = b /\ Ahead(clock)' = e /\ Served' = Served
      BY <1>1, <1>2, <1>3, <2>1 DEF Ahead, Served
    <2> QED BY <1>1, <1>4, <2>1, <2>2 DEF LongPeriod, Covered, Clamp
  <1>7. CASE CountExpiry
    <2>1. /\ UNCHANGED <<clock, segment, stage, step, runs>> /\ armed' = TRUE /\ tick = due
          /\ fires' = IF fires < CatchUpMax THEN fires + 1 ELSE fires
          /\ since' = IF Dispatching THEN since ELSE tick
      BY <1>7 DEF CountExpiry
    <2>2. Ahead(segment)' = b /\ Ahead(clock)' = e /\ Served' = Served
      BY <1>1, <1>2, <1>3, <2>1 DEF Ahead, Served
    <2>3. fires' # 0
      BY <2>1 DEF ChainTypes
    <2>4. stage = "wait" => since' <= b + Skew + MaxLate
      BY <1>4, <2>1 DEF Dispatching, ChainTypes
    <2> QED BY <1>1, <1>4, <2>1, <2>2, <2>3, <2>4 DEF LongPeriod, Covered, Clamp
  <1>8. CASE TakeExpiry
    BY <1>8, LongPeriodTake
  <1>9. CASE ArmSegment
    <2>1. /\ stage = "arm" /\ stage' = "run" /\ due' = tick + step.arm /\ armed' = TRUE
          /\ segment' = clock /\ clock' = clock /\ UNCHANGED <<step, runs, since, fires>>
      BY <1>9 DEF ArmSegment
    <2>2. Ahead(segment)' = e /\ Ahead(clock)' = e /\ Served' = Served
      BY <1>1, <1>3, <2>1 DEF Ahead, Served
    <2>3. step.arm = Clamp(e - clock) /\ Clamp(e - clock) \in Nat /\ Clamp(e - clock) <= e - clock
      BY <1>3, <1>4, <2>1, ClampFacts DEF ChainTypes
    <2>4. tick <= clock + Skew + MaxLate
      BY <2>1 DEF Window, Dispatching, ChainTypes
    <2>5. tick + step.arm <= e + Skew + MaxLate
      BY <1>3, <2>3, <2>4 DEF ChainTypes
    <2> QED BY <1>1, <1>4, <2>1, <2>2, <2>5 DEF LongPeriod, Covered, Clamp
  <1>10. CASE RunTask
    <2>1. /\ stage = "run" /\ stage' = "wait" /\ since' = tick /\ segment = clock
          /\ UNCHANGED <<clock, segment, due, armed, fires>> /\ Served' = Served
      BY <1>4, <1>10 DEF RunTask, Served, Idle, ChainTypes
    <2>2. Ahead(segment)' = b
      BY <1>1, <1>2, <2>1 DEF Ahead
    <2>3. tick <= b + Skew + MaxLate
      BY <1>2, <2>1 DEF Window, Dispatching, ChainTypes
    <2> QED BY <1>1, <1>4, <2>1, <2>2, <2>3 DEF LongPeriod, Covered, Clamp
  <1> QED BY <1>6, <1>7, <1>8, <1>9, <1>10 DEF ChainNext

(* and so does every step of any timer.                                    *)
LEMMA LongPeriodNext == ChainTypes /\ Window /\ LongPeriod /\ ChainNext => LongPeriod'
  <1> SUFFICES ASSUME ChainTypes, Window, LongPeriod, ChainNext PROVE LongPeriod'
    OBVIOUS
  <1>1. UNCHANGED <<periodic, total>> /\ InTime' = InTime
    BY SameTimer DEF timer, InTime
  <1>2. CASE periodic /\ total > MaxTicks /\ InTime
    BY <1>2, LongPeriodStep
  <1>3. CASE ~(periodic /\ total > MaxTicks /\ InTime)
    BY <1>1, <1>3 DEF LongPeriod
  <1> QED BY <1>2, <1>3

(* The invariant holds initially,                                          *)
LEMMA ChainInvInit == ChainInit => ChainInv
  BY ChainTypesInit, OneShotInit, ShortPeriodInit, LongPeriodInit DEF ChainInv

(* every step keeps it,                                                    *)
LEMMA ChainInvNext == ChainInv /\ [ChainNext]_chainVars => ChainInv'
  <1> SUFFICES ASSUME ChainInv, [ChainNext]_chainVars PROVE ChainInv'
    OBVIOUS
  <1>1. CASE ChainNext
    BY <1>1, ChainTypesNext, OneShotNext, ShortPeriodNext, LongPeriodNext DEF ChainInv
  <1>2. CASE UNCHANGED chainVars
    <2>1. ChainTypes' /\ Window' /\ OneShot'
      BY <1>2 DEF ChainInv, ChainTypes, Window, OneShot, Dispatching, Served, chainVars, timer
    <2>2. ShortPeriod'
      BY <1>2 DEF ChainInv, ShortPeriod, InTime, Served, chainVars, timer
    <2>3. LongPeriod'
      BY <1>2 DEF ChainInv, LongPeriod, InTime, Covered, Ahead, Boundary, Clamp, Served, chainVars,
                  timer
    <2> QED BY <2>1, <2>2, <2>3 DEF ChainInv
  <1> QED BY <1>1, <1>2

(* so that it always holds.                                                *)
LEMMA ChainInvAlways == ChainSpec => []ChainInv
  BY ChainInvInit, ChainInvNext, PTL DEF ChainSpec

(* How many delays are over, counted by multiplying.                       *)
LEMMA ElapsedFacts ==
    ASSUME ChainTypes, NEW t \in Int
    PROVE  \E n \in Nat : /\ Elapsed(t) = IF periodic \/ n <= 1 THEN n ELSE 1
                          /\ n * total \in Nat
                          /\ t < begun => n = 0
                          /\ begun <= t => n * total <= t - begun /\ t - begun < n * total + total
  <1> DEFINE q == IF t < begun THEN 0 ELSE (t - begun) \div total
  <1>1. /\ q \in Nat /\ (t < begun => q = 0)
        /\ begun <= t => q * total <= t - begun /\ t - begun < q * total + total
    <2>1. CASE t < begun
      BY <2>1 DEF ChainTypes
    <2>2. CASE ~(t < begun)
      <3>1. t - begun \in Nat /\ total \in Nat \ {0}
        BY <2>2 DEF ChainTypes
      <3> QED BY <2>2, <3>1, DivFacts
    <2> QED BY <2>1, <2>2
  <1>2. Elapsed(t) = IF periodic THEN q ELSE Min({q, 1})
    BY DEF Elapsed
  <1> HIDE DEF q
  <1>3. Min({q, 1}) = IF q <= 1 THEN q ELSE 1
    BY <1>1, MinOf
  <1>4. Elapsed(t) = IF periodic \/ q <= 1 THEN q ELSE 1
    BY <1>2, <1>3
  <1>5. q * total \in Nat
    BY <1>1, ProductStep DEF ChainTypes
  <1> QED BY <1>1, <1>4, <1>5

(* The invariant says that nothing runs early                              *)
LEMMA NeverEarlyFollows == ChainInv => NeverEarly
  <1> SUFFICES ASSUME ChainInv, periodic => total <= MaxTicks
               PROVE  Served <= Elapsed(tick + Slack + Skew)
    BY DEF NeverEarly, Served
  <1> DEFINE t == tick + Slack + Skew
  <1>1. /\ tick \in Nat /\ begun \in Nat /\ begun <= tick /\ total \in Nat \ {0} /\ due \in Nat
        /\ Served \in Nat /\ fires \in Nat /\ periodic \in BOOLEAN
    BY DEF ChainInv, ChainTypes, Served
  <1>2. t \in Int /\ begun <= t /\ t <= tick + Slack + Skew
    BY <1>1
  <1> HIDE DEF t
  <1>3. PICK n \in Nat : /\ Elapsed(t) = IF periodic \/ n <= 1 THEN n ELSE 1
                         /\ n * total \in Nat /\ t - begun < n * total + total
    BY <1>2, ElapsedFacts DEF ChainInv
  <1>a. Served <= Elapsed(t) => Served <= Elapsed(tick + Slack + Skew)
    BY DEF t
  <1>4. CASE ~periodic
    <2>1. Served <= 1 /\ (Served = 1 => begun + total <= t)
      BY <1>4 DEF ChainInv, OneShot, t
    <2>2. CASE Served = 1
      <3>1. 1 * total < n * total + total
        BY <1>1, <1>2, <1>3, <2>1, <2>2
      <3>2. 1 <= n
        BY <1>1, <3>1, ProductOrder
      <3> QED BY <1>3, <1>a, <2>2, <3>2
    <2>3. CASE Served = 0
      BY <1>3, <1>a, <2>3
    <2> QED BY <1>1, <2>1, <2>2, <2>3
  <1>5. CASE periodic
    <2>1. (Served + fires) * total <= due - total - begun /\ due <= tick + total /\ tick <= t
      BY <1>1, <1>5 DEF ChainInv, ShortPeriod, t
    <2>2. Served * total <= (Served + fires) * total /\ Served * total \in Nat
          /\ (Served + fires) * total \in Nat
      <3>1. Served + fires \in Nat /\ Served <= Served + fires
        BY <1>1
      <3> QED BY <1>1, <3>1, ProductGrows, ProductStep
    <2>3. Served * total < n * total + total
      BY <1>1, <1>2, <1>3, <2>1, <2>2
    <2>4. Served <= n
      BY <1>1, <2>3, ProductOrder
    <2> QED BY <1>3, <1>5, <1>a, <2>4
  <1> QED BY <1>1, <1>4, <1>5

(* and that nothing is lost.                                               *)
LEMMA NoneLostFollows == ChainInv => NoneLost
  <1> SUFFICES ASSUME ChainInv, ~Dispatching, armed => tick < due, InTime
               PROVE  runs >= Elapsed(tick - MaxLate - Slack - Skew)
    BY DEF NoneLost, InTime
  <1> DEFINE t == tick - MaxLate - Slack - Skew
  <1>1. /\ tick \in Nat /\ begun \in Nat /\ total \in Nat \ {0} /\ due \in Nat /\ t \in Int
        /\ runs \in Nat /\ fires = 0 /\ stage = "wait" /\ step = Idle /\ periodic \in BOOLEAN
        /\ deadline \in Nat /\ deadline <= begun + total
    BY DEF ChainInv, ChainTypes, Dispatching
  <1>2. Served = runs
    BY <1>1 DEF Served, Idle
  <1>3. PICK n \in Nat : /\ Elapsed(t) = IF periodic \/ n <= 1 THEN n ELSE 1
                         /\ n * total \in Nat
                         /\ t < begun => n = 0
                         /\ begun <= t => n * total <= t - begun
    BY <1>1, ElapsedFacts DEF ChainInv
  <1>4. SUFFICES ASSUME n # 0, runs < n, periodic \/ runs = 0 PROVE FALSE
    <2>1. Elapsed(t) <= n /\ (~periodic => Elapsed(t) <= 1)
      BY <1>1, <1>3
    <2>2. Elapsed(t) \in Nat
      BY <1>1, <1>3
    <2> QED BY <1>1, <1>3, <2>1, <2>2
  <1>5. n * total <= t - begun
    BY <1>1, <1>3, <1>4
  <1>6. CASE ~periodic
    <2>1. armed /\ due <= begun + total + Skew + MaxLate
      BY <1>1, <1>2, <1>4, <1>6 DEF ChainInv, OneShot
    <2>2. n * total < 0 * total + total
      BY <1>1, <1>3, <1>5, <2>1
    <2>3. n <= 0
      BY <1>1, <2>2, ProductOrder
    <2> QED BY <1>4, <2>3
  <1>7. CASE periodic /\ total <= MaxTicks
    <2>1. armed /\ runs * total = due - total - begun
      <3>1. armed /\ (Served + fires) * total = due - total - begun /\ Served + fires = runs
        BY <1>1, <1>2, <1>7 DEF ChainInv, ShortPeriod
      <3> QED BY <3>1
    <2>2. n * total < runs * total + total
      BY <1>1, <1>3, <1>5, <2>1
    <2>3. n <= runs
      BY <1>1, <2>2, ProductOrder
    <2> QED BY <1>1, <1>4, <2>3
  <1>8. CASE periodic /\ total > MaxTicks
    <2>1. armed /\ Covered(Ahead(segment)) /\ due <= Ahead(segment) + Skew + MaxLate
      BY <1>1, <1>8 DEF ChainInv, LongPeriod
    <2>2. PICK q \in Nat : Ahead(segment) = deadline + q * total /\ q <= runs
      BY <1>2, <2>1 DEF Covered
    <2>3. q * total \in Nat
      BY <1>1, ProductStep
    <2>4. n * total < q * total + total
      BY <1>1, <1>3, <1>5, <2>1, <2>2, <2>3
    <2>5. n <= q
      BY <1>1, <2>4, ProductOrder
    <2> QED BY <1>1, <1>4, <2>2, <2>5
  <1> QED BY <1>1, <1>6, <1>7, <1>8

(* For any delays, tick rate, longest period, slack, skew and lateness, a  *)
(* one-shot task, or one whose period the timer counts in one go, is not   *)
(* run before its delay is over, but for the slack and the skew, nor more  *)
(* often than delays are over (osal_timer_chain.h osal_timer_chain_next,   *)
(* scheduler_freertos.c __dispatch_one).                                   *)
THEOREM EarlySafety == ChainSpec => []NeverEarly
  BY ChainInvAlways, NeverEarlyFollows, PTL

(* For the same values, when the dispatch task has nothing to do, the task *)
(* has been run for every delay that is over, one late arm and the two     *)
(* readings apart (osal_timer_chain.h osal_timer_chain_next,               *)
(* scheduler_freertos.c __dispatch_one).                                   *)
THEOREM LostSafety == ChainSpec => []NoneLost
  BY ChainInvAlways, NoneLostFollows, PTL
=============================================================================
