------------------------- MODULE AsyncWorkerProofs -------------------------
(***************************************************************************)
(* What the Tokio client and server guarantee together, for any number of  *)
(* requests and pings, any pipe capacity and any faults of host and        *)
(* handler but those a theorem names.                                      *)
(***************************************************************************)
EXTENDS AsyncWorker, TLAPS

(***************************************************************************)
(* Sequences of frames, and what one says of a request.                    *)
(***************************************************************************)
Of(f, i) == request_id(f) = i
Ends(f, i) == Of(f, i) /\ Terminal(f)

\* A frame of i that may not follow i's terminal frame: any, but for the
\* events of a context that its handler let outlive it.
Counted(f, i) == Of(f, i) /\ (i \in Leaky => Terminal(f))

Some(w, i) == \E k \in 1 .. Len(w) : Of(w[k], i)
Has(w, i, t) == \E k \in 1 .. Len(w) : Of(w[k], i) /\ w[k].type = t
HasEnd(w, i) == \E k \in 1 .. Len(w) : Ends(w[k], i)
HasCounted(w, i) == \E k \in 1 .. Len(w) : Counted(w[k], i)
HasAck(w) == \E k \in 1 .. Len(w) : w[k].type = "shutdown_ack"

StartsOnce(w, i) ==
    \A j, k \in 1 .. Len(w) :
        /\ Of(w[j], i) /\ w[j].type = "started"
        /\ Of(w[k], i) /\ w[k].type = "started"
        => j = k

StartsFirst(w, i) ==
    \A k \in 1 .. Len(w) :
        Of(w[k], i) /\ w[k].type # "started" =>
            \E m \in 1 .. k - 1 : Of(w[m], i) /\ w[m].type = "started"

EndsLast(w, i) ==
    \A k \in 1 .. Len(w) :
        Ends(w[k], i) => \A m \in (k + 1) .. Len(w) : ~Counted(w[m], i)

AckBehind(w, i) ==
    \A k \in 1 .. Len(w) :
        w[k].type = "shutdown_ack" => \E m \in 1 .. k - 1 : Ends(w[m], i)

(***************************************************************************)
(* What a step does to the wire.                                           *)
(***************************************************************************)
\* One more frame at the end; the first one taken; the end lost; and frames
\* that matter to nobody put in anywhere.
Grown(w, v, f) ==
    /\ Len(v) = Len(w) + 1
    /\ \A k \in 1 .. Len(w) : v[k] = w[k]
    /\ v[Len(w) + 1] = f

Shorter(w, v) ==
    /\ Len(w) = Len(v) + 1
    /\ \A k \in 1 .. Len(v) : v[k] = w[k + 1]

Prefix(w, v) ==
    /\ Len(v) <= Len(w)
    /\ \A k \in 1 .. Len(v) : v[k] = w[k]

Matters(f) == f.type \notin {"hello", "malformed"}

Places(w, v, e) ==
    /\ \A k \in 1 .. Len(v) : Matters(v[k]) => e[k] \in 1 .. Len(w) /\ w[e[k]] = v[k]
    /\ \A j, k \in 1 .. Len(v) : j < k /\ Matters(v[j]) /\ Matters(v[k]) => e[j] < e[k]
    /\ \A m \in 1 .. Len(w) : Matters(w[m]) => \E n \in 1 .. Len(v) : e[n] = m /\ v[n] = w[m]

Kept(w, v) == \E e \in [1 .. Len(v) -> Nat] : Places(w, v, e)

\* Frames of a request, and acknowledgements, matter.
LEMMA OfMatters ==
    ASSUME NEW f, NEW i \in RequestId
    PROVE  (Of(f, i) => Matters(f)) /\ (f.type = "shutdown_ack" => Matters(f))
BY DEF Of, Matters, request_id, RequestId, None

LEMMA KeptHas ==
    ASSUME NEW w \in Seq(PluginFrame), NEW v \in Seq(PluginFrame), Kept(w, v), NEW i \in RequestId
    PROVE  /\ Some(v, i) <=> Some(w, i)
           /\ \A t : Has(v, i, t) <=> Has(w, i, t)
           /\ HasEnd(v, i) <=> HasEnd(w, i)
           /\ HasCounted(v, i) <=> HasCounted(w, i)
           /\ HasAck(v) <=> HasAck(w)
<1>1. \A k \in 1 .. Len(v) : Matters(v[k]) => \E m \in 1 .. Len(w) : w[m] = v[k]
  BY DEF Kept, Places
<1>2. \A m \in 1 .. Len(w) : Matters(w[m]) => \E k \in 1 .. Len(v) : v[k] = w[m]
  BY DEF Kept, Places
<1>3. Some(v, i) <=> Some(w, i)
  BY <1>1, <1>2, OfMatters DEF Some
<1>4. ASSUME NEW t PROVE Has(v, i, t) <=> Has(w, i, t)
  BY <1>1, <1>2, OfMatters DEF Has
<1>5. HasEnd(v, i) <=> HasEnd(w, i)
  BY <1>1, <1>2, OfMatters DEF HasEnd, Ends
<1>6. HasCounted(v, i) <=> HasCounted(w, i)
  BY <1>1, <1>2, OfMatters DEF HasCounted, Counted
<1>7. HasAck(v) <=> HasAck(w)
  BY <1>1, <1>2, OfMatters DEF HasAck
<1> QED BY <1>3, <1>4, <1>5, <1>6, <1>7

LEMMA KeptOrder ==
    ASSUME NEW w \in Seq(PluginFrame), NEW v \in Seq(PluginFrame), Kept(w, v), NEW i \in RequestId
    PROVE  /\ StartsOnce(w, i) => StartsOnce(v, i)
           /\ StartsFirst(w, i) => StartsFirst(v, i)
           /\ EndsLast(w, i) => EndsLast(v, i)
           /\ AckBehind(w, i) => AckBehind(v, i)
<1>1. PICK e \in [1 .. Len(v) -> Nat] : Places(w, v, e)
  BY DEF Kept
<1>2. ASSUME NEW k \in 1 .. Len(v), Matters(v[k])
      PROVE  e[k] \in 1 .. Len(w) /\ w[e[k]] = v[k]
  BY <1>1, <1>2 DEF Places
<1>3. ASSUME NEW j \in 1 .. Len(v), NEW k \in 1 .. Len(v), Matters(v[j]), Matters(v[k])
      PROVE  j < k <=> e[j] < e[k]
  <2>1. j < k => e[j] < e[k]
    BY <1>1, <1>3 DEF Places
  <2>2. k < j => e[k] < e[j]
    BY <1>1, <1>3 DEF Places
  <2> QED BY <2>1, <2>2
<1>4. ASSUME NEW m \in 1 .. Len(w), Matters(w[m])
      PROVE  \E n \in 1 .. Len(v) : e[n] = m /\ v[n] = w[m]
  BY <1>1, <1>4 DEF Places
<1>5. ASSUME StartsOnce(w, i) PROVE StartsOnce(v, i)
  <2> SUFFICES ASSUME NEW j \in 1 .. Len(v), NEW k \in 1 .. Len(v),
                      Of(v[j], i) /\ v[j].type = "started", Of(v[k], i) /\ v[k].type = "started"
               PROVE  j = k
    BY DEF StartsOnce
  <2>1. Matters(v[j]) /\ Matters(v[k])
    BY OfMatters
  <2>2. e[j] = e[k]
    BY <1>2, <1>5, <2>1 DEF StartsOnce
  <2> QED BY <1>3, <2>1, <2>2
<1>6. ASSUME StartsFirst(w, i) PROVE StartsFirst(v, i)
  <2> SUFFICES ASSUME NEW k \in 1 .. Len(v), Of(v[k], i), v[k].type # "started"
               PROVE  \E m \in 1 .. k - 1 : Of(v[m], i) /\ v[m].type = "started"
    BY DEF StartsFirst
  <2>1. Matters(v[k])
    BY OfMatters
  <2>2. PICK m \in 1 .. e[k] - 1 : Of(w[m], i) /\ w[m].type = "started"
    BY <1>2, <1>6, <2>1 DEF StartsFirst
  <2>3. m \in 1 .. Len(w) /\ m < e[k] /\ Matters(w[m])
    BY <1>2, <2>1, <2>2, OfMatters
  <2>4. PICK n \in 1 .. Len(v) : e[n] = m /\ v[n] = w[m]
    BY <1>4, <2>3
  <2>5. n < k
    BY <1>3, <2>1, <2>3, <2>4
  <2> QED BY <2>2, <2>4, <2>5
<1>7. ASSUME EndsLast(w, i) PROVE EndsLast(v, i)
  <2> SUFFICES ASSUME NEW k \in 1 .. Len(v), Ends(v[k], i), NEW m \in (k + 1) .. Len(v),
                      Counted(v[m], i)
               PROVE  FALSE
    BY DEF EndsLast
  <2>1. Matters(v[k]) /\ Matters(v[m]) /\ m \in 1 .. Len(v) /\ k < m
    BY OfMatters DEF Ends, Counted
  <2>2. e[k] < e[m] /\ e[m] \in 1 .. Len(w) /\ e[k] \in 1 .. Len(w)
    BY <1>2, <1>3, <2>1
  <2>3. e[m] \in (e[k] + 1) .. Len(w)
    BY <2>2
  <2> QED BY <1>2, <1>7, <2>1, <2>2, <2>3 DEF EndsLast
<1>8. ASSUME AckBehind(w, i) PROVE AckBehind(v, i)
  <2> SUFFICES ASSUME NEW k \in 1 .. Len(v), v[k].type = "shutdown_ack"
               PROVE  \E m \in 1 .. k - 1 : Ends(v[m], i)
    BY DEF AckBehind
  <2>1. Matters(v[k])
    BY OfMatters
  <2>2. PICK m \in 1 .. e[k] - 1 : Ends(w[m], i)
    BY <1>2, <1>8, <2>1 DEF AckBehind
  <2>3. m \in 1 .. Len(w) /\ m < e[k] /\ Matters(w[m])
    BY <1>2, <2>1, <2>2, OfMatters DEF Ends
  <2>4. PICK n \in 1 .. Len(v) : e[n] = m /\ v[n] = w[m]
    BY <1>4, <2>3
  <2>5. n < k
    BY <1>3, <2>1, <2>3, <2>4
  <2> QED BY <2>2, <2>4, <2>5
<1> QED BY <1>5, <1>6, <1>7, <1>8

LEMMA GrownHas ==
    ASSUME NEW w \in Seq(PluginFrame), NEW v \in Seq(PluginFrame), NEW f \in PluginFrame,
           Grown(w, v, f), NEW i \in RequestId
    PROVE  /\ Some(v, i) <=> Some(w, i) \/ Of(f, i)
           /\ \A t : Has(v, i, t) <=> Has(w, i, t) \/ (Of(f, i) /\ f.type = t)
           /\ HasEnd(v, i) <=> HasEnd(w, i) \/ Ends(f, i)
           /\ HasCounted(v, i) <=> HasCounted(w, i) \/ Counted(f, i)
           /\ HasAck(v) <=> HasAck(w) \/ f.type = "shutdown_ack"
<1>1. \A k \in 1 .. Len(v) : v[k] = f \/ \E m \in 1 .. Len(w) : w[m] = v[k]
  BY DEF Grown
<1>2. \A m \in 1 .. Len(w) : \E k \in 1 .. Len(v) : v[k] = w[m]
  BY DEF Grown
<1>3. \E k \in 1 .. Len(v) : v[k] = f
  BY DEF Grown
<1>4. Some(v, i) <=> Some(w, i) \/ Of(f, i)
  <2>1. Some(v, i) => Some(w, i) \/ Of(f, i)
    BY <1>1 DEF Some
  <2>2. Some(w, i) \/ Of(f, i) => Some(v, i)
    BY <1>2, <1>3 DEF Some
  <2> QED BY <2>1, <2>2
<1>5. ASSUME NEW t PROVE Has(v, i, t) <=> Has(w, i, t) \/ (Of(f, i) /\ f.type = t)
  <2>1. Has(v, i, t) => Has(w, i, t) \/ (Of(f, i) /\ f.type = t)
    BY <1>1 DEF Has
  <2>2. Has(w, i, t) \/ (Of(f, i) /\ f.type = t) => Has(v, i, t)
    BY <1>2, <1>3 DEF Has
  <2> QED BY <2>1, <2>2
<1>6. HasEnd(v, i) <=> HasEnd(w, i) \/ Ends(f, i)
  <2>1. HasEnd(v, i) => HasEnd(w, i) \/ Ends(f, i)
    BY <1>1 DEF HasEnd
  <2>2. HasEnd(w, i) \/ Ends(f, i) => HasEnd(v, i)
    BY <1>2, <1>3 DEF HasEnd
  <2> QED BY <2>1, <2>2
<1>7. HasCounted(v, i) <=> HasCounted(w, i) \/ Counted(f, i)
  <2>1. HasCounted(v, i) => HasCounted(w, i) \/ Counted(f, i)
    BY <1>1 DEF HasCounted
  <2>2. HasCounted(w, i) \/ Counted(f, i) => HasCounted(v, i)
    BY <1>2, <1>3 DEF HasCounted
  <2> QED BY <2>1, <2>2
<1>8. HasAck(v) <=> HasAck(w) \/ f.type = "shutdown_ack"
  <2>1. HasAck(v) => HasAck(w) \/ f.type = "shutdown_ack"
    BY <1>1 DEF HasAck
  <2>2. HasAck(w) \/ f.type = "shutdown_ack" => HasAck(v)
    BY <1>2, <1>3 DEF HasAck
  <2> QED BY <2>1, <2>2
<1> QED BY <1>4, <1>5, <1>6, <1>7, <1>8

LEMMA GrownOrder ==
    ASSUME NEW w \in Seq(PluginFrame), NEW v \in Seq(PluginFrame), NEW f \in PluginFrame,
           Grown(w, v, f), NEW i \in RequestId
    PROVE  /\ StartsOnce(w, i) /\ (Of(f, i) /\ f.type = "started" => ~Has(w, i, "started"))
                  => StartsOnce(v, i)
           /\ StartsFirst(w, i) /\ (Of(f, i) /\ f.type # "started" => Has(w, i, "started"))
                  => StartsFirst(v, i)
           /\ EndsLast(w, i) /\ (Counted(f, i) => ~HasEnd(w, i)) => EndsLast(v, i)
           /\ AckBehind(w, i) /\ (f.type = "shutdown_ack" => HasEnd(w, i)) => AckBehind(v, i)
<1>1. /\ Len(w) \in Nat /\ Len(v) = Len(w) + 1 /\ v[Len(w) + 1] = f
      /\ \A k \in 1 .. Len(w) : v[k] = w[k]
  BY DEF Grown
<1>2. ASSUME StartsOnce(w, i), Of(f, i) /\ f.type = "started" => ~Has(w, i, "started")
      PROVE  StartsOnce(v, i)
  BY <1>1, <1>2 DEF StartsOnce, Has
<1>3. ASSUME StartsFirst(w, i), Of(f, i) /\ f.type # "started" => Has(w, i, "started")
      PROVE  StartsFirst(v, i)
  <2> SUFFICES ASSUME NEW k \in 1 .. Len(v), Of(v[k], i), v[k].type # "started"
               PROVE  \E m \in 1 .. k - 1 : Of(v[m], i) /\ v[m].type = "started"
    BY DEF StartsFirst
  <2>1. CASE k \in 1 .. Len(w)
    BY <1>1, <1>3, <2>1 DEF StartsFirst
  <2>2. CASE k = Len(w) + 1
    BY <1>1, <1>3, <2>2 DEF Has
  <2> QED BY <1>1, <2>1, <2>2
<1>4. ASSUME EndsLast(w, i), Counted(f, i) => ~HasEnd(w, i) PROVE EndsLast(v, i)
  BY <1>1, <1>4 DEF EndsLast, HasEnd
<1>5. ASSUME AckBehind(w, i), f.type = "shutdown_ack" => HasEnd(w, i) PROVE AckBehind(v, i)
  <2> SUFFICES ASSUME NEW k \in 1 .. Len(v), v[k].type = "shutdown_ack"
               PROVE  \E m \in 1 .. k - 1 : Ends(v[m], i)
    BY DEF AckBehind
  <2>1. CASE k \in 1 .. Len(w)
    BY <1>1, <1>5, <2>1 DEF AckBehind
  <2>2. CASE k = Len(w) + 1
    BY <1>1, <1>5, <2>2 DEF HasEnd
  <2> QED BY <1>1, <2>1, <2>2
<1> QED BY <1>2, <1>3, <1>4, <1>5

LEMMA ShorterHas ==
    ASSUME NEW w \in Seq(PluginFrame), NEW v \in Seq(PluginFrame), Shorter(w, v),
           NEW i \in RequestId
    PROVE  /\ Some(w, i) <=> Some(v, i) \/ Of(w[1], i)
           /\ \A t : Has(w, i, t) <=> Has(v, i, t) \/ (Of(w[1], i) /\ w[1].type = t)
           /\ HasEnd(w, i) <=> HasEnd(v, i) \/ Ends(w[1], i)
           /\ HasCounted(w, i) <=> HasCounted(v, i) \/ Counted(w[1], i)
           /\ HasAck(w) <=> HasAck(v) \/ w[1].type = "shutdown_ack"
<1>0. Len(w) \in Nat /\ Len(v) \in Nat /\ Len(w) = Len(v) + 1
  BY DEF Shorter
<1>1. \A k \in 1 .. Len(w) : k = 1 \/ \E m \in 1 .. Len(v) : v[m] = w[k]
  <2> SUFFICES ASSUME NEW k \in 1 .. Len(w), k # 1 PROVE \E m \in 1 .. Len(v) : v[m] = w[k]
    OBVIOUS
  <2>1. k - 1 \in 1 .. Len(v) /\ v[k - 1] = w[k]
    BY <1>0 DEF Shorter
  <2> QED BY <2>1
<1>2. \A m \in 1 .. Len(v) : \E k \in 1 .. Len(w) : v[m] = w[k]
  <2> SUFFICES ASSUME NEW m \in 1 .. Len(v) PROVE \E k \in 1 .. Len(w) : v[m] = w[k]
    OBVIOUS
  <2>1. m + 1 \in 1 .. Len(w) /\ v[m] = w[m + 1]
    BY <1>0 DEF Shorter
  <2> QED BY <2>1
<1>3. 1 \in 1 .. Len(w)
  BY <1>0
<1>4. Some(w, i) <=> Some(v, i) \/ Of(w[1], i)
  <2>1. Some(w, i) => Some(v, i) \/ Of(w[1], i)
    BY <1>1 DEF Some
  <2>2. Some(v, i) \/ Of(w[1], i) => Some(w, i)
    BY <1>2, <1>3 DEF Some
  <2> QED BY <2>1, <2>2
<1>5. ASSUME NEW t PROVE Has(w, i, t) <=> Has(v, i, t) \/ (Of(w[1], i) /\ w[1].type = t)
  <2>1. Has(w, i, t) => Has(v, i, t) \/ (Of(w[1], i) /\ w[1].type = t)
    BY <1>1 DEF Has
  <2>2. Has(v, i, t) => Has(w, i, t)
    BY <1>2 DEF Has
  <2>3. Of(w[1], i) /\ w[1].type = t => Has(w, i, t)
    BY <1>3 DEF Has
  <2> QED BY <2>1, <2>2, <2>3
<1>6. HasEnd(w, i) <=> HasEnd(v, i) \/ Ends(w[1], i)
  <2>1. HasEnd(w, i) => HasEnd(v, i) \/ Ends(w[1], i)
    BY <1>1 DEF HasEnd
  <2>2. HasEnd(v, i) \/ Ends(w[1], i) => HasEnd(w, i)
    BY <1>2, <1>3 DEF HasEnd
  <2> QED BY <2>1, <2>2
<1>7. HasCounted(w, i) <=> HasCounted(v, i) \/ Counted(w[1], i)
  <2>1. HasCounted(w, i) => HasCounted(v, i) \/ Counted(w[1], i)
    BY <1>1 DEF HasCounted
  <2>2. HasCounted(v, i) \/ Counted(w[1], i) => HasCounted(w, i)
    BY <1>2, <1>3 DEF HasCounted
  <2> QED BY <2>1, <2>2
<1>8. HasAck(w) <=> HasAck(v) \/ w[1].type = "shutdown_ack"
  <2>1. HasAck(w) => HasAck(v) \/ w[1].type = "shutdown_ack"
    BY <1>1 DEF HasAck
  <2>2. HasAck(v) \/ w[1].type = "shutdown_ack" => HasAck(w)
    BY <1>2, <1>3 DEF HasAck
  <2> QED BY <2>1, <2>2
<1> QED BY <1>4, <1>5, <1>6, <1>7, <1>8

LEMMA ShorterOrder ==
    ASSUME NEW w \in Seq(PluginFrame), NEW v \in Seq(PluginFrame), Shorter(w, v),
           NEW i \in RequestId
    PROVE  /\ StartsOnce(w, i) => StartsOnce(v, i)
           /\ StartsOnce(w, i) /\ Of(w[1], i) /\ w[1].type = "started" => ~Has(v, i, "started")
           /\ StartsFirst(w, i) /\ ~Of(w[1], i) => StartsFirst(v, i)
           /\ StartsFirst(w, i) /\ Of(w[1], i) => w[1].type = "started"
           /\ EndsLast(w, i) => EndsLast(v, i)
           /\ EndsLast(w, i) /\ Ends(w[1], i) => ~HasCounted(v, i)
           /\ AckBehind(w, i) /\ ~Ends(w[1], i) => AckBehind(v, i)
           /\ AckBehind(w, i) => w[1].type # "shutdown_ack"
<1>0. Len(w) \in Nat /\ Len(v) \in Nat /\ Len(w) = Len(v) + 1
  BY DEF Shorter
<1>1. \A k \in 1 .. Len(v) : v[k] = w[k + 1] /\ k + 1 \in 2 .. Len(w) /\ k + 1 \in 1 .. Len(w)
  BY <1>0 DEF Shorter
<1>2. ASSUME StartsOnce(w, i) PROVE StartsOnce(v, i)
  <2> SUFFICES ASSUME NEW j \in 1 .. Len(v), NEW k \in 1 .. Len(v),
                      Of(v[j], i) /\ v[j].type = "started", Of(v[k], i) /\ v[k].type = "started"
               PROVE  j = k
    BY DEF StartsOnce
  <2>1. j + 1 = k + 1
    BY <1>1, <1>2 DEF StartsOnce
  <2> QED BY <2>1
<1>3. ASSUME StartsOnce(w, i), Of(w[1], i), w[1].type = "started" PROVE ~Has(v, i, "started")
  <2> SUFFICES ASSUME NEW k \in 1 .. Len(v), Of(v[k], i), v[k].type = "started" PROVE FALSE
    BY DEF Has
  <2>1. 1 \in 1 .. Len(w) /\ k + 1 # 1
    BY <1>0
  <2> QED BY <1>1, <1>3, <2>1 DEF StartsOnce
<1>4. ASSUME StartsFirst(w, i), ~Of(w[1], i) PROVE StartsFirst(v, i)
  <2> SUFFICES ASSUME NEW k \in 1 .. Len(v), Of(v[k], i), v[k].type # "started"
               PROVE  \E m \in 1 .. k - 1 : Of(v[m], i) /\ v[m].type = "started"
    BY DEF StartsFirst
  <2>1. PICK m \in 1 .. (k + 1) - 1 : Of(w[m], i) /\ w[m].type = "started"
    BY <1>1, <1>4 DEF StartsFirst
  <2>2. m # 1
    BY <1>4, <2>1
  <2>3. m - 1 \in 1 .. k - 1 /\ m - 1 \in 1 .. Len(v) /\ (m - 1) + 1 = m
    BY <1>0, <2>2
  <2>4. v[m - 1] = w[m]
    BY <1>1, <2>3
  <2> QED BY <2>1, <2>3, <2>4
<1>5. ASSUME StartsFirst(w, i), Of(w[1], i) PROVE w[1].type = "started"
  <2>1. 1 \in 1 .. Len(w) /\ \A m \in 1 .. 1 - 1 : FALSE
    BY <1>0
  <2> QED BY <1>5, <2>1 DEF StartsFirst
<1>6. ASSUME EndsLast(w, i) PROVE EndsLast(v, i)
  <2> SUFFICES ASSUME NEW k \in 1 .. Len(v), Ends(v[k], i), NEW m \in (k + 1) .. Len(v)
               PROVE  ~Counted(v[m], i)
    BY DEF EndsLast
  <2>1. m + 1 \in (k + 1 + 1) .. Len(w) /\ m \in 1 .. Len(v)
    BY <1>0
  <2> QED BY <1>1, <1>6, <2>1 DEF EndsLast
<1>7. ASSUME EndsLast(w, i), Ends(w[1], i) PROVE ~HasCounted(v, i)
  <2> SUFFICES ASSUME NEW m \in 1 .. Len(v) PROVE ~Counted(v[m], i)
    BY DEF HasCounted
  <2>1. 1 \in 1 .. Len(w) /\ m + 1 \in (1 + 1) .. Len(w)
    BY <1>0
  <2> QED BY <1>1, <1>7, <2>1 DEF EndsLast
<1>8. ASSUME AckBehind(w, i), ~Ends(w[1], i) PROVE AckBehind(v, i)
  <2> SUFFICES ASSUME NEW k \in 1 .. Len(v), v[k].type = "shutdown_ack"
               PROVE  \E m \in 1 .. k - 1 : Ends(v[m], i)
    BY DEF AckBehind
  <2>1. PICK m \in 1 .. (k + 1) - 1 : Ends(w[m], i)
    BY <1>1, <1>8 DEF AckBehind
  <2>2. m # 1
    BY <1>8, <2>1
  <2>3. m - 1 \in 1 .. k - 1 /\ m - 1 \in 1 .. Len(v) /\ (m - 1) + 1 = m
    BY <1>0, <2>2
  <2>4. v[m - 1] = w[m]
    BY <1>1, <2>3
  <2> QED BY <2>1, <2>3, <2>4
<1>9. ASSUME AckBehind(w, i) PROVE w[1].type # "shutdown_ack"
  <2>1. 1 \in 1 .. Len(w) /\ \A m \in 1 .. 1 - 1 : FALSE
    BY <1>0
  <2> QED BY <1>9, <2>1 DEF AckBehind
<1> QED BY <1>2, <1>3, <1>4, <1>5, <1>6, <1>7, <1>8, <1>9

LEMMA PrefixHas ==
    ASSUME NEW w \in Seq(PluginFrame), NEW v \in Seq(PluginFrame), Prefix(w, v),
           NEW i \in RequestId
    PROVE  /\ Some(v, i) => Some(w, i)
           /\ \A t : Has(v, i, t) => Has(w, i, t)
           /\ HasEnd(v, i) => HasEnd(w, i)
           /\ HasCounted(v, i) => HasCounted(w, i)
           /\ HasAck(v) => HasAck(w)
<1>1. \A k \in 1 .. Len(v) : k \in 1 .. Len(w) /\ v[k] = w[k]
  BY DEF Prefix
<1> QED BY <1>1 DEF Some, Has, HasEnd, HasCounted, HasAck

LEMMA PrefixOrder ==
    ASSUME NEW w \in Seq(PluginFrame), NEW v \in Seq(PluginFrame), Prefix(w, v),
           NEW i \in RequestId
    PROVE  /\ StartsOnce(w, i) => StartsOnce(v, i)
           /\ StartsFirst(w, i) => StartsFirst(v, i)
           /\ EndsLast(w, i) => EndsLast(v, i)
           /\ AckBehind(w, i) => AckBehind(v, i)
<1>1. \A k \in 1 .. Len(v) : k \in 1 .. Len(w) /\ v[k] = w[k]
  BY DEF Prefix
<1>2. Len(v) \in Nat /\ Len(w) \in Nat /\ Len(v) <= Len(w)
  BY DEF Prefix
<1>3. StartsOnce(w, i) => StartsOnce(v, i)
  BY <1>1 DEF StartsOnce
<1>4. StartsFirst(w, i) => StartsFirst(v, i)
  BY <1>1, <1>2 DEF StartsFirst
<1>5. EndsLast(w, i) => EndsLast(v, i)
  BY <1>1, <1>2 DEF EndsLast
<1>6. AckBehind(w, i) => AckBehind(v, i)
  BY <1>1, <1>2 DEF AckBehind
<1> QED BY <1>3, <1>4, <1>5, <1>6

(***************************************************************************)
(* Types.                                                                  *)
(***************************************************************************)
\* tx.send leaves a queue of frames a queue of frames.
LEMMA SendType ==
    ASSUME NEW q \in Seq(PluginFrame), NEW f \in PluginFrame
    PROVE  SendTo(q, f) \in Seq(PluginFrame)
BY DEF SendTo

\* The frames the two sides build.
LEMMA FrameType ==
    /\ \A t \in PluginType : Control(t) \in PluginFrame
    /\ \A t \in PluginType, i \in RequestId \cup {None} : ForRequest(t, i) \in PluginFrame
    /\ \A t \in PluginType, n \in Nonce \cup {None} : WithNonce(t, n) \in PluginFrame
BY DEF Control, ForRequest, WithNonce, PluginFrame, None

LEMMA HostFrameType ==
    /\ Control("hello") \in HostFrame /\ Control("shutdown") \in HostFrame
    /\ Control("torn") \in HostFrame
    /\ \A i \in RequestId : ForRequest("invoke", i) \in HostFrame
    /\ \A i \in RequestId : ForRequest("cancel", i) \in HostFrame
    /\ \A n \in Nonce : WithNonce("ping", n) \in HostFrame
BY DEF Control, ForRequest, WithNonce, HostFrame, HostType, None

\* The head and the tail of a queue, by index.
LEMMA TailFacts ==
    ASSUME NEW S, NEW q \in Seq(S), q # <<>>
    PROVE  /\ Len(q) \in Nat \ {0}
           /\ Head(q) = q[1] /\ Head(q) \in S
           /\ Tail(q) \in Seq(S)
           /\ Len(Tail(q)) = Len(q) - 1
           /\ \A k \in 1 .. Len(Tail(q)) : Tail(q)[k] = q[k + 1] /\ k + 1 \in 1 .. Len(q)
OBVIOUS

LEMMA AppendFacts ==
    ASSUME NEW S, NEW q \in Seq(S), NEW f \in S
    PROVE  /\ Len(q) \in Nat
           /\ Append(q, f) \in Seq(S)
           /\ Len(Append(q, f)) = Len(q) + 1
           /\ \A k \in 1 .. Len(q) : Append(q, f)[k] = q[k]
           /\ Append(q, f)[Len(q) + 1] = f
OBVIOUS

LEMMA EmptyFacts ==
    /\ \A S : <<>> \in Seq(S)
    /\ Len(<<>>) = 0
OBVIOUS

\* Taking the head of the host's pipe.
LEMMA StdinHead ==
    ASSUME TypeOK, stdin # <<>>
    PROVE  /\ Head(stdin) \in HostFrame
           /\ Tail(stdin) \in Seq(HostFrame)
           /\ Len(Tail(stdin)) <= PipeCapacity
BY TransportAssumption DEF TypeOK, TransportTypeOK

\* A write by the host, and one by the plugin, keeps a pipe a bounded queue.
LEMMA StdinWrite ==
    ASSUME TypeOK, NEW f \in HostFrame, HostWrites(f)
    PROVE  stdin' \in Seq(HostFrame) /\ Len(stdin') <= PipeCapacity
BY TransportAssumption DEF TypeOK, TransportTypeOK, HostWrites

LEMMA StdoutWrite ==
    ASSUME TypeOK, NEW f \in PluginFrame, PluginWrites(f)
    PROVE  stdout' \in Seq(PluginFrame) /\ Len(stdout') <= PipeCapacity
BY TransportAssumption DEF TypeOK, TransportTypeOK, PluginWrites, StdoutHasRoom

LEMMA TypeInit == Init => TypeOK
<1> SUFFICES ASSUME Init PROVE TypeOK
  OBVIOUS
<1> USE TransportAssumption
<1>1. TransportTypeOK
  <2>1. stdin \in Seq(HostFrame) /\ stdout \in Seq(PluginFrame)
    BY EmptyFacts DEF Init, TransportInit
  <2>2. Len(stdin) <= PipeCapacity /\ Len(stdout) <= PipeCapacity
    BY EmptyFacts DEF Init, TransportInit
  <2>3. stdinOpen \in BOOLEAN /\ stdoutOpen \in BOOLEAN /\ killed \in BOOLEAN
    BY Zenon DEF Init, TransportInit
  <2> QED BY <2>1, <2>2, <2>3 DEF Init, TransportInit, TransportTypeOK
<1>2. ClientTypeOK
  <2>1. /\ inbox \in [RequestId -> Seq(PluginFrame)] /\ globalq \in Seq(PluginFrame)
        /\ transcript \in [RequestId -> Seq(PluginType)]
    BY EmptyFacts DEF Init, ClientInit
  <2>2. nextId \in 1 .. MaxRequests + 1 /\ pings \in Seq(Nonce) /\ Len(pings) <= MaxPings
    BY EmptyFacts DEF Init, ClientInit
  <2> QED BY <2>1, <2>2 DEF Init, ClientInit, ClientTypeOK, ClientPhase, InvocationState, None
<1>3. ServerTypeOK
  BY ServerAssumption, EmptyFacts DEF Init, ServerInit, ServerTypeOK, Phase, TaskState, None
<1> QED BY <1>1, <1>2, <1>3 DEF TypeOK

LEMMA ClientTypeStep == TypeOK /\ Client => TypeOK'
<1> SUFFICES ASSUME TypeOK, Client PROVE TypeOK'
  OBVIOUS
<1> USE TransportAssumption, ClientAssumption
<1>0. ServerTypeOK'
  BY DEF Client, serverVars, TypeOK, ServerTypeOK
<1>a. ASSUME SpawnFails, stdout' \in Seq(PluginFrame), Len(stdout') <= PipeCapacity PROVE TypeOK'
  BY <1>0, <1>a DEF SpawnFails, TypeOK, TransportTypeOK, ClientTypeOK, ClientPhase
<1>b. ASSUME ClientDropped PROVE TypeOK'
  BY <1>0, <1>b, EmptyFacts DEF ClientDropped, TypeOK, TransportTypeOK, ClientTypeOK, ClientPhase
<1>1. CASE SpawnRefused \/ PingFails
  BY <1>0, <1>1 DEF SpawnRefused, PingFails, transportVars, TypeOK, TransportTypeOK, ClientTypeOK,
                    ClientPhase
<1>2. ASSUME NEW b, Spawn(b) PROVE TypeOK'
  BY <1>0, <1>2 DEF Spawn, TypeOK, TransportTypeOK, ClientTypeOK, ClientPhase
<1>3. ASSUME NEW a, NEW b, Handshake(a, b) PROVE TypeOK'
  <2>1. stdout' \in Seq(PluginFrame) /\ Len(stdout') <= PipeCapacity
    BY <1>3, TailFacts DEF Handshake, TypeOK, TransportTypeOK
  <2>2. CASE SpawnFails
    BY <1>a, <2>1, <2>2
  <2>3. CASE ~SpawnFails
    BY <1>0, <1>3, <2>1, <2>3 DEF Handshake, TypeOK, TransportTypeOK, ClientTypeOK, ClientPhase
  <2> QED BY <2>2, <2>3
<1>4. CASE WriteHello
  <2>1. CASE HostWrites(Control("hello"))
    <3>1. stdin' \in Seq(HostFrame) /\ Len(stdin') <= PipeCapacity
      BY <2>1, HostFrameType, StdinWrite
    <3>2. CASE ~SpawnFails
      BY <1>0, <1>4, <3>1, <3>2 DEF WriteHello, TypeOK, TransportTypeOK, ClientTypeOK, ClientPhase
    <3>3. CASE SpawnFails
      BY <1>4, <1>a, <3>3 DEF WriteHello, TypeOK, TransportTypeOK, ClientPhase, SpawnFails
    <3> QED BY <3>2, <3>3
  <2>2. CASE SpawnFails /\ UNCHANGED stdout
    BY <1>a, <2>2 DEF TypeOK, TransportTypeOK
  <2> QED BY <1>4, <2>1, <2>2 DEF WriteHello
<1>5. CASE HandshakeFails
  BY <1>a, <1>5 DEF HandshakeFails, TypeOK, TransportTypeOK
<1>6. CASE PingRecv
  <2>1. globalq' \in Seq(PluginFrame)
    BY <1>6, TailFacts DEF PingRecv, TypeOK, ClientTypeOK
  <2> QED BY <1>0, <1>6, <2>1 DEF PingRecv, transportVars, TypeOK, TransportTypeOK, ClientTypeOK,
                                  ClientPhase
<1>7. CASE ShutdownRecv
  <2>1. Tail(globalq) \in Seq(PluginFrame)
    BY <1>7, TailFacts DEF ShutdownRecv, TypeOK, ClientTypeOK
  <2> QED BY <1>0, <1>7, <1>b, <2>1 DEF ShutdownRecv, transportVars, TypeOK, TransportTypeOK,
                                        ClientTypeOK, ClientPhase
<1>8. CASE ShutdownFails \/ KillReap \/ Drop
  BY <1>8, <1>b DEF ShutdownFails, KillReap, Drop
<1>9. CASE Reap \/ ReapTimeout
  BY <1>0, <1>9, EmptyFacts DEF Reap, ReapTimeout, ReaderRuns, TypeOK, TransportTypeOK,
                                ClientTypeOK, ClientPhase, None
<1>10. CASE InvokeRegister
  <2>1. nextId' \in 1 .. MaxRequests + 1
    BY <1>10 DEF InvokeRegister, RequestId
  <2> QED BY <1>0, <1>10, <2>1 DEF InvokeRegister, transportVars, TypeOK, TransportTypeOK,
                                   ClientTypeOK, InvocationState
<1>11. CASE PingWrite
  <2>1. pings' \in Seq(Nonce) /\ Len(pings') <= MaxPings
    BY <1>11, AppendFacts DEF PingWrite, TypeOK, ClientTypeOK
  <2>2. stdin' \in Seq(HostFrame) /\ Len(stdin') <= PipeCapacity
    BY <1>11, HostFrameType, StdinWrite DEF PingWrite
  <2> QED BY <1>0, <1>11, <2>1, <2>2 DEF PingWrite, TypeOK, TransportTypeOK, ClientTypeOK,
                                         ClientPhase
<1>12. CASE ShutdownWrite
  <2>1. CASE ClientDropped
    BY <1>b, <2>1
  <2>2. CASE ~ClientDropped
    <3>1. stdin' \in Seq(HostFrame) /\ Len(stdin') <= PipeCapacity
      BY <1>12, <2>2, HostFrameType, StdinWrite DEF ShutdownWrite
    <3> QED BY <1>0, <1>12, <2>2, <3>1 DEF ShutdownWrite, TypeOK, TransportTypeOK, ClientTypeOK,
                                           ClientPhase
  <2> QED BY <2>1, <2>2
<1>13. CASE ReaderRoute
  <2>1. /\ stdout' \in Seq(PluginFrame) /\ Len(stdout') <= PipeCapacity
        /\ Head(stdout) \in PluginFrame
    BY <1>13, TailFacts DEF ReaderRoute, TypeOK, TransportTypeOK
  <2>2. PICK f \in PluginFrame : f = Head(stdout)
    BY <2>1
  <2>3. \A i : Delivered(i, f) \in [RequestId -> Seq(PluginFrame)]
    <3> SUFFICES ASSUME NEW i PROVE Delivered(i, f) \in [RequestId -> Seq(PluginFrame)]
      OBVIOUS
    <3>1. CASE i \in clientPending
      <4>1. i \in RequestId /\ inbox[i] \in Seq(PluginFrame)
        BY <3>1 DEF TypeOK, ClientTypeOK
      <4>2. Append(inbox[i], f) \in Seq(PluginFrame)
        BY <4>1, AppendFacts
      <4> QED BY <4>1, <4>2 DEF Delivered, TypeOK, ClientTypeOK
    <3>2. CASE i \notin clientPending
      BY <3>2 DEF Delivered, TypeOK, ClientTypeOK
    <3> QED BY <3>1, <3>2
  <2>4. request_id(f) \in RequestId \cup {None}
    BY DEF request_id, PluginFrame
  <2>5. Append(globalq, f) \in Seq(PluginFrame)
    BY AppendFacts DEF TypeOK, ClientTypeOK
  <2>6. inbox' \in [RequestId -> Seq(PluginFrame)]
    BY <1>13, <2>2, <2>3 DEF ReaderRoute, ReaderBreaks, TypeOK, ClientTypeOK
  <2>7. globalq' \in Seq(PluginFrame)
    BY <1>13, <2>2, <2>5 DEF ReaderRoute, ReaderBreaks, TypeOK, ClientTypeOK
  <2>8. /\ reader' \in {"read", "remove", "stopped"}
        /\ readerId' \in RequestId \cup {None}
        /\ clientPending' \subseteq RequestId
    BY <1>13, <2>2, <2>4 DEF ReaderRoute, ReaderBreaks, Cleared, TypeOK, ClientTypeOK
  <2>9. stdoutOpen' \in BOOLEAN
    BY <1>13 DEF ReaderRoute, ReaderBreaks, TypeOK, TransportTypeOK
  <2> QED BY <1>0, <1>13, <2>1, <2>6, <2>7, <2>8, <2>9 DEF ReaderRoute, TypeOK, TransportTypeOK,
                                                           ClientTypeOK
<1>14. CASE ReaderRemove \/ ReaderEof
  BY <1>0, <1>14 DEF ReaderRemove, ReaderEof, ReaderBreaks, Cleared, transportVars, TypeOK,
                     TransportTypeOK, ClientTypeOK, None
<1>15. ASSUME NEW i \in RequestId, Invoker(i) \/ Caller(i) \/ CallerChooses(i) PROVE TypeOK'
  <2>1. CASE InvokeWrite(i)
    <3>1. stdin' \in Seq(HostFrame) /\ Len(stdin') <= PipeCapacity
      BY <2>1, HostFrameType, StdinWrite DEF InvokeWrite
    <3> QED BY <1>0, <2>1, <3>1 DEF InvokeWrite, TypeOK, TransportTypeOK, ClientTypeOK,
                                    InvocationState
  <2>2. CASE InvokeFails(i) \/ FinishClosed(i)
    BY <1>0, <2>2 DEF InvokeFails, FinishClosed, transportVars, TypeOK, TransportTypeOK,
                      ClientTypeOK, InvocationState
  <2>3. CASE FinishRecv(i) \/ NextEvent(i)
    <3>1. inbox[i] \in Seq(PluginFrame) /\ transcript[i] \in Seq(PluginType) /\ inbox[i] # <<>>
      BY <2>3 DEF FinishRecv, NextEvent, TypeOK, ClientTypeOK
    <3>2. Head(inbox[i]) \in PluginFrame /\ Tail(inbox[i]) \in Seq(PluginFrame)
      BY <3>1, TailFacts
    <3>3. Append(transcript[i], Head(inbox[i]).type) \in Seq(PluginType)
      BY <3>1, <3>2, AppendFacts DEF PluginFrame
    <3>4. transcript' \in [RequestId -> Seq(PluginType)]
      BY <2>3, <3>3 DEF FinishRecv, NextEvent, TypeOK, ClientTypeOK
    <3>5. inbox' \in [RequestId -> Seq(PluginFrame)]
      BY <2>3, <3>2 DEF FinishRecv, NextEvent, TypeOK, ClientTypeOK
    <3>6. invocation' \in [RequestId -> InvocationState]
      BY <2>3 DEF FinishRecv, NextEvent, Outcome, InvocationState, TypeOK, ClientTypeOK
    <3> QED BY <1>0, <2>3, <3>4, <3>5, <3>6 DEF FinishRecv, NextEvent, transportVars, TypeOK,
                                                TransportTypeOK, ClientTypeOK
  <2>4. CASE Cancel(i)
    <3>1. stdin' \in Seq(HostFrame) /\ Len(stdin') <= PipeCapacity
      BY <2>4, HostFrameType, StdinWrite DEF Cancel
    <3> QED BY <1>0, <2>4, <3>1 DEF Cancel, TypeOK, TransportTypeOK, ClientTypeOK
  <2>5. CASE InvokeDropped(i)
    <3>1. stdin' \in Seq(HostFrame) /\ Len(stdin') <= PipeCapacity
      BY <2>5, HostFrameType, StdinWrite DEF InvokeDropped, TypeOK, TransportTypeOK
    <3> QED BY <1>0, <2>5, <3>1 DEF InvokeDropped, TypeOK, TransportTypeOK, ClientTypeOK,
                                    InvocationState
  <2>6. CASE InvocationDropped(i)
    BY <1>0, <2>6, EmptyFacts DEF InvocationDropped, Dropped, transportVars, TypeOK,
                                  TransportTypeOK, ClientTypeOK, InvocationState
  <2> QED BY <1>15, <2>1, <2>2, <2>3, <2>4, <2>5, <2>6 DEF Invoker, Caller, CallerChooses
<1>16. CASE HostCrash
  <2>1. invocation' \in [RequestId -> InvocationState]
    BY <1>16 DEF HostCrash, Dropped, TypeOK, ClientTypeOK, InvocationState
  <2> QED BY <1>0, <1>16, <2>1, EmptyFacts DEF HostCrash, ReaderRuns, TypeOK, TransportTypeOK,
                                               ClientTypeOK, ClientPhase, None
<1> QED
  BY <1>1, <1>2, <1>3, <1>4, <1>5, <1>6, <1>7, <1>8, <1>9, <1>10, <1>11, <1>12, <1>13, <1>14,
     <1>15, <1>16
  DEF Client, SpawnStep, ClientOwner, OwnerCalls, ReaderTask

LEMMA ServerTypeStep == TypeOK /\ Server => TypeOK'
<1> SUFFICES ASSUME TypeOK, Server PROVE TypeOK'
  OBVIOUS
<1> USE TransportAssumption, ServerAssumption
<1>0. ClientTypeOK'
  BY DEF Server, clientVars, TypeOK, ClientTypeOK
<1>1. CASE ServeHello
  <2>1. stdout' \in Seq(PluginFrame) /\ Len(stdout') <= PipeCapacity
    <3>1. Control("hello") \in PluginFrame
      BY FrameType DEF PluginType
    <3>2. CASE PluginWrites(Control("hello"))
      BY <3>1, <3>2, StdoutWrite
    <3>3. CASE UNCHANGED stdout
      BY <3>3 DEF TypeOK, TransportTypeOK
    <3> QED BY <1>1, <3>2, <3>3 DEF ServeHello
  <2> QED BY <1>0, <1>1, <2>1, StdinHead DEF ServeHello, TypeOK, TransportTypeOK, ServerTypeOK, Phase
<1>2. CASE (RefuseHello \/ ReadTorn \/ ReadPartial \/ LoopShutdown)
  BY <1>0, <1>2, StdinHead DEF RefuseHello, ReadTorn, ReadPartial, LoopShutdown, Receive, TypeOK,
                         TransportTypeOK, ServerTypeOK, Phase
<1>3. CASE LoopHello
  <2>1. ForRequest("error", None) \in PluginFrame
    BY FrameType DEF PluginType
  <2>2. outq' \in Seq(PluginFrame)
    BY <1>3, <2>1, SendType DEF LoopHello, Send, TypeOK, ServerTypeOK
  <2> QED BY <1>0, <1>3, <2>2, StdinHead DEF LoopHello, Receive, TypeOK, TransportTypeOK, ServerTypeOK
<1>4. CASE LoopPing
  <2>1. Head(stdin) \in HostFrame
    BY <1>4, StdinHead DEF LoopPing, Receive
  <2>2. WithNonce("pong", Head(stdin).nonce) \in PluginFrame
    BY <2>1, FrameType DEF PluginType, HostFrame
  <2>3. outq' \in Seq(PluginFrame)
    BY <1>4, <2>2, SendType DEF LoopPing, Send, TypeOK, ServerTypeOK
  <2> QED BY <1>0, <1>4, <2>3, StdinHead DEF LoopPing, Receive, TypeOK, TransportTypeOK, ServerTypeOK
<1>5. CASE LoopCancel
  <2>1. Head(stdin) \in HostFrame
    BY <1>5, StdinHead DEF LoopCancel, Receive
  <2>2. cancelId' \in RequestId \cup {None} /\ cancelled' \subseteq RequestId
    BY <1>5, <2>1 DEF LoopCancel, TokenCancelled, HostFrame, TypeOK, ServerTypeOK
  <2> QED BY <1>0, <1>5, <2>2, StdinHead DEF LoopCancel, Receive, TypeOK, TransportTypeOK,
                                       ServerTypeOK, Phase
<1>6. CASE CancelReturns
  <2>1. ForRequest("error", cancelId) \in PluginFrame
    BY FrameType DEF PluginType, TypeOK, ServerTypeOK
  <2>2. outq' \in Seq(PluginFrame)
    BY <1>6, <2>1, SendType DEF CancelReturns, Send, TypeOK, ServerTypeOK
  <2> QED BY <1>0, <1>6, <2>2 DEF CancelReturns, TypeOK, TransportTypeOK, ServerTypeOK, Phase,
                            transportVars
<1>7. CASE DrainDone
  <2>1. Control("shutdown_ack") \in PluginFrame
    BY FrameType DEF PluginType
  <2>2. outq' \in Seq(PluginFrame)
    BY <1>7, <2>1, SendType DEF DrainDone, Send, TypeOK, ServerTypeOK
  <2> QED BY <1>0, <1>7, <2>2 DEF DrainDone, TypeOK, TransportTypeOK, ServerTypeOK, Phase,
                             transportVars
<1>8. CASE LoopInvoke
  <2> DEFINE i == Head(stdin).id
  <2>1. i \in RequestId
    BY <1>8, StdinHead DEF LoopInvoke, Receive, HostFrame
  <2>2. ForRequest("error", i) \in PluginFrame /\ ForRequest("started", i) \in PluginFrame
    BY <2>1, FrameType DEF PluginType
  <2>3. outq' \in Seq(PluginFrame)
    <3>1. CASE Send(ForRequest("error", i))
      BY <3>1, <2>2, SendType DEF Send, TypeOK, ServerTypeOK
    <3>2. CASE Send(ForRequest("started", i))
      BY <3>2, <2>2, SendType DEF Send, TypeOK, ServerTypeOK
    <3> QED BY <1>8, <3>1, <3>2 DEF LoopInvoke
  <2>4. /\ serverPending' \subseteq RequestId
        /\ cancelled' \subseteq RequestId
        /\ task' \in [RequestId -> TaskState]
        /\ emitted' \in [RequestId -> 0 .. MaxEvents]
        /\ result' \in [RequestId -> {"none", "finished", "error", "panicked"}]
    <3>1. CASE UNCHANGED <<serverPending, cancelled, task, emitted, result>>
      BY <3>1 DEF TypeOK, ServerTypeOK
    <3>2. CASE /\ serverPending' = serverPending \cup {i}
               /\ cancelled' = cancelled \ {i}
               /\ task' = [task EXCEPT ![i] = "running"]
               /\ emitted' = [emitted EXCEPT ![i] = 0]
               /\ result' = [result EXCEPT ![i] = "none"]
      BY <3>2, <2>1 DEF TypeOK, ServerTypeOK, TaskState
    <3> QED BY <1>8, <3>1, <3>2 DEF LoopInvoke
  <2> QED BY <1>0, <1>8, <2>3, <2>4, StdinHead DEF LoopInvoke, Receive, TypeOK, TransportTypeOK,
                                              ServerTypeOK
<1>9. CASE ReadEof
  BY <1>0, <1>9 DEF ReadEof, TypeOK, TransportTypeOK, ServerTypeOK, Phase, transportVars
<1>10. ASSUME NEW i \in RequestId, HandlerTask(i) PROVE TypeOK'
  <2>1. CASE TaskEvent(i)
    <3>1. ForRequest("event", i) \in PluginFrame
      BY FrameType DEF PluginType
    <3>2. outq' \in Seq(PluginFrame)
      BY <2>1, <3>1, SendType DEF TaskEvent, Send, TypeOK, ServerTypeOK
    <3> QED BY <1>0, <2>1, <3>2 DEF TaskEvent, TypeOK, TransportTypeOK, ServerTypeOK,
                                     transportVars
  <2>2. CASE TaskReturn(i)
    <3>1. \A r \in {"finished", "error"} : ForRequest(r, i) \in PluginFrame
      BY FrameType DEF PluginType
    <3>2. outq' \in Seq(PluginFrame)
      <4>1. PICK r \in {"finished", "error"} : Send(ForRequest(r, i))
        BY <2>2 DEF TaskReturn
      <4>2. ForRequest(r, i) \in PluginFrame
        BY <3>1
      <4> QED BY <4>1, <4>2, SendType DEF Send, TypeOK, ServerTypeOK
    <3> QED BY <1>0, <2>2, <3>2 DEF TaskReturn, TypeOK, TransportTypeOK, ServerTypeOK,
                                     TaskState, transportVars
  <2>3. CASE TaskRemove(i) \/ TaskPanic(i)
    BY <1>0, <2>3 DEF TaskRemove, Released, TaskPanic, TypeOK, TransportTypeOK, ServerTypeOK,
                       TaskState, transportVars
  <2> QED BY <1>0, <1>10, <2>1, <2>2, <2>3 DEF HandlerTask
<1>11. CASE StrayOutput
  <2>1. Control("malformed") \in PluginFrame
    BY FrameType DEF PluginType
  <2>2. stdout' \in Seq(PluginFrame) /\ Len(stdout') <= PipeCapacity
    BY <1>11, <2>1, StdoutWrite DEF StrayOutput
  <2> QED BY <1>0, <1>11, <2>2 DEF StrayOutput, TypeOK, TransportTypeOK, ServerTypeOK, serverVars
<1>12. CASE WriterWrites
  <2>1. Head(outq) \in PluginFrame /\ Tail(outq) \in Seq(PluginFrame)
    BY <1>12 DEF WriterWrites, TypeOK, ServerTypeOK
  <2>2. stdout' \in Seq(PluginFrame) /\ Len(stdout') <= PipeCapacity
    BY <1>12, <2>1, StdoutWrite DEF WriterWrites
  <2> QED BY <1>0, <1>12, <2>1, <2>2 DEF WriterWrites, TypeOK, TransportTypeOK, ServerTypeOK
<1>13. CASE (WriterFails \/ WriterEnds)
  BY <1>0, <1>13, EmptyFacts DEF WriterFails, WriterEnds, TypeOK, TransportTypeOK, ServerTypeOK,
                          transportVars
<1>14. CASE (ServeReturns \/ ProcessKilled)
  <2>1. ProcessEnds
    BY <1>14 DEF ServeReturns, ProcessKilled
  <2>2. TransportTypeOK'
    BY <2>1, EmptyFacts DEF ProcessEnds, TypeOK, TransportTypeOK
  <2>3. ServerTypeOK'
    BY <2>1, EmptyFacts DEF ProcessEnds, TypeOK, ServerTypeOK, Phase, TaskState, None
  <2> QED BY <1>0, <1>14, <2>2, <2>3 DEF TypeOK
<1> QED
  BY <1>1, <1>2, <1>3, <1>4, <1>5, <1>6, <1>7, <1>8, <1>9, <1>10, <1>11, <1>12, <1>13, <1>14
  DEF Server, ServerNext, ReadLoop, WriterLoop

LEMMA TypeStep == TypeOK /\ [Next]_vars => TypeOK'
<1>1. TypeOK /\ UNCHANGED vars => TypeOK'
  BY DEF vars, transportVars, serverVars, clientVars, TypeOK, TransportTypeOK, ServerTypeOK,
         ClientTypeOK
<1> QED BY <1>1, ClientTypeStep, ServerTypeStep DEF Next, Stop

\* Client and server keep their types: the pipes are bounded, maps, channels
\* and transcripts hold what they are declared to hold, whatever fails.
THEOREM TypeCorrect == Spec => []TypeOK
BY TypeInit, TypeStep, PTL DEF Spec

(***************************************************************************)
(* The wire, step by step.                                                 *)
(***************************************************************************)
LEMMA ConcatLen ==
    ASSUME NEW a \in Seq(PluginFrame), NEW b \in Seq(PluginFrame)
    PROVE  /\ a \o b \in Seq(PluginFrame)
           /\ Len(a) \in Nat /\ Len(b) \in Nat /\ Len(a \o b) = Len(a) + Len(b)
OBVIOUS

LEMMA Concat ==
    ASSUME NEW a \in Seq(PluginFrame), NEW b \in Seq(PluginFrame)
    PROVE  /\ \A k \in 1 .. Len(a) : (a \o b)[k] = a[k]
           /\ \A k \in 1 .. Len(a \o b) : k > Len(a) => (a \o b)[k] = b[k - Len(a)]
OBVIOUS

LEMMA WireType ==
    /\ TypeOK => Wire \in Seq(PluginFrame)
    /\ TypeOK' => Wire' \in Seq(PluginFrame)
BY ConcatLen DEF Wire, TypeOK, TransportTypeOK, ServerTypeOK

\* tx.send puts a frame behind all that is on the wire, as long as the writer
\* task takes it.
LEMMA WireSend ==
    ASSUME TypeOK, TypeOK', NEW f \in PluginFrame, Send(f), UNCHANGED stdout
    PROVE  /\ writerTask = "running" => Grown(Wire, Wire', f)
           /\ writerTask # "running" => Wire' = Wire
<1>1. CASE writerTask # "running"
  BY <1>1 DEF Wire, Send, SendTo
<1>2. CASE writerTask = "running"
  <2>1. stdout \in Seq(PluginFrame) /\ outq \in Seq(PluginFrame) /\ outq' = Append(outq, f)
    BY <1>2 DEF TypeOK, TransportTypeOK, ServerTypeOK, Send, SendTo
  <2>2. /\ Len(outq) \in Nat /\ Len(outq') = Len(outq) + 1 /\ outq'[Len(outq) + 1] = f
        /\ \A k \in 1 .. Len(outq) : outq'[k] = outq[k]
        /\ outq' \in Seq(PluginFrame)
    BY <2>1, AppendFacts
  <2>3. Wire = stdout \o outq /\ Wire' = stdout \o outq'
    BY DEF Wire
  <2>4. Len(Wire) = Len(stdout) + Len(outq) /\ Len(stdout) \in Nat
    BY <2>1, <2>3, ConcatLen
  <2>5. Len(Wire') = Len(stdout) + Len(outq')
    BY <2>1, <2>2, <2>3, ConcatLen
  <2>6. Len(Wire') = Len(Wire) + 1
    BY <2>2, <2>4, <2>5
  <2>7. Wire'[Len(Wire) + 1] = f
    <3>1. /\ Len(Wire) + 1 \in 1 .. Len(Wire') /\ Len(Wire) + 1 > Len(stdout)
          /\ Len(Wire) + 1 - Len(stdout) = Len(outq) + 1
      BY <2>2, <2>4, <2>6
    <3> QED BY <2>1, <2>2, <2>3, <3>1, Concat
  <2>8. ASSUME NEW k \in 1 .. Len(Wire) PROVE Wire'[k] = Wire[k]
    <3>1. CASE k \in 1 .. Len(stdout)
      BY <2>1, <2>2, <2>3, <3>1, Concat
    <3>2. CASE k > Len(stdout)
      <4>1. k - Len(stdout) \in 1 .. Len(outq) /\ k \in 1 .. Len(Wire')
        BY <2>2, <2>4, <2>6, <3>2
      <4> QED BY <2>1, <2>2, <2>3, <3>2, <4>1, Concat
    <3> QED BY <2>4, <3>1, <3>2
  <2> QED BY <1>2, <2>6, <2>7, <2>8 DEF Grown
<1> QED BY <1>1, <1>2

\* The host's side takes the first frame.
LEMMA WireTake ==
    ASSUME TypeOK, TypeOK', stdout # <<>>, stdout' = Tail(stdout), UNCHANGED outq
    PROVE  Shorter(Wire, Wire') /\ Wire[1] = Head(stdout)
<1>1. /\ stdout \in Seq(PluginFrame) /\ outq \in Seq(PluginFrame) /\ stdout' \in Seq(PluginFrame)
      /\ Len(stdout) \in Nat \ {0} /\ Len(stdout') \in Nat /\ Len(stdout) = Len(stdout') + 1
      /\ \A k \in 1 .. Len(stdout') : stdout'[k] = stdout[k + 1]
      /\ Head(stdout) = stdout[1]
  BY TailFacts DEF TypeOK, TransportTypeOK, ServerTypeOK
<1>2. Wire = stdout \o outq /\ Wire' = stdout' \o outq
  BY DEF Wire
<1>3. Len(Wire) = Len(stdout) + Len(outq) /\ Len(outq) \in Nat
  BY <1>1, <1>2, ConcatLen
<1>4. Len(Wire') = Len(stdout') + Len(outq)
  BY <1>1, <1>2, ConcatLen
<1>5. Len(Wire) = Len(Wire') + 1
  BY <1>1, <1>3, <1>4
<1>6. ASSUME NEW k \in 1 .. Len(Wire') PROVE Wire'[k] = Wire[k + 1]
  <2>0. k + 1 \in 1 .. Len(Wire)
    BY <1>1, <1>3, <1>5
  <2>1. CASE k <= Len(stdout')
    <3>1. k \in 1 .. Len(stdout') /\ k + 1 \in 1 .. Len(stdout)
      BY <1>1, <2>1
    <3> QED BY <1>1, <1>2, <2>0, <3>1, Concat
  <2>2. CASE k > Len(stdout')
    <3>1. k + 1 > Len(stdout) /\ k + 1 - Len(stdout) = k - Len(stdout')
      BY <1>1, <1>3, <2>2
    <3> QED BY <1>1, <1>2, <2>0, <2>2, <3>1, Concat
  <2> QED BY <1>1, <2>1, <2>2
<1>7. Wire[1] = stdout[1]
  <2>1. 1 \in 1 .. Len(stdout)
    BY <1>1
  <2> QED BY <1>1, <1>2, <2>1, Concat
<1> QED BY <1>1, <1>5, <1>6, <1>7 DEF Shorter

\* The channel is dropped with what it held.
LEMMA WireLost ==
    ASSUME TypeOK, TypeOK', outq' = <<>>, UNCHANGED stdout
    PROVE  Prefix(Wire, Wire')
<1>1. stdout \in Seq(PluginFrame) /\ outq \in Seq(PluginFrame) /\ outq' \in Seq(PluginFrame)
  BY DEF TypeOK, TransportTypeOK, ServerTypeOK
<1>2. Wire = stdout \o outq /\ Wire' = stdout \o outq' /\ Len(outq') = 0
  BY EmptyFacts DEF Wire
<1>3. Len(Wire) = Len(stdout) + Len(outq) /\ Len(stdout) \in Nat /\ Len(outq) \in Nat
  BY <1>1, <1>2, ConcatLen
<1>4. Len(Wire') = Len(stdout)
  BY <1>1, <1>2, <1>3, ConcatLen
<1>5. \A k \in 1 .. Len(stdout) : Wire'[k] = stdout[k] /\ Wire[k] = stdout[k]
  BY <1>1, <1>2, Concat
<1> QED BY <1>3, <1>4, <1>5 DEF Prefix

\* Bytes that matter to nobody are written straight to stdout.
LEMMA WireInsert ==
    ASSUME TypeOK, TypeOK', NEW f \in PluginFrame, ~Matters(f), PluginWrites(f), UNCHANGED outq
    PROVE  Kept(Wire, Wire')
<1> DEFINE n == Len(stdout)
           e == [k \in 1 .. Len(Wire') |-> IF k <= n THEN k ELSE k - 1]
<1>1. /\ stdout \in Seq(PluginFrame) /\ outq \in Seq(PluginFrame) /\ stdout' \in Seq(PluginFrame)
      /\ n \in Nat /\ Len(stdout') = n + 1 /\ stdout'[n + 1] = f
      /\ \A k \in 1 .. n : stdout'[k] = stdout[k]
  BY AppendFacts DEF TypeOK, TransportTypeOK, ServerTypeOK, PluginWrites
<1>2. Wire = stdout \o outq /\ Wire' = stdout' \o outq
  BY DEF Wire
<1>3. Len(Wire) = n + Len(outq) /\ Len(outq) \in Nat /\ Len(Wire') = Len(Wire) + 1
  <2>1. Len(Wire) = n + Len(outq) /\ Len(outq) \in Nat
    BY <1>1, <1>2, ConcatLen
  <2>2. Len(Wire') = n + 1 + Len(outq)
    BY <1>1, <1>2, ConcatLen
  <2> QED BY <1>1, <2>1, <2>2
<1> HIDE DEF n
<1>4. /\ \A k \in 1 .. n : Wire[k] = stdout[k] /\ Wire'[k] = stdout[k]
      /\ \A k \in 1 .. Len(Wire) : k > n => Wire[k] = outq[k - n]
      /\ \A k \in 1 .. Len(Wire') : k > n + 1 => Wire'[k] = outq[k - (n + 1)]
      /\ Wire'[n + 1] = f
  BY <1>1, <1>2, Concat DEF n
<1>5. \A k \in 1 .. Len(Wire') : k > n + 1 => Wire'[k] = Wire[k - 1] /\ k - 1 \in 1 .. Len(Wire)
  BY <1>1, <1>3, <1>4
<1>6. e \in [1 .. Len(Wire') -> Nat]
  BY <1>1, <1>3
<1>7. ASSUME NEW m \in 1 .. Len(Wire)
      PROVE  \E j \in 1 .. Len(Wire') : e[j] = m /\ Wire'[j] = Wire[m]
  <2>1. CASE m <= n
    <3>1. m \in 1 .. Len(Wire') /\ m \in 1 .. n
      BY <1>1, <1>3, <2>1
    <3>2. e[m] = m
      BY <2>1, <3>1
    <3>3. Wire'[m] = Wire[m]
      BY <1>4, <3>1
    <3> QED BY <3>1, <3>2, <3>3
  <2>2. CASE m > n
    <3>1. m + 1 \in 1 .. Len(Wire') /\ e[m + 1] = m /\ Wire'[m + 1] = Wire[m]
      BY <1>1, <1>3, <1>5, <2>2
    <3> QED BY <3>1
  <2> QED BY <1>1, <2>1, <2>2
<1>8. \A k \in 1 .. Len(Wire') :
         Matters(Wire'[k]) => e[k] \in 1 .. Len(Wire) /\ Wire[e[k]] = Wire'[k]
  BY <1>1, <1>3, <1>4, <1>5
<1>9. \A j, k \in 1 .. Len(Wire') :
         j < k /\ Matters(Wire'[j]) /\ Matters(Wire'[k]) => e[j] < e[k]
  BY <1>1, <1>3, <1>4
<1> HIDE DEF e
<1> QED BY <1>6, <1>7, <1>8, <1>9 DEF Kept, Places

\* A frame moves from the channel to stdout and keeps its place.
LEMMA WireMove ==
    ASSUME TypeOK, TypeOK', WriterWrites
    PROVE  Kept(Wire, Wire')
<1> DEFINE e == [k \in 1 .. Len(Wire') |-> k]
<1>1. /\ stdout \in Seq(PluginFrame) /\ outq \in Seq(PluginFrame)
      /\ stdout' \in Seq(PluginFrame) /\ outq' \in Seq(PluginFrame)
      /\ Len(stdout) \in Nat /\ Len(stdout') = Len(stdout) + 1
      /\ Len(outq') \in Nat /\ Len(outq) = Len(outq') + 1
      /\ \A k \in 1 .. Len(stdout) : stdout'[k] = stdout[k]
      /\ stdout'[Len(stdout) + 1] = outq[1]
      /\ \A k \in 1 .. Len(outq') : outq'[k] = outq[k + 1]
  BY TailFacts, AppendFacts
  DEF TypeOK, TransportTypeOK, ServerTypeOK, WriterWrites, PluginWrites
<1>2. Wire = stdout \o outq /\ Wire' = stdout' \o outq'
  BY DEF Wire
<1>3. Len(Wire) = Len(stdout) + Len(outq) /\ Len(Wire') = Len(Wire)
  <2>1. Len(Wire) = Len(stdout) + Len(outq)
    BY <1>1, <1>2, ConcatLen
  <2>2. Len(Wire') = Len(stdout') + Len(outq')
    BY <1>1, <1>2, ConcatLen
  <2> QED BY <1>1, <2>1, <2>2
<1>4. ASSUME NEW k \in 1 .. Len(Wire) PROVE Wire'[k] = Wire[k]
  <2>1. CASE k <= Len(stdout)
    <3>1. k \in 1 .. Len(stdout) /\ k \in 1 .. Len(stdout')
      BY <1>1, <2>1
    <3> QED BY <1>1, <1>2, <3>1, Concat
  <2>2. CASE k = Len(stdout) + 1
    <3>1. k \in 1 .. Len(stdout') /\ k > Len(stdout) /\ k - Len(stdout) = 1
      BY <1>1, <2>2
    <3> QED BY <1>1, <1>2, <2>2, <3>1, Concat
  <2>3. CASE k > Len(stdout) + 1
    <3>1. /\ k \in 1 .. Len(Wire') /\ k > Len(stdout') /\ k > Len(stdout)
          /\ k - Len(stdout') \in 1 .. Len(outq')
          /\ k - Len(stdout') + 1 = k - Len(stdout)
      BY <1>1, <1>3, <2>3
    <3>2. Wire'[k] = outq'[k - Len(stdout')] /\ Wire[k] = outq[k - Len(stdout)]
      BY <1>1, <1>2, <3>1, Concat
    <3>3. outq'[k - Len(stdout')] = outq[k - Len(stdout') + 1]
      BY <1>1, <3>1
    <3> QED BY <3>1, <3>2, <3>3
  <2> QED BY <1>1, <2>1, <2>2, <2>3
<1>5. /\ e \in [1 .. Len(Wire') -> Nat]
      /\ \A k \in 1 .. Len(Wire') : e[k] = k
  BY <1>1, <1>3
<1> HIDE DEF e
<1>6. Len(Wire) \in Nat
  BY <1>1, <1>3
<1>7. ASSUME NEW k \in 1 .. Len(Wire') PROVE e[k] \in 1 .. Len(Wire) /\ Wire[e[k]] = Wire'[k]
  BY <1>3, <1>4, <1>5
<1>8. \A j, k \in 1 .. Len(Wire') : j < k => e[j] < e[k]
  BY <1>5
<1>9. ASSUME NEW m \in 1 .. Len(Wire)
      PROVE  \E j \in 1 .. Len(Wire') : e[j] = m /\ Wire'[j] = Wire[m]
  BY <1>3, <1>4, <1>5
<1>10. Places(Wire, Wire', e)
  BY <1>7, <1>8, <1>9 DEF Places
<1> QED BY <1>5, <1>10 DEF Kept

(***************************************************************************)
(* The wire as a step leaves it, for one request.                          *)
(***************************************************************************)
LEMMA SendFacts ==
    ASSUME TypeOK, TypeOK', NEW f \in PluginFrame, Send(f), UNCHANGED stdout, NEW i \in RequestId
    PROVE  /\ Some(Wire', i) <=> Some(Wire, i) \/ (writerTask = "running" /\ Of(f, i))
           /\ \A t : Has(Wire', i, t) <=>
                        Has(Wire, i, t) \/ (writerTask = "running" /\ Of(f, i) /\ f.type = t)
           /\ HasEnd(Wire', i) <=> HasEnd(Wire, i) \/ (writerTask = "running" /\ Ends(f, i))
           /\ HasCounted(Wire', i) <=>
                  HasCounted(Wire, i) \/ (writerTask = "running" /\ Counted(f, i))
           /\ HasAck(Wire') <=>
                  HasAck(Wire) \/ (writerTask = "running" /\ f.type = "shutdown_ack")
           /\ StartsOnce(Wire, i) /\ (Of(f, i) /\ f.type = "started" => ~Has(Wire, i, "started"))
                  => StartsOnce(Wire', i)
           /\ /\ StartsFirst(Wire, i)
              /\ writerTask = "running" /\ Of(f, i) /\ f.type # "started" => Has(Wire, i, "started")
              => StartsFirst(Wire', i)
           /\ EndsLast(Wire, i) /\ (Counted(f, i) => ~HasEnd(Wire, i)) => EndsLast(Wire', i)
           /\ /\ AckBehind(Wire, i)
              /\ writerTask = "running" /\ f.type = "shutdown_ack" => HasEnd(Wire, i)
              => AckBehind(Wire', i)
<1>0. Wire \in Seq(PluginFrame) /\ Wire' \in Seq(PluginFrame)
  BY WireType
<1>1. CASE writerTask # "running"
  <2>1. Wire' = Wire
    BY <1>1, WireSend
  <2> QED BY <1>1, <2>1
<1>2. CASE writerTask = "running"
  <2>1. Grown(Wire, Wire', f)
    BY <1>2, WireSend
  <2> QED BY <1>0, <1>2, <2>1, GrownHas, GrownOrder
<1> QED BY <1>1, <1>2

LEMMA TakeFacts ==
    ASSUME TypeOK, TypeOK', stdout # <<>>, stdout' = Tail(stdout), UNCHANGED outq,
           NEW f, f = Head(stdout), NEW i \in RequestId
    PROVE  /\ Some(Wire, i) <=> Some(Wire', i) \/ Of(f, i)
           /\ \A t : Has(Wire, i, t) <=> Has(Wire', i, t) \/ (Of(f, i) /\ f.type = t)
           /\ HasEnd(Wire, i) <=> HasEnd(Wire', i) \/ Ends(f, i)
           /\ HasCounted(Wire, i) <=> HasCounted(Wire', i) \/ Counted(f, i)
           /\ HasAck(Wire) <=> HasAck(Wire') \/ f.type = "shutdown_ack"
           /\ StartsOnce(Wire, i) => StartsOnce(Wire', i)
           /\ StartsOnce(Wire, i) /\ Of(f, i) /\ f.type = "started" => ~Has(Wire', i, "started")
           /\ StartsFirst(Wire, i) /\ ~Of(f, i) => StartsFirst(Wire', i)
           /\ StartsFirst(Wire, i) /\ Of(f, i) => f.type = "started"
           /\ EndsLast(Wire, i) => EndsLast(Wire', i)
           /\ EndsLast(Wire, i) /\ Ends(f, i) => ~HasCounted(Wire', i)
           /\ AckBehind(Wire, i) /\ ~Ends(f, i) => AckBehind(Wire', i)
           /\ AckBehind(Wire, i) => f.type # "shutdown_ack"
<1>0. Wire \in Seq(PluginFrame) /\ Wire' \in Seq(PluginFrame)
  BY WireType
<1>1. Shorter(Wire, Wire') /\ Wire[1] = f
  BY WireTake
<1> QED BY <1>0, <1>1, ShorterHas, ShorterOrder

\* What is left of the wire when its end is lost.
LEMMA LostFacts ==
    ASSUME TypeOK, TypeOK', outq' = <<>>, UNCHANGED stdout, NEW i \in RequestId
    PROVE  /\ Some(Wire', i) => Some(Wire, i)
           /\ \A t : Has(Wire', i, t) => Has(Wire, i, t)
           /\ HasEnd(Wire', i) => HasEnd(Wire, i)
           /\ HasCounted(Wire', i) => HasCounted(Wire, i)
           /\ HasAck(Wire') => HasAck(Wire)
           /\ StartsOnce(Wire, i) => StartsOnce(Wire', i)
           /\ StartsFirst(Wire, i) => StartsFirst(Wire', i)
           /\ EndsLast(Wire, i) => EndsLast(Wire', i)
           /\ AckBehind(Wire, i) => AckBehind(Wire', i)
<1>0. Wire \in Seq(PluginFrame) /\ Wire' \in Seq(PluginFrame)
  BY WireType
<1>1. Prefix(Wire, Wire')
  BY WireLost
<1> QED BY <1>0, <1>1, PrefixHas, PrefixOrder

\* The steps that put the handshake or stray bytes on the wire, or move a
\* frame along it, change nothing for a request.
MovesWire ==
    \/ WriterWrites
    \/ UNCHANGED outq /\ \E t \in {"hello", "malformed"} : PluginWrites(Control(t))

LEMMA KeptFacts ==
    ASSUME TypeOK, TypeOK', MovesWire, NEW i \in RequestId
    PROVE  /\ Some(Wire', i) <=> Some(Wire, i)
           /\ \A t : Has(Wire', i, t) <=> Has(Wire, i, t)
           /\ HasEnd(Wire', i) <=> HasEnd(Wire, i)
           /\ HasCounted(Wire', i) <=> HasCounted(Wire, i)
           /\ HasAck(Wire') <=> HasAck(Wire)
           /\ StartsOnce(Wire, i) => StartsOnce(Wire', i)
           /\ StartsFirst(Wire, i) => StartsFirst(Wire', i)
           /\ EndsLast(Wire, i) => EndsLast(Wire', i)
           /\ AckBehind(Wire, i) => AckBehind(Wire', i)
<1>0. Wire \in Seq(PluginFrame) /\ Wire' \in Seq(PluginFrame)
  BY WireType
<1>1. Kept(Wire, Wire')
  <2>1. CASE WriterWrites
    BY <2>1, WireMove
  <2>2. ASSUME NEW t \in {"hello", "malformed"}, PluginWrites(Control(t)), UNCHANGED outq
        PROVE  Kept(Wire, Wire')
    <3>1. Control(t) \in PluginFrame /\ ~Matters(Control(t))
      BY FrameType DEF PluginType, Matters, Control
    <3> QED BY <2>2, <3>1, WireInsert
  <2> QED BY <2>1, <2>2 DEF MovesWire
<1> QED BY <1>0, <1>1, KeptHas, KeptOrder

(***************************************************************************)
(* The host's pipe, for one request.                                       *)
(***************************************************************************)
Invokes(f, i) == f.type = "invoke" /\ f.id = i
Cancels(f, i) == f.type = "cancel" /\ f.id = i

Asks(s, i) == \E k \in 1 .. Len(s) : Invokes(s[k], i)
Stops(s, i) == \E k \in 1 .. Len(s) : Cancels(s[k], i)
HasShut(s) == \E k \in 1 .. Len(s) : s[k].type = "shutdown"

AsksOnce(s, i) == \A j, k \in 1 .. Len(s) : Invokes(s[j], i) /\ Invokes(s[k], i) => j = k

\* No cancel without the invoke before it, and no invoke after a shutdown.
StopsBehind(s, i) ==
    \A k \in 1 .. Len(s) : Cancels(s[k], i) => \E m \in 1 .. k - 1 : Invokes(s[m], i)
ShutLast(s, i) ==
    \A k \in 1 .. Len(s) :
        s[k].type = "shutdown" => \A m \in (k + 1) .. Len(s) : ~Invokes(s[m], i)

LEMMA WriteFacts ==
    ASSUME TypeOK, TypeOK', NEW f \in HostFrame, HostWrites(f), NEW i \in RequestId
    PROVE  /\ Asks(stdin', i) <=> Asks(stdin, i) \/ Invokes(f, i)
           /\ Stops(stdin', i) <=> Stops(stdin, i) \/ Cancels(f, i)
           /\ HasShut(stdin') <=> HasShut(stdin) \/ f.type = "shutdown"
           /\ AsksOnce(stdin, i) /\ (Invokes(f, i) => ~Asks(stdin, i)) => AsksOnce(stdin', i)
           /\ StopsBehind(stdin, i) /\ (Cancels(f, i) => Asks(stdin, i)) => StopsBehind(stdin', i)
           /\ ShutLast(stdin, i) /\ (Invokes(f, i) => ~HasShut(stdin)) => ShutLast(stdin', i)
<1> DEFINE s == stdin
           t == stdin'
<1>1. /\ Len(s) \in Nat /\ Len(t) = Len(s) + 1 /\ t[Len(s) + 1] = f
      /\ \A k \in 1 .. Len(s) : t[k] = s[k]
  BY AppendFacts DEF TypeOK, TransportTypeOK, HostWrites
<1> HIDE DEF s, t
<1>2. /\ \A k \in 1 .. Len(t) : t[k] = f \/ \E m \in 1 .. Len(s) : s[m] = t[k]
      /\ \A m \in 1 .. Len(s) : \E k \in 1 .. Len(t) : t[k] = s[m]
      /\ \E k \in 1 .. Len(t) : t[k] = f
  BY <1>1
<1>3. /\ Asks(t, i) <=> Asks(s, i) \/ Invokes(f, i)
      /\ Stops(t, i) <=> Stops(s, i) \/ Cancels(f, i)
      /\ HasShut(t) <=> HasShut(s) \/ f.type = "shutdown"
  <2>1. Asks(t, i) <=> Asks(s, i) \/ Invokes(f, i)
    BY <1>2 DEF Asks
  <2>2. Stops(t, i) <=> Stops(s, i) \/ Cancels(f, i)
    BY <1>2 DEF Stops
  <2>3. HasShut(t) <=> HasShut(s) \/ f.type = "shutdown"
    BY <1>2 DEF HasShut
  <2> QED BY <2>1, <2>2, <2>3
<1>4. ASSUME AsksOnce(s, i), Invokes(f, i) => ~Asks(s, i) PROVE AsksOnce(t, i)
  BY <1>1, <1>4 DEF AsksOnce, Asks
<1>5. ASSUME StopsBehind(s, i), Cancels(f, i) => Asks(s, i) PROVE StopsBehind(t, i)
  <2> SUFFICES ASSUME NEW k \in 1 .. Len(t), Cancels(t[k], i)
               PROVE  \E m \in 1 .. k - 1 : Invokes(t[m], i)
    BY DEF StopsBehind
  <2>1. CASE k \in 1 .. Len(s)
    BY <1>1, <1>5, <2>1 DEF StopsBehind
  <2>2. CASE k = Len(s) + 1
    BY <1>1, <1>5, <2>2 DEF Asks
  <2> QED BY <1>1, <2>1, <2>2
<1>6. ASSUME ShutLast(s, i), Invokes(f, i) => ~HasShut(s) PROVE ShutLast(t, i)
  <2> SUFFICES ASSUME NEW k \in 1 .. Len(t), t[k].type = "shutdown", NEW m \in (k + 1) .. Len(t)
               PROVE  ~Invokes(t[m], i)
    BY DEF ShutLast
  <2>1. k \in 1 .. Len(s) /\ t[k] = s[k]
    BY <1>1
  <2>2. CASE m \in (k + 1) .. Len(s)
    BY <1>1, <1>6, <2>1, <2>2 DEF ShutLast
  <2>3. CASE m = Len(s) + 1
    BY <1>1, <1>6, <2>1, <2>3 DEF HasShut
  <2> QED BY <1>1, <2>2, <2>3
<1> QED BY <1>3, <1>4, <1>5, <1>6 DEF s, t

LEMMA ReadFacts ==
    ASSUME TypeOK, TypeOK', stdin # <<>>, stdin' = Tail(stdin), NEW f, f = Head(stdin),
           NEW i \in RequestId
    PROVE  /\ Asks(stdin, i) <=> Asks(stdin', i) \/ Invokes(f, i)
           /\ Stops(stdin, i) <=> Stops(stdin', i) \/ Cancels(f, i)
           /\ HasShut(stdin) <=> HasShut(stdin') \/ f.type = "shutdown"
           /\ AsksOnce(stdin, i) => AsksOnce(stdin', i)
           /\ AsksOnce(stdin, i) /\ Invokes(f, i) => ~Asks(stdin', i)
           /\ StopsBehind(stdin, i) /\ ~Invokes(f, i) => StopsBehind(stdin', i)
           /\ StopsBehind(stdin, i) => ~Cancels(f, i)
           /\ ShutLast(stdin, i) => ShutLast(stdin', i)
           /\ ShutLast(stdin, i) /\ f.type = "shutdown" => ~Asks(stdin', i)
<1> DEFINE s == stdin
           t == stdin'
<1>1. /\ Len(s) \in Nat \ {0} /\ Len(t) \in Nat /\ Len(s) = Len(t) + 1 /\ s[1] = f
      /\ \A k \in 1 .. Len(t) : t[k] = s[k + 1] /\ k + 1 \in 1 .. Len(s)
  BY TailFacts DEF TypeOK, TransportTypeOK
<1> HIDE DEF s, t
<1>2. /\ \A k \in 1 .. Len(s) : k = 1 \/ \E m \in 1 .. Len(t) : t[m] = s[k]
      /\ \A m \in 1 .. Len(t) : \E k \in 1 .. Len(s) : t[m] = s[k]
      /\ 1 \in 1 .. Len(s)
  <2>1. ASSUME NEW k \in 1 .. Len(s), k # 1 PROVE \E m \in 1 .. Len(t) : t[m] = s[k]
    <3>1. k - 1 \in 1 .. Len(t) /\ (k - 1) + 1 = k
      BY <1>1, <2>1
    <3> QED BY <1>1, <3>1
  <2>2. \A m \in 1 .. Len(t) : \E k \in 1 .. Len(s) : t[m] = s[k]
    BY <1>1
  <2>3. 1 \in 1 .. Len(s)
    BY <1>1
  <2> QED BY <2>1, <2>2, <2>3
<1>3. /\ Asks(s, i) <=> Asks(t, i) \/ Invokes(f, i)
      /\ Stops(s, i) <=> Stops(t, i) \/ Cancels(f, i)
      /\ HasShut(s) <=> HasShut(t) \/ f.type = "shutdown"
  <2>0. s[1] = f
    BY <1>1
  <2>1. Asks(s, i) <=> Asks(t, i) \/ Invokes(f, i)
    BY <1>2, <2>0 DEF Asks
  <2>2. Stops(s, i) <=> Stops(t, i) \/ Cancels(f, i)
    BY <1>2, <2>0 DEF Stops
  <2>3. HasShut(s) <=> HasShut(t) \/ f.type = "shutdown"
    BY <1>2, <2>0 DEF HasShut
  <2> QED BY <2>1, <2>2, <2>3
<1>4. ASSUME AsksOnce(s, i) PROVE AsksOnce(t, i)
  <2> SUFFICES ASSUME NEW j \in 1 .. Len(t), NEW k \in 1 .. Len(t), Invokes(t[j], i), Invokes(t[k], i)
               PROVE  j = k
    BY DEF AsksOnce
  <2>1. j + 1 = k + 1
    BY <1>1, <1>4 DEF AsksOnce
  <2> QED BY <2>1
<1>5. ASSUME AsksOnce(s, i), Invokes(f, i) PROVE ~Asks(t, i)
  <2> SUFFICES ASSUME NEW k \in 1 .. Len(t), Invokes(t[k], i) PROVE FALSE
    BY DEF Asks
  <2>1. k + 1 # 1 /\ 1 \in 1 .. Len(s)
    BY <1>1
  <2> QED BY <1>1, <1>5, <2>1 DEF AsksOnce
<1>6. ASSUME StopsBehind(s, i), ~Invokes(f, i) PROVE StopsBehind(t, i)
  <2> SUFFICES ASSUME NEW k \in 1 .. Len(t), Cancels(t[k], i)
               PROVE  \E m \in 1 .. k - 1 : Invokes(t[m], i)
    BY DEF StopsBehind
  <2>1. PICK m \in 1 .. (k + 1) - 1 : Invokes(s[m], i)
    BY <1>1, <1>6 DEF StopsBehind
  <2>2. m # 1
    BY <1>1, <1>6, <2>1
  <2>3. m - 1 \in 1 .. k - 1 /\ m - 1 \in 1 .. Len(t) /\ (m - 1) + 1 = m
    BY <1>1, <2>2
  <2>4. t[m - 1] = s[m]
    BY <1>1, <2>3
  <2> QED BY <2>1, <2>3, <2>4
<1>7. ASSUME StopsBehind(s, i) PROVE ~Cancels(f, i)
  <2>1. 1 \in 1 .. Len(s) /\ \A m \in 1 .. 1 - 1 : FALSE
    BY <1>1
  <2> QED BY <1>1, <1>7, <2>1 DEF StopsBehind
<1>8. ASSUME ShutLast(s, i) PROVE ShutLast(t, i)
  <2> SUFFICES ASSUME NEW k \in 1 .. Len(t), t[k].type = "shutdown", NEW m \in (k + 1) .. Len(t)
               PROVE  ~Invokes(t[m], i)
    BY DEF ShutLast
  <2>1. m + 1 \in (k + 1 + 1) .. Len(s) /\ m \in 1 .. Len(t)
    BY <1>1
  <2> QED BY <1>1, <1>8, <2>1 DEF ShutLast
<1>9. ASSUME ShutLast(s, i), f.type = "shutdown" PROVE ~Asks(t, i)
  <2> SUFFICES ASSUME NEW m \in 1 .. Len(t) PROVE ~Invokes(t[m], i)
    BY DEF Asks
  <2>1. 1 \in 1 .. Len(s) /\ m + 1 \in (1 + 1) .. Len(s)
    BY <1>1
  <2> QED BY <1>1, <1>9, <2>1 DEF ShutLast
<1> QED BY <1>3, <1>4, <1>5, <1>6, <1>7, <1>8, <1>9 DEF s, t

LEMMA NoInput ==
    ASSUME NEW s, s = <<>>, NEW i \in RequestId
    PROVE  /\ ~Asks(s, i) /\ ~Stops(s, i) /\ ~HasShut(s)
           /\ AsksOnce(s, i) /\ StopsBehind(s, i) /\ ShutLast(s, i)
BY EmptyFacts DEF Asks, Stops, HasShut, AsksOnce, StopsBehind, ShutLast

(***************************************************************************)
(* The core invariant: what client and server know of a request agrees.    *)
(***************************************************************************)
\* serve_worker has taken the request; invoke has not sent it; and nobody has
\* heard of it but those who hold its invoke.
Begun(i) == i \in serverPending \/ result[i] # "none"
Untold(i) == invocation[i] \in {"unused", "registering"}
Nothing(i) ==
    /\ ~Some(Wire, i)
    /\ inbox[i] = <<>>
    /\ transcript[i] = <<>>
    /\ readerId # i
    /\ cancelId # i
    /\ ~Begun(i)

\* The server reads whole frames.
Sound == phase \in {"hello", "loop", "cancelling", "draining", "closing"}

Early == {"start", "spawned", "handshake", "failed"}

\* The client's books.
Book ==
    /\ clientPhase \in Early => reader = "none"
    /\ clientPhase \in {"ready", "pinging"} => reader # "none"
    /\ clientPhase = "start" => child = "none"
    /\ clientPhase = "shut" => child = "exited"
    /\ reader # "remove" => readerId = None
    /\ reader = "none" => \A i \in RequestId : invocation[i] = "unused"
    /\ \A i \in RequestId : i >= nextId <=> invocation[i] = "unused"
    /\ \A i \in RequestId :
          invocation[i] = "registering" =>
              clientPhase = "ready" /\ (ReaderRuns => i \in clientPending)

\* The server's.
Tasks ==
    /\ \A i \in RequestId :
          /\ task[i] = "running" => result[i] = "none"
          /\ task[i] = "returned" => result[i] \in {"finished", "error"}
          /\ task[i] # "none" => i \in serverPending
          /\ i \in serverPending /\ task[i] = "none" => result[i] = "panicked"
    /\ phase = "exited" <=> child = "exited"
    /\ phase = "exited" =>
          /\ stdin = <<>> /\ writerTask # "running"
          /\ \A i \in RequestId : task[i] = "none"
    /\ phase # "cancelling" => cancelId = None

\* An id is sent once and nothing was heard of it before.
Once(i) ==
    /\ Untold(i) \/ Asks(stdin, i) => Nothing(i)
    /\ AsksOnce(stdin, i)
    /\ Asks(stdin, i) \/ Stops(stdin, i) => ~Untold(i)

\* A cancel comes after its invoke.
CancelFits(i) ==
    /\ Sound => Begun(i) \/ StopsBehind(stdin, i)
    /\ cancelId = i => Begun(i)

\* A request that was sent is under way or has been taken.
Told(i) == Sound /\ invocation[i] \in {"open", "drained"} => Asks(stdin, i) \/ Begun(i)

Core ==
    /\ Book
    /\ Tasks
    /\ \A i \in RequestId : Once(i) /\ CancelFits(i) /\ Told(i)

\* The owner's steps that leave invocations and the reader task alone.
Owner ==
    \/ SpawnRefused \/ Spawn(plugin.worker) \/ WriteHello \/ HandshakeFails
    \/ PingWrite \/ PingRecv \/ PingFails
    \/ ShutdownWrite \/ ShutdownRecv \/ ShutdownFails \/ ReapTimeout \/ KillReap \/ Drop

\* shutdown is under way, or the client is gone.
Leaving ==
    clientPhase \in {"acking", "reaping", "killing", "shut", "dropped", "failed", "crashed"}

OwnerEffect ==
    /\ UNCHANGED <<nextId, clientPending, invocation, inbox, transcript, reader, readerId, stdout>>
    /\ \/ UNCHANGED stdin
       \/ \E f \in HostFrame :
             /\ f.type \in {"hello", "ping", "shutdown"}
             /\ HostWrites(f)
             /\ f.type = "shutdown" => clientPhase' = "acking"
    /\ clientPhase' \notin {"start", "shut"}
    /\ clientPhase' \in Early => clientPhase \in Early
    /\ clientPhase' \in {"ready", "pinging"} => clientPhase \in {"ready", "pinging"}
    /\ clientPhase' \in {"reaping", "killing"} =>
          clientPhase \in {"reaping", "killing"} \/ HasAck(globalq)
    /\ clientPhase = "ready" => \A i \in RequestId : invocation[i] # "registering"
    /\ Leaving => Leaving'
    /\ HasAck(globalq') => HasAck(globalq)
    /\ child' = child \/ (clientPhase = "start" /\ child' = "running")

LEMMA QueueShrinks ==
    /\ TypeOK /\ globalq # <<>> /\ globalq' = Tail(globalq) /\ HasAck(globalq') => HasAck(globalq)
    /\ TypeOK /\ globalq # <<>> /\ Head(globalq).type = "shutdown_ack" => HasAck(globalq)
    /\ globalq' = <<>> => ~HasAck(globalq')
<1>1. ASSUME TypeOK, globalq # <<>>, globalq' = Tail(globalq), HasAck(globalq')
      PROVE  HasAck(globalq)
  <2>1. \A k \in 1 .. Len(globalq') : globalq'[k] = globalq[k + 1] /\ k + 1 \in 1 .. Len(globalq)
    BY <1>1, TailFacts DEF TypeOK, ClientTypeOK
  <2> QED BY <1>1, <2>1 DEF HasAck
<1>2. ASSUME TypeOK, globalq # <<>>, Head(globalq).type = "shutdown_ack" PROVE HasAck(globalq)
  <2>1. 1 \in 1 .. Len(globalq) /\ Head(globalq) = globalq[1]
    BY <1>2, TailFacts DEF TypeOK, ClientTypeOK
  <2> QED BY <1>2, <2>1 DEF HasAck
<1>3. ASSUME globalq' = <<>> PROVE ~HasAck(globalq')
  BY <1>3, EmptyFacts DEF HasAck
<1> QED BY <1>1, <1>2, <1>3

LEMMA OwnerFacts == ASSUME TypeOK, Owner PROVE OwnerEffect
<1>1. CASE SpawnRefused
  BY <1>1 DEF SpawnRefused, transportVars, OwnerEffect, Early, Leaving
<1>2. CASE Spawn(plugin.worker)
  BY <1>2 DEF Spawn, OwnerEffect, Early, Leaving
<1>3. CASE WriteHello
  <2>1. Control("hello") \in HostFrame /\ Control("hello").type = "hello"
    BY HostFrameType DEF Control
  <2> QED BY <1>3, <2>1 DEF WriteHello, SpawnFails, OwnerEffect, Early, Leaving
<1>4. CASE HandshakeFails
  BY <1>4 DEF HandshakeFails, SpawnFails, OwnerEffect, Early, Leaving
<1>5. CASE PingWrite
  <2>1. \A n \in Nonce : WithNonce("ping", n) \in HostFrame /\ WithNonce("ping", n).type = "ping"
    BY HostFrameType DEF WithNonce
  <2> QED BY <1>5, <2>1 DEF PingWrite, Unborrowed, OwnerEffect, Early, Leaving
<1>6. CASE PingRecv
  BY <1>6, QueueShrinks DEF PingRecv, transportVars, OwnerEffect, Early, Leaving
<1>7. CASE PingFails
  BY <1>7 DEF PingFails, transportVars, OwnerEffect, Early, Leaving
<1>8. ASSUME ClientDropped, clientPhase = "ready" => Unborrowed PROVE OwnerEffect
  BY <1>8, QueueShrinks DEF ClientDropped, Unborrowed, OwnerEffect, Early, Leaving
<1>9. CASE ShutdownWrite
  <2>1. Control("shutdown") \in HostFrame /\ Control("shutdown").type = "shutdown"
    BY HostFrameType DEF Control
  <2>2. CASE ClientDropped
    BY <1>8, <1>9, <2>2 DEF ShutdownWrite
  <2> QED BY <1>9, <2>1, <2>2 DEF ShutdownWrite, Unborrowed, OwnerEffect, Early, Leaving
<1>10. CASE ShutdownRecv
  <2>1. CASE ClientDropped
    BY <1>8, <1>10, <2>1 DEF ShutdownRecv
  <2> QED BY <1>10, <2>1, QueueShrinks DEF ShutdownRecv, transportVars, OwnerEffect, Early, Leaving
<1>11. CASE ShutdownFails \/ KillReap \/ Drop
  BY <1>8, <1>11 DEF ShutdownFails, KillReap, Drop
<1>12. CASE ReapTimeout
  BY <1>12 DEF ReapTimeout, OwnerEffect, Early, Leaving
<1> QED BY <1>1, <1>2, <1>3, <1>4, <1>5, <1>6, <1>7, <1>9, <1>10, <1>11, <1>12 DEF Owner

\* The client's steps, with those of the owner taken together.
LEMMA ClientCases ==
    ASSUME Client
    PROVE  /\ UNCHANGED serverVars
           /\ \/ Owner \/ Handshake(plugin.same, plugin.protocol) \/ Reap \/ HostCrash
              \/ InvokeRegister \/ ReaderRoute \/ ReaderRemove \/ ReaderEof
              \/ \E i \in RequestId :
                    \/ InvokeWrite(i) \/ InvokeFails(i) \/ InvokeDropped(i) \/ Cancel(i)
                    \/ FinishRecv(i) \/ FinishClosed(i) \/ NextEvent(i) \/ InvocationDropped(i)
BY DEF Client, SpawnStep, ClientOwner, OwnerCalls, ReaderTask, Invoker, Caller, CallerChooses, Owner

\* What every step of the server leaves alone.
LEMMA ServerFacts ==
    ASSUME Server
    PROVE  /\ UNCHANGED <<clientVars, plugin, stdinOpen, stdoutOpen, killed>>
           /\ child = "running"
           /\ child' = "running" \/ (child' = "exited" /\ ProcessEnds)
<1> SUFFICES ASSUME ServerNext
             PROVE  /\ UNCHANGED <<plugin, stdinOpen, stdoutOpen, killed>>
                    /\ child = "running"
                    /\ child' = "running" \/ (child' = "exited" /\ ProcessEnds)
  BY DEF Server
<1>1. CASE ReadLoop
  BY <1>1 DEF ReadLoop, ServeHello, RefuseHello, LoopHello, LoopPing, LoopCancel, CancelReturns,
              LoopShutdown, DrainDone, LoopInvoke, ReadTorn, ReadPartial, ReadEof, Receive,
              transportVars
<1>2. CASE WriterLoop
  BY <1>2 DEF WriterLoop, WriterWrites, WriterFails, WriterEnds, transportVars
<1>3. ASSUME NEW i \in RequestId, HandlerTask(i)
      PROVE  /\ UNCHANGED <<plugin, stdinOpen, stdoutOpen, killed>>
             /\ child = "running" /\ child' = "running"
  BY <1>3 DEF HandlerTask, TaskEvent, TaskReturn, TaskRemove, TaskPanic, transportVars
<1>4. CASE StrayOutput
  BY <1>4 DEF StrayOutput, serverVars
<1>5. CASE ServeReturns \/ ProcessKilled
  BY <1>5 DEF ServeReturns, ProcessKilled, ProcessEnds
<1> QED BY <1>1, <1>2, <1>3, <1>4, <1>5 DEF ServerNext

\* What a caller does to its invocation concerns no other.
LEMMA CallerFacts ==
    ASSUME TypeOK, NEW i \in RequestId,
           FinishRecv(i) \/ FinishClosed(i) \/ NextEvent(i) \/ InvocationDropped(i)
    PROVE  /\ UNCHANGED <<clientPhase, nextId, clientPending, globalq, reader, readerId, transportVars>>
           /\ invocation[i] \in {"open", "drained"}
           /\ invocation'[i] \in InvocationState \ {"unused", "registering"}
           /\ \A j \in RequestId \ {i} :
                 /\ invocation'[j] = invocation[j]
                 /\ inbox'[j] = inbox[j]
                 /\ transcript'[j] = transcript[j]
<1> USE DEF TypeOK, ClientTypeOK, InvocationState
<1>1. CASE FinishRecv(i)
  BY <1>1 DEF FinishRecv, Outcome
<1>2. CASE FinishClosed(i)
  BY <1>2 DEF FinishClosed
<1>3. CASE NextEvent(i)
  BY <1>3 DEF NextEvent
<1>4. CASE InvocationDropped(i)
  BY <1>4 DEF InvocationDropped, Dropped
<1> QED BY <1>1, <1>2, <1>3, <1>4

LEMMA BookStep == ASSUME TypeOK, TypeOK', Core, Client \/ Server PROVE Book'
<1> USE DEF Book, Early, ReaderRuns
<1>0. Book
  BY DEF Core
<1>1. CASE Server
  BY <1>0, <1>1, ServerFacts DEF clientVars
<1>2. CASE Owner
  <2>1. OwnerEffect
    BY <1>2, OwnerFacts
  <2> QED BY <1>0, <2>1 DEF OwnerEffect, TypeOK, TransportTypeOK, HostWrites
<1>3. CASE Handshake(plugin.same, plugin.protocol)
  BY <1>0, <1>3 DEF Handshake, SpawnFails
<1>4. CASE Reap
  <2>1. \A i \in RequestId : invocation[i] # "registering"
    BY <1>0, <1>4 DEF Reap
  <2> QED BY <1>0, <1>4, <2>1 DEF Reap
<1>5. CASE HostCrash
  BY <1>0, <1>5 DEF HostCrash, Dropped, TypeOK, ClientTypeOK
<1>6. CASE InvokeRegister
  BY <1>0, <1>6 DEF InvokeRegister, RequestId, transportVars, TypeOK, ClientTypeOK
<1>7. CASE ReaderRoute
  BY <1>0, <1>7 DEF ReaderRoute, ReaderBreaks
<1>8. CASE ReaderRemove
  <2>1. \A i \in RequestId : invocation[i] = "registering" => readerId # i
    BY DEF Core, Once, Untold, Nothing
  <2> QED BY <1>0, <1>8, <2>1 DEF ReaderRemove, transportVars
<1>9. CASE ReaderEof
  BY <1>0, <1>9 DEF ReaderEof, ReaderBreaks
<1>10. ASSUME NEW i \in RequestId, InvokeWrite(i) \/ InvokeFails(i) \/ InvokeDropped(i) \/ Cancel(i)
       PROVE  Book'
  BY <1>0, <1>10 DEF InvokeWrite, InvokeFails, InvokeDropped, Cancel, transportVars, TypeOK,
                     ClientTypeOK
<1>11. ASSUME NEW i \in RequestId,
              FinishRecv(i) \/ FinishClosed(i) \/ NextEvent(i) \/ InvocationDropped(i)
       PROVE  Book'
  BY <1>0, <1>11, CallerFacts DEF transportVars
<1> QED
  BY <1>1, <1>2, <1>3, <1>4, <1>5, <1>6, <1>7, <1>8, <1>9, <1>10, <1>11, ClientCases

LEMMA TasksStep == ASSUME TypeOK, TypeOK', Core, Client \/ Server PROVE Tasks'
<1> USE DEF Tasks
<1>0. Tasks /\ Book
  BY DEF Core
<1>1. CASE Client
  <2>1. UNCHANGED serverVars
    BY <1>1, ClientCases
  <2>2. UNCHANGED <<stdin, child>> \/ child = "running" \/ (child = "none" /\ child' = "running")
    <3>1. CASE Owner
      <4>1. OwnerEffect
        BY <3>1, OwnerFacts
      <4> QED BY <1>0, <4>1 DEF OwnerEffect, HostWrites, Book
    <3>2. CASE ~Owner
      BY <1>1, <3>2, ClientCases
      DEF Handshake, SpawnFails, Reap, HostCrash, InvokeRegister, ReaderRoute, ReaderRemove,
          ReaderEof, InvokeWrite, InvokeFails, InvokeDropped, Cancel, FinishRecv, FinishClosed,
          NextEvent, InvocationDropped, HostWrites, transportVars
    <3> QED BY <3>1, <3>2
  <2>3. child = "running" => child' = "running"
    <3>1. CASE Owner
      <4>1. OwnerEffect
        BY <3>1, OwnerFacts
      <4> QED BY <4>1 DEF OwnerEffect
    <3>2. CASE ~Owner
      BY <1>1, <3>2, ClientCases
      DEF Handshake, SpawnFails, Reap, HostCrash, InvokeRegister, ReaderRoute, ReaderRemove,
          ReaderEof, InvokeWrite, InvokeFails, InvokeDropped, Cancel, FinishRecv, FinishClosed,
          NextEvent, InvocationDropped, HostWrites, transportVars
    <3> QED BY <3>1, <3>2
  <2> QED BY <1>0, <2>1, <2>2, <2>3 DEF serverVars
<1>2. CASE Server
  <2>0. child = "running"
    BY <1>2, ServerFacts
  <2>1. CASE ReadLoop
    <3>1. CASE LoopInvoke
      <4>1. CASE UNCHANGED <<task, result, serverPending>>
        BY <1>0, <3>1, <4>1 DEF LoopInvoke, Receive
      <4>2. ASSUME NEW j \in RequestId, task' = [task EXCEPT ![j] = "running"],
                   result' = [result EXCEPT ![j] = "none"], serverPending' = serverPending \cup {j}
            PROVE  Tasks'
        BY <1>0, <3>1, <4>2 DEF LoopInvoke, Receive, TypeOK, ServerTypeOK
      <4>3. Head(stdin).id \in RequestId
        BY <3>1, StdinHead DEF LoopInvoke, Receive, HostFrame
      <4> QED BY <3>1, <4>1, <4>2, <4>3 DEF LoopInvoke
    <3>2. CASE ~LoopInvoke
      BY <1>0, <2>1, <3>2
      DEF ReadLoop, ServeHello, RefuseHello, LoopHello, LoopPing, LoopCancel, CancelReturns,
          LoopShutdown, DrainDone, ReadTorn, ReadPartial, ReadEof, Receive, transportVars
    <3> QED BY <3>1, <3>2
  <2>2. CASE WriterLoop
    BY <1>0, <2>2 DEF WriterLoop, WriterWrites, WriterFails, WriterEnds, transportVars
  <2>3. ASSUME NEW i \in RequestId, HandlerTask(i) PROVE Tasks'
    <3>1. UNCHANGED <<phase, child, stdin, writerTask, cancelId>> /\ phase # "exited"
      BY <1>0, <2>0, <2>3 DEF HandlerTask, TaskEvent, TaskReturn, TaskRemove, TaskPanic, transportVars
    <3>2. CASE TaskEvent(i)
      BY <1>0, <3>1, <3>2 DEF TaskEvent
    <3>3. CASE TaskReturn(i)
      BY <1>0, <3>1, <3>3 DEF TaskReturn, TypeOK, ServerTypeOK
    <3>4. CASE TaskRemove(i)
      BY <1>0, <3>1, <3>4 DEF TaskRemove, Released, TypeOK, ServerTypeOK
    <3>5. CASE TaskPanic(i)
      BY <1>0, <3>1, <3>5 DEF TaskPanic, TypeOK, ServerTypeOK
    <3> QED BY <2>3, <3>2, <3>3, <3>4, <3>5 DEF HandlerTask
  <2>4. CASE StrayOutput
    BY <1>0, <2>4 DEF StrayOutput, serverVars
  <2>5. CASE ServeReturns \/ ProcessKilled
    BY <1>0, <2>5 DEF ServeReturns, ProcessKilled, ProcessEnds
  <2> QED BY <1>2, <2>1, <2>2, <2>3, <2>4, <2>5 DEF Server, ServerNext
<1> QED BY <1>1, <1>2

LEMMA WireSame == UNCHANGED <<stdout, outq>> => Wire' = Wire
BY DEF Wire

\* The frames that carry no request.
LEMMA ControlFacts ==
    ASSUME NEW i \in RequestId
    PROVE  /\ ~Of(ForRequest("error", None), i) /\ ~Of(Control("shutdown_ack"), i)
           /\ \A n : ~Of(WithNonce("pong", n), i)
           /\ \A j, t : Of(ForRequest(t, j), i) => i = j
           /\ \A j : ForRequest("started", j).type = "started" /\ ~Terminal(ForRequest("started", j))
           /\ \A j : ForRequest("event", j).type = "event" /\ ~Terminal(ForRequest("event", j))
           /\ Of(ForRequest("started", i), i) /\ Of(ForRequest("event", i), i)
           /\ Ends(ForRequest("finished", i), i) /\ Ends(ForRequest("error", i), i)
           /\ \A j, t : ForRequest(t, j).type = t
           /\ \A n : WithNonce("pong", n).type = "pong"
           /\ Control("shutdown_ack").type = "shutdown_ack"
BY DEF Of, Ends, Terminal, ForRequest, Control, WithNonce, request_id, RequestId, None

\* An invoke the server takes is always a new one: the duplicate-id branch of
\* the read loop is for other hosts.
LEMMA InvokeFacts ==
    ASSUME TypeOK, Core, LoopInvoke
    PROVE  \E j \in RequestId :
              /\ Invokes(Head(stdin), j) /\ \A i \in RequestId : Invokes(Head(stdin), i) => i = j
              /\ \A i \in RequestId : ~Cancels(Head(stdin), i)
              /\ Asks(stdin, j) /\ Nothing(j) /\ ~Untold(j)
              /\ Send(ForRequest("started", j)) /\ ForRequest("started", j) \in PluginFrame
              /\ serverPending' = serverPending \cup {j}
              /\ task' = [task EXCEPT ![j] = "running"]
              /\ result' = [result EXCEPT ![j] = "none"]
<1> DEFINE j == Head(stdin).id
<1>1. /\ j \in RequestId /\ Head(stdin).type = "invoke" /\ stdin # <<>>
      /\ Head(stdin) = stdin[1] /\ 1 \in 1 .. Len(stdin)
  BY StdinHead, TailFacts DEF LoopInvoke, Receive, HostFrame, TypeOK, TransportTypeOK
<1>2. Asks(stdin, j)
  BY <1>1 DEF Asks, Invokes
<1>3. Nothing(j) /\ ~Untold(j)
  BY <1>1, <1>2 DEF Core, Once
<1>4. ~IsActive(j)
  BY <1>3 DEF IsActive, Nothing, Begun
<1>5. ForRequest("started", j) \in PluginFrame
  BY <1>1, FrameType DEF PluginType
<1> QED BY <1>1, <1>2, <1>3, <1>4, <1>5 DEF LoopInvoke, Invokes, Cancels

\* A request whose handler speaks has begun.
LEMMA SpeakFacts ==
    ASSUME TypeOK, Core, NEW j \in RequestId, TaskEvent(j) \/ TaskReturn(j)
    PROVE  Begun(j) /\ ~Untold(j) /\ ~Asks(stdin, j)
<1>1. Begun(j)
  BY DEF TaskEvent, TaskReturn, Core, Tasks, Begun
<1> QED BY <1>1 DEF Core, Once, Nothing

LEMMA OnceServerStep ==
    ASSUME TypeOK, TypeOK', Core, Server, NEW i \in RequestId PROVE Once(i)'
<1> USE DEF Once, Nothing, Begun, Untold
<1>0. Once(i) /\ UNCHANGED <<invocation, inbox, transcript, readerId>>
  BY ServerFacts DEF Core, clientVars
<1>r. ASSUME stdin # <<>>, stdin' = Tail(stdin)
      PROVE  /\ Asks(stdin', i) => Asks(stdin, i)
             /\ Stops(stdin', i) => Stops(stdin, i)
             /\ AsksOnce(stdin, i) => AsksOnce(stdin', i)
  BY <1>r, ReadFacts
<1>1. CASE ServeHello
  <2>1. Some(Wire', i) => Some(Wire, i)
    <3>1. CASE UNCHANGED stdout
      BY <1>1, <3>1, WireSame DEF ServeHello
    <3>2. CASE PluginWrites(Control("hello"))
      <4>1. MovesWire
        BY <1>1, <3>2 DEF ServeHello, MovesWire
      <4> QED BY <4>1, KeptFacts
    <3> QED BY <1>1, <3>1, <3>2 DEF ServeHello
  <2> QED BY <1>0, <1>1, <1>r, <2>1 DEF ServeHello
<1>2. CASE RefuseHello \/ ReadTorn \/ ReadPartial \/ LoopShutdown
  BY <1>0, <1>2, <1>r, WireSame DEF RefuseHello, ReadTorn, ReadPartial, LoopShutdown, Receive
<1>3. ASSUME NEW f \in PluginFrame, Send(f), UNCHANGED stdout, ~Of(f, i)
      PROVE  Some(Wire', i) => Some(Wire, i)
  BY <1>3, SendFacts
<1>4. CASE LoopHello
  <2>1. ForRequest("error", None) \in PluginFrame
    BY FrameType DEF PluginType
  <2>2. Some(Wire', i) => Some(Wire, i)
    BY <1>3, <1>4, <2>1, ControlFacts DEF LoopHello
  <2> QED BY <1>0, <1>4, <1>r, <2>2 DEF LoopHello, Receive
<1>5. CASE LoopPing
  <2>1. WithNonce("pong", Head(stdin).nonce) \in PluginFrame
    BY <1>5, StdinHead, FrameType DEF LoopPing, Receive, PluginType, HostFrame
  <2>2. Some(Wire', i) => Some(Wire, i)
    BY <1>3, <1>5, <2>1, ControlFacts DEF LoopPing
  <2> QED BY <1>0, <1>5, <1>r, <2>2 DEF LoopPing, Receive
<1>6. CASE LoopCancel
  <2>1. stdin # <<>> /\ stdin' = Tail(stdin) /\ Head(stdin).type = "cancel" /\ phase = "loop"
    BY <1>6 DEF LoopCancel, Receive
  <2>2. cancelId' = i => Begun(i) /\ ~Untold(i) /\ ~Asks(stdin, i)
    <3> SUFFICES ASSUME Head(stdin).id = i PROVE Begun(i) /\ ~Untold(i) /\ ~Asks(stdin, i)
      BY <1>6 DEF LoopCancel
    <3>1. Cancels(Head(stdin), i)
      BY <2>1 DEF Cancels
    <3>2. Stops(stdin, i) /\ ~StopsBehind(stdin, i)
      BY <2>1, <3>1, ReadFacts
    <3>3. Begun(i)
      BY <2>1, <3>2 DEF Core, CancelFits, Sound
    <3> QED BY <1>0, <3>2, <3>3
  <2> QED BY <1>0, <1>6, <1>r, <2>1, <2>2, WireSame DEF LoopCancel
<1>7. CASE CancelReturns
  <2>1. cancelId = i => Begun(i)
    BY DEF Core, CancelFits
  <2>2. ForRequest("error", cancelId) \in PluginFrame
    BY FrameType DEF PluginType, TypeOK, ServerTypeOK
  <2>3. Some(Wire', i) => Some(Wire, i) \/ cancelId = i
    <3>1. CASE UNCHANGED outq
      BY <1>7, <3>1, WireSame DEF CancelReturns, transportVars
    <3>2. CASE Send(ForRequest("error", cancelId))
      BY <1>3, <1>7, <2>2, <3>2, ControlFacts DEF CancelReturns, transportVars
    <3> QED BY <1>7, <3>1, <3>2 DEF CancelReturns
  <2> QED BY <1>0, <1>7, <2>1, <2>3 DEF CancelReturns, transportVars, RequestId, None
<1>8. CASE DrainDone
  <2>1. Control("shutdown_ack") \in PluginFrame
    BY FrameType DEF PluginType
  <2>2. Some(Wire', i) => Some(Wire, i)
    BY <1>3, <1>8, <2>1, ControlFacts DEF DrainDone, transportVars
  <2> QED BY <1>0, <1>8, <2>2 DEF DrainDone, transportVars
<1>9. CASE LoopInvoke
  <2>1. PICK j \in RequestId :
           /\ Invokes(Head(stdin), j)
           /\ Asks(stdin, j) /\ Nothing(j) /\ ~Untold(j)
           /\ Send(ForRequest("started", j)) /\ ForRequest("started", j) \in PluginFrame
           /\ serverPending' = serverPending \cup {j}
           /\ result' = [result EXCEPT ![j] = "none"]
    BY <1>9, InvokeFacts
  <2>2. stdin # <<>> /\ stdin' = Tail(stdin) /\ UNCHANGED <<stdout, cancelId>>
    BY <1>9 DEF LoopInvoke, Receive
  <2>3. CASE i = j
    <3>1. ~Asks(stdin', i) /\ ~Untold(i)
      BY <1>0, <2>1, <2>2, <2>3, ReadFacts
    <3> QED BY <1>0, <1>r, <2>2, <3>1
  <2>4. CASE i # j
    <3>1. Some(Wire', i) => Some(Wire, i)
      BY <1>3, <2>1, <2>2, <2>4, ControlFacts
    <3> QED BY <1>0, <1>r, <2>1, <2>2, <2>4, <3>1 DEF TypeOK, ServerTypeOK
  <2> QED BY <2>3, <2>4
<1>10. CASE ReadEof \/ WriterEnds
  BY <1>0, <1>10, WireSame DEF ReadEof, WriterEnds, transportVars
<1>11. ASSUME NEW j \in RequestId, HandlerTask(j) PROVE Once(i)'
  <2>1. CASE TaskRemove(j) \/ TaskPanic(j)
    <3>1. Begun(i)' => Begun(i)
      BY <2>1 DEF TaskRemove, TaskPanic, Released, Core, Tasks, TypeOK, ServerTypeOK
    <3> QED BY <1>0, <2>1, <3>1, WireSame DEF TaskRemove, TaskPanic, transportVars
  <2>2. ASSUME NEW f \in PluginFrame, Send(f), f \in {ForRequest(t, j) : t \in PluginType},
               TaskEvent(j) \/ TaskReturn(j)
        PROVE  Once(i)'
    <3>1. UNCHANGED <<stdin, stdout, serverPending, cancelId>>
      BY <2>2 DEF TaskEvent, TaskReturn, transportVars
    <3>2. CASE i = j
      BY <1>0, <2>2, <3>1, <3>2, SpeakFacts
    <3>3. CASE i # j
      <4>1. Some(Wire', i) => Some(Wire, i)
        BY <1>3, <2>2, <3>1, <3>3, ControlFacts
      <4>2. result'[i] = result[i]
        BY <2>2, <3>3 DEF TaskEvent, TaskReturn, TypeOK, ServerTypeOK
      <4> QED BY <1>0, <3>1, <4>1, <4>2
    <3> QED BY <3>2, <3>3
  <2>3. CASE TaskEvent(j)
    <3>1. "event" \in PluginType /\ ForRequest("event", j) \in PluginFrame
      BY FrameType DEF PluginType
    <3> QED BY <2>2, <2>3, <3>1 DEF TaskEvent
  <2>4. CASE TaskReturn(j)
    <3>1. PICK r \in {"finished", "error"} : Send(ForRequest(r, j))
      BY <2>4 DEF TaskReturn
    <3>2. r \in PluginType /\ ForRequest(r, j) \in PluginFrame
      BY FrameType DEF PluginType
    <3> QED BY <2>2, <2>4, <3>1, <3>2
  <2> QED BY <1>11, <2>1, <2>3, <2>4 DEF HandlerTask
<1>12. CASE StrayOutput \/ WriterWrites
  <2>1. MovesWire
    BY <1>12 DEF StrayOutput, MovesWire, serverVars
  <2>2. Some(Wire', i) <=> Some(Wire, i)
    BY <2>1, KeptFacts
  <2> QED BY <1>0, <1>12, <2>2 DEF StrayOutput, WriterWrites, serverVars
<1>13. CASE WriterFails
  <2>1. Some(Wire', i) => Some(Wire, i)
    BY <1>13, LostFacts DEF WriterFails, transportVars
  <2> QED BY <1>0, <1>13, <2>1 DEF WriterFails, transportVars
<1>14. CASE ServeReturns \/ ProcessKilled
  <2>1. ProcessEnds
    BY <1>14 DEF ServeReturns, ProcessKilled
  <2>2. Some(Wire', i) => Some(Wire, i)
    BY <2>1, LostFacts DEF ProcessEnds
  <2>3. ~Asks(stdin', i) /\ ~Stops(stdin', i) /\ AsksOnce(stdin', i)
    BY <2>1, NoInput DEF ProcessEnds
  <2>4. cancelId' # i
    BY <2>1 DEF ProcessEnds, RequestId, None
  <2> QED BY <1>0, <2>1, <2>2, <2>3, <2>4 DEF ProcessEnds
<1> QED
  BY <1>1, <1>2, <1>4, <1>5, <1>6, <1>7, <1>8, <1>9, <1>10, <1>11, <1>12, <1>13, <1>14
  DEF Server, ServerNext, ReadLoop, WriterLoop

\* The reader task gives a frame to its request and to no other.
LEMMA RouteFacts ==
    ASSUME TypeOK, Book, ReaderRoute, NEW i \in RequestId
    PROVE  /\ ~Of(Head(stdout), i) => inbox'[i] = inbox[i] /\ readerId' # i
           /\ Of(Head(stdout), i) =>
                 /\ inbox' = Delivered(i, Head(stdout))
                 /\ reader' = IF Terminal(Head(stdout)) THEN "remove" ELSE "read"
                 /\ readerId' = IF Terminal(Head(stdout)) THEN i ELSE None
                 /\ UNCHANGED <<clientPending, globalq, stdoutOpen>>
           /\ Head(stdout) \in PluginFrame
           /\ clientPending' \in {clientPending, {}}
           /\ reader' \in {"read", "remove"} => clientPending' = clientPending
           /\ UNCHANGED <<clientPhase, nextId, invocation, transcript, stdin, child>>
           /\ stdout # <<>> /\ stdout' = Tail(stdout) /\ reader = "read" /\ readerId = None
<1> DEFINE f == Head(stdout)
           r == request_id(f)
<1>1. /\ stdout # <<>> /\ stdout' = Tail(stdout) /\ reader = "read" /\ readerId = None
      /\ UNCHANGED <<clientPhase, nextId, invocation, transcript, stdin, child>>
  BY DEF ReaderRoute, Book
<1>2. f \in PluginFrame
  BY <1>1, TailFacts DEF TypeOK, TransportTypeOK
<1>3. i # None
  BY DEF RequestId, None
<1>4. CASE /\ r # None
           /\ inbox' = Delivered(r, f)
           /\ reader' = IF EndsEntry(f) THEN "remove" ELSE "read"
           /\ readerId' = IF EndsEntry(f) THEN r ELSE None
           /\ UNCHANGED <<clientPending, globalq, stdoutOpen>>
  <2>1. ASSUME r # i PROVE inbox'[i] = inbox[i] /\ readerId' # i
    BY <1>3, <1>4, <2>1 DEF Delivered, TypeOK, ClientTypeOK
  <2> QED BY <1>1, <1>2, <1>4, <2>1 DEF Of, EndsEntry
<1>5. CASE /\ r = None
           /\ UNCHANGED <<inbox, reader, readerId, clientPending, stdoutOpen>>
  BY <1>1, <1>2, <1>3, <1>5 DEF Of
<1>6. CASE r = None /\ ReaderBreaks
  BY <1>1, <1>2, <1>3, <1>6 DEF Of, ReaderBreaks, Cleared
<1> QED BY <1>4, <1>5, <1>6 DEF ReaderRoute

LEMMA OnceClientStep ==
    ASSUME TypeOK, TypeOK', Core, Client, NEW i \in RequestId PROVE Once(i)'
<1> USE DEF Once, Nothing, Begun, Untold
<1>0. Once(i) /\ Book /\ UNCHANGED <<plugin, serverPending, result, cancelId, outq>>
  BY ClientCases DEF Core, serverVars
<1>i. i # None
  BY DEF RequestId, None
<1>t. ASSUME stdout # <<>>, stdout' = Tail(stdout) PROVE Some(Wire', i) => Some(Wire, i)
  BY <1>0, <1>t, TakeFacts
<1>1. CASE Owner
  <2>1. OwnerEffect
    BY <1>1, OwnerFacts
  <2>2. Wire' = Wire
    BY <1>0, <2>1, WireSame DEF OwnerEffect
  <2>3. CASE UNCHANGED stdin
    BY <1>0, <2>1, <2>2, <2>3 DEF OwnerEffect
  <2>4. ASSUME NEW f \in HostFrame, f.type \in {"hello", "ping", "shutdown"}, HostWrites(f)
        PROVE  Once(i)'
    <3>1. ~Invokes(f, i) /\ ~Cancels(f, i)
      BY <2>4 DEF Invokes, Cancels
    <3>2. /\ Asks(stdin', i) <=> Asks(stdin, i)
          /\ Stops(stdin', i) <=> Stops(stdin, i)
          /\ AsksOnce(stdin, i) => AsksOnce(stdin', i)
      BY <2>4, <3>1, WriteFacts
    <3> QED BY <1>0, <2>1, <2>2, <3>2 DEF OwnerEffect
  <2> QED BY <2>1, <2>3, <2>4 DEF OwnerEffect
<1>2. CASE Handshake(plugin.same, plugin.protocol)
  BY <1>0, <1>2, <1>t DEF Handshake, SpawnFails
<1>3. CASE Reap
  BY <1>0, <1>3, <1>i, WireSame DEF Reap
<1>4. CASE HostCrash
  BY <1>0, <1>4, <1>i, WireSame DEF HostCrash, Dropped, TypeOK, ClientTypeOK
<1>5. CASE InvokeRegister
  BY <1>0, <1>5, WireSame DEF InvokeRegister, Book, transportVars, TypeOK, ClientTypeOK, RequestId
<1>6. CASE ReaderRoute
  <2>1. Of(Head(stdout), i) => Some(Wire, i)
    BY <1>0, <1>6, TakeFacts DEF ReaderRoute
  <2> QED BY <1>0, <1>6, <1>t, <2>1, RouteFacts
<1>7. CASE ReaderRemove \/ ReaderEof
  BY <1>0, <1>7, <1>i, WireSame DEF ReaderRemove, ReaderEof, ReaderBreaks, transportVars
<1>8. ASSUME NEW j \in RequestId, InvokeWrite(j) PROVE Once(i)'
  <2>1. ForRequest("invoke", j) \in HostFrame
    BY HostFrameType
  <2>2. /\ Invokes(ForRequest("invoke", j), i) <=> i = j
        /\ ~Cancels(ForRequest("invoke", j), i)
    BY DEF Invokes, Cancels, ForRequest
  <2>3. /\ Asks(stdin', i) <=> Asks(stdin, i) \/ i = j
        /\ Stops(stdin', i) <=> Stops(stdin, i)
        /\ AsksOnce(stdin, i) /\ (i = j => ~Asks(stdin, i)) => AsksOnce(stdin', i)
    BY <1>8, <2>1, <2>2, WriteFacts DEF InvokeWrite
  <2>4. invocation'[i] = IF i = j THEN "open" ELSE invocation[i]
    BY <1>8 DEF InvokeWrite, TypeOK, ClientTypeOK
  <2>5. Wire' = Wire /\ UNCHANGED <<inbox, transcript, readerId>> /\ invocation[j] = "registering"
    BY <1>0, <1>8, WireSame DEF InvokeWrite
  <2> QED BY <1>0, <2>3, <2>4, <2>5
<1>9. ASSUME NEW j \in RequestId, InvokeFails(j) \/ InvokeDropped(j) PROVE Once(i)'
  <2>1. invocation'[i] \in {invocation[i], "rejected", "abandoned"}
    BY <1>9 DEF InvokeFails, InvokeDropped, TypeOK, ClientTypeOK
  <2>2. Wire' = Wire /\ UNCHANGED <<inbox, transcript, readerId>>
    BY <1>0, <1>9, WireSame DEF InvokeFails, InvokeDropped, transportVars
  <2>3. /\ Asks(stdin', i) <=> Asks(stdin, i)
        /\ Stops(stdin', i) <=> Stops(stdin, i)
        /\ AsksOnce(stdin, i) => AsksOnce(stdin', i)
    <3>1. CASE UNCHANGED stdin
      BY <3>1
    <3>2. CASE HostWrites(Control("torn"))
      <4>1. Control("torn") \in HostFrame
        BY HostFrameType
      <4>2. ~Invokes(Control("torn"), i) /\ ~Cancels(Control("torn"), i)
        BY DEF Invokes, Cancels, Control
      <4> QED BY <3>2, <4>1, <4>2, WriteFacts
    <3> QED BY <1>9, <3>1, <3>2 DEF InvokeFails, InvokeDropped, transportVars
  <2> QED BY <1>0, <2>1, <2>2, <2>3
<1>10. ASSUME NEW j \in RequestId, Cancel(j) PROVE Once(i)'
  <2>1. ForRequest("cancel", j) \in HostFrame
    BY HostFrameType
  <2>2. /\ ~Invokes(ForRequest("cancel", j), i)
        /\ Cancels(ForRequest("cancel", j), i) <=> i = j
    BY DEF Invokes, Cancels, ForRequest
  <2>3. /\ Asks(stdin', i) <=> Asks(stdin, i)
        /\ Stops(stdin', i) <=> Stops(stdin, i) \/ i = j
        /\ AsksOnce(stdin, i) => AsksOnce(stdin', i)
    BY <1>10, <2>1, <2>2, WriteFacts DEF Cancel
  <2>4. /\ Wire' = Wire /\ UNCHANGED <<inbox, transcript, readerId, invocation>>
        /\ invocation[j] \in {"open", "drained"}
    BY <1>0, <1>10, WireSame DEF Cancel
  <2> QED BY <1>0, <2>3, <2>4
<1>11. ASSUME NEW j \in RequestId,
              FinishRecv(j) \/ FinishClosed(j) \/ NextEvent(j) \/ InvocationDropped(j)
       PROVE  Once(i)'
  <2>1. Wire' = Wire /\ UNCHANGED <<stdin, readerId>>
    BY <1>0, <1>11, CallerFacts, WireSame DEF transportVars
  <2>2. CASE i # j
    BY <1>0, <1>11, <2>1, <2>2, CallerFacts
  <2>3. CASE i = j
    <3>1. ~Untold(i)'
      BY <1>11, <2>3, CallerFacts
    <3>2. inbox[i] = <<>> => inbox'[i] = <<>> /\ transcript'[i] = transcript[i]
      BY <1>11, <2>3 DEF FinishRecv, FinishClosed, NextEvent, InvocationDropped, TypeOK, ClientTypeOK
    <3> QED BY <1>0, <2>1, <3>1, <3>2
  <2> QED BY <2>2, <2>3
<1> QED
  BY <1>1, <1>2, <1>3, <1>4, <1>5, <1>6, <1>7, <1>8, <1>9, <1>10, <1>11, ClientCases

\* Cancel is always read after the invoke it is about.
LEMMA CancelHead ==
    ASSUME TypeOK, TypeOK', Core, LoopCancel, NEW i \in RequestId, Head(stdin).id = i
    PROVE  Begun(i)
<1>1. stdin # <<>> /\ stdin' = Tail(stdin) /\ Head(stdin).type = "cancel" /\ phase = "loop"
  BY DEF LoopCancel, Receive
<1>2. ~StopsBehind(stdin, i)
  BY <1>1, ReadFacts DEF Cancels
<1> QED BY <1>1, <1>2 DEF Core, CancelFits, Sound

LEMMA SentServerStep ==
    ASSUME TypeOK, TypeOK', Core, Server, NEW i \in RequestId
    PROVE  CancelFits(i)' /\ Told(i)'
<1> USE DEF CancelFits, Told, Sound
<1>0. CancelFits(i) /\ Told(i) /\ Tasks /\ UNCHANGED invocation
  BY ServerFacts DEF Core, clientVars
<1>i. i # None
  BY DEF RequestId, None
<1>r. ASSUME stdin # <<>>, stdin' = Tail(stdin), ~Invokes(Head(stdin), i)
      PROVE  /\ Asks(stdin, i) => Asks(stdin', i)
             /\ StopsBehind(stdin, i) => StopsBehind(stdin', i)
  BY <1>r, ReadFacts
<1>1. CASE ServeHello \/ LoopHello \/ LoopPing \/ LoopShutdown \/ LoopCancel
  <2>1. /\ stdin # <<>> /\ stdin' = Tail(stdin) /\ ~Invokes(Head(stdin), i)
        /\ UNCHANGED <<serverPending, result>>
    BY <1>1 DEF ServeHello, LoopHello, LoopPing, LoopShutdown, LoopCancel, Receive, Invokes
  <2>2. cancelId' = i => cancelId = i \/ Begun(i)
    BY <1>1, CancelHead DEF ServeHello, LoopHello, LoopPing, LoopShutdown, LoopCancel
  <2>3. Sound' => Sound
    BY <1>1 DEF ServeHello, LoopHello, LoopPing, LoopShutdown, LoopCancel, Receive
  <2> QED BY <1>0, <1>r, <2>1, <2>2, <2>3 DEF Begun
<1>2. CASE RefuseHello \/ ReadTorn \/ ReadPartial \/ ReadEof
  BY <1>0, <1>2 DEF RefuseHello, ReadTorn, ReadPartial, ReadEof, Begun
<1>3. CASE CancelReturns \/ DrainDone
  BY <1>0, <1>3, <1>i DEF CancelReturns, DrainDone, transportVars, Begun
<1>4. CASE LoopInvoke
  <2>1. PICK j \in RequestId :
           /\ \A k \in RequestId : Invokes(Head(stdin), k) => k = j
           /\ Nothing(j)
           /\ serverPending' = serverPending \cup {j}
           /\ result' = [result EXCEPT ![j] = "none"]
    BY <1>4, InvokeFacts
  <2>2. stdin # <<>> /\ stdin' = Tail(stdin) /\ UNCHANGED <<phase, cancelId>>
    BY <1>4 DEF LoopInvoke, Receive
  <2>3. CASE i = j
    BY <2>1, <2>2, <2>3 DEF Begun
  <2>4. CASE i # j
    BY <1>0, <1>r, <2>1, <2>2, <2>4 DEF Begun, TypeOK, ServerTypeOK
  <2> QED BY <2>3, <2>4
<1>5. ASSUME NEW j \in RequestId, HandlerTask(j) PROVE CancelFits(i)' /\ Told(i)'
  <2>1. Begun(i) => Begun(i)'
    BY <1>0, <1>5 DEF HandlerTask, TaskEvent, TaskReturn, TaskRemove, TaskPanic, Released, Begun,
                 Tasks, TypeOK, ServerTypeOK
  <2>2. UNCHANGED <<stdin, phase, cancelId>>
    BY <1>5 DEF HandlerTask, TaskEvent, TaskReturn, TaskRemove, TaskPanic, transportVars
  <2> QED BY <1>0, <2>1, <2>2
<1>6. CASE StrayOutput \/ WriterLoop
  BY <1>0, <1>6 DEF StrayOutput, WriterLoop, WriterWrites, WriterFails, WriterEnds, transportVars,
               serverVars, Begun
<1>7. CASE ServeReturns \/ ProcessKilled
  BY <1>7, <1>i DEF ServeReturns, ProcessKilled, ProcessEnds
<1> QED
  BY <1>1, <1>2, <1>3, <1>4, <1>5, <1>6, <1>7 DEF Server, ServerNext, ReadLoop

LEMMA SentClientStep ==
    ASSUME TypeOK, TypeOK', Core, Client, NEW i \in RequestId
    PROVE  CancelFits(i)' /\ Told(i)'
<1> USE DEF CancelFits, Told, Sound, Begun
<1>0. CancelFits(i) /\ Told(i) /\ Book /\ UNCHANGED <<phase, serverPending, result, cancelId>>
  BY ClientCases DEF Core, serverVars
<1>1. CASE Owner
  <2>1. OwnerEffect
    BY <1>1, OwnerFacts
  <2>2. CASE UNCHANGED stdin
    BY <1>0, <2>1, <2>2 DEF OwnerEffect
  <2>3. ASSUME NEW f \in HostFrame, f.type \in {"hello", "ping", "shutdown"}, HostWrites(f)
        PROVE  CancelFits(i)' /\ Told(i)'
    <3>1. ~Cancels(f, i)
      BY <2>3 DEF Cancels
    <3>2. /\ Asks(stdin, i) => Asks(stdin', i)
          /\ StopsBehind(stdin, i) => StopsBehind(stdin', i)
      BY <2>3, <3>1, WriteFacts
    <3> QED BY <1>0, <2>1, <3>2 DEF OwnerEffect
  <2> QED BY <2>1, <2>2, <2>3 DEF OwnerEffect
<1>2. CASE \/ Handshake(plugin.same, plugin.protocol) \/ Reap
           \/ ReaderRoute \/ ReaderRemove \/ ReaderEof
  BY <1>0, <1>2 DEF Handshake, SpawnFails, Reap, ReaderRoute, ReaderRemove, ReaderEof, transportVars
<1>3. CASE HostCrash
  BY <1>0, <1>3 DEF HostCrash, Dropped, TypeOK, ClientTypeOK
<1>4. CASE InvokeRegister
  BY <1>0, <1>4 DEF InvokeRegister, transportVars, TypeOK, ClientTypeOK
<1>5. ASSUME NEW j \in RequestId, InvokeWrite(j) PROVE CancelFits(i)' /\ Told(i)'
  <2>1. ForRequest("invoke", j) \in HostFrame
    BY HostFrameType
  <2>2. /\ Invokes(ForRequest("invoke", j), i) <=> i = j
        /\ ~Cancels(ForRequest("invoke", j), i)
    BY DEF Invokes, Cancels, ForRequest
  <2>3. /\ Asks(stdin', i) <=> Asks(stdin, i) \/ i = j
        /\ StopsBehind(stdin, i) => StopsBehind(stdin', i)
    BY <1>5, <2>1, <2>2, WriteFacts DEF InvokeWrite
  <2>4. i # j => invocation'[i] = invocation[i]
    BY <1>5 DEF InvokeWrite, TypeOK, ClientTypeOK
  <2> QED BY <1>0, <2>3, <2>4
<1>6. ASSUME NEW j \in RequestId, InvokeFails(j) \/ InvokeDropped(j)
      PROVE  CancelFits(i)' /\ Told(i)'
  <2>1. invocation'[i] \in {invocation[i], "rejected", "abandoned"}
    BY <1>6 DEF InvokeFails, InvokeDropped, TypeOK, ClientTypeOK
  <2>2. /\ Asks(stdin, i) => Asks(stdin', i)
        /\ StopsBehind(stdin, i) => StopsBehind(stdin', i)
    <3>1. CASE UNCHANGED stdin
      BY <3>1
    <3>2. CASE HostWrites(Control("torn"))
      <4>1. Control("torn") \in HostFrame
        BY HostFrameType
      <4>2. ~Cancels(Control("torn"), i)
        BY DEF Cancels, Control
      <4> QED BY <3>2, <4>1, <4>2, WriteFacts
    <3> QED BY <1>6, <3>1, <3>2 DEF InvokeFails, InvokeDropped, transportVars
  <2> QED BY <1>0, <2>1, <2>2
<1>7. ASSUME NEW j \in RequestId, Cancel(j) PROVE CancelFits(i)' /\ Told(i)'
  <2>1. ForRequest("cancel", j) \in HostFrame
    BY HostFrameType
  <2>2. Cancels(ForRequest("cancel", j), i) <=> i = j
    BY DEF Cancels, ForRequest
  <2>3. /\ Asks(stdin, i) => Asks(stdin', i)
        /\ StopsBehind(stdin, i) /\ (i = j => Asks(stdin, i)) => StopsBehind(stdin', i)
    BY <1>7, <2>1, <2>2, WriteFacts DEF Cancel
  <2>4. UNCHANGED invocation /\ invocation[j] \in {"open", "drained"}
    BY <1>7 DEF Cancel
  <2>5. i = j /\ Sound => Asks(stdin, i) \/ Begun(i)
    BY <1>0, <2>4
  <2> QED BY <1>0, <2>3, <2>4, <2>5
<1>8. ASSUME NEW j \in RequestId,
             FinishRecv(j) \/ FinishClosed(j) \/ NextEvent(j) \/ InvocationDropped(j)
      PROVE  CancelFits(i)' /\ Told(i)'
  <2>1. UNCHANGED stdin
    BY <1>8, CallerFacts DEF transportVars
  <2>2. invocation'[i] \in {"open", "drained"} => invocation[i] \in {"open", "drained"}
    BY <1>8, CallerFacts
  <2> QED BY <1>0, <2>1, <2>2
<1> QED
  BY <1>1, <1>2, <1>3, <1>4, <1>5, <1>6, <1>7, <1>8, ClientCases

LEMMA CoreInit == Init => Core
<1> SUFFICES ASSUME Init PROVE Core
  OBVIOUS
<1> USE DEF Init, TransportInit, ClientInit, ServerInit
<1>1. Book
  BY DEF Book, Early, RequestId, ReaderRuns
<1>2. Tasks
  BY DEF Tasks
<1>3. ASSUME NEW i \in RequestId PROVE Once(i) /\ CancelFits(i) /\ Told(i)
  <2>1. i # None
    BY DEF RequestId, None
  <2>2. /\ ~Asks(stdin, i) /\ ~Stops(stdin, i)
        /\ AsksOnce(stdin, i) /\ StopsBehind(stdin, i)
    BY NoInput
  <2>3. ~Some(Wire, i)
    <3>1. Len(Wire) = 0
      BY DEF Wire
    <3> QED BY <3>1 DEF Some
  <2> QED BY <2>1, <2>2, <2>3 DEF Once, CancelFits, Told, Nothing, Begun, Untold, Sound
<1> QED BY <1>1, <1>2, <1>3 DEF Core

LEMMA CoreStep == TypeOK /\ TypeOK' /\ Core /\ [Next]_vars => Core'
<1>1. ASSUME TypeOK, TypeOK', Core, Client \/ Server PROVE Core'
  <2>1. Book' /\ Tasks'
    BY <1>1, BookStep, TasksStep
  <2>2. ASSUME NEW i \in RequestId PROVE Once(i)' /\ CancelFits(i)' /\ Told(i)'
    BY <1>1, OnceServerStep, OnceClientStep, SentServerStep, SentClientStep
  <2> QED BY <2>1, <2>2 DEF Core
<1>2. ASSUME Core, UNCHANGED vars PROVE Core'
  BY <1>2 DEF vars, transportVars, serverVars, clientVars, Core, Book, Tasks, Once, CancelFits, Told,
              Nothing, Begun, Untold, Sound, Wire, ReaderRuns
<1> QED BY <1>1, <1>2 DEF Next, Stop

(***************************************************************************)
(* An invocation's channel.                                                *)
(***************************************************************************)
Bears(q, t) == \E k \in 1 .. Len(q) : q[k].type = t
Ended(q) == \E k \in 1 .. Len(q) : Terminal(q[k])
Opening(q) == \A k \in 1 .. Len(q) : q[k].type = "started" <=> k = 1

\* What may come after i's terminal frame: an event of a context that its
\* handler let outlive it.
Late(f, i) == i \in Leaky /\ ~Terminal(f)
AllLate(q, i) == \A k \in 1 .. Len(q) : Late(q[k], i)
EndThenLate(q, i) ==
    \A k \in 1 .. Len(q) : Terminal(q[k]) => \A m \in (k + 1) .. Len(q) : Late(q[m], i)

LEMMA ChannelGrows ==
    ASSUME NEW q \in Seq(PluginFrame), NEW f \in PluginFrame, NEW p, p = Append(q, f),
           NEW i \in RequestId
    PROVE  /\ p # <<>>
           /\ \A t : Bears(p, t) <=> Bears(q, t) \/ f.type = t
           /\ Ended(p) <=> Ended(q) \/ Terminal(f)
           /\ Opening(q) /\ (f.type = "started" <=> q = <<>>) => Opening(p)
           /\ AllLate(q, i) /\ Late(f, i) => AllLate(p, i)
           /\ EndThenLate(q, i) /\ (Ended(q) => Late(f, i)) => EndThenLate(p, i)
<1>1. /\ Len(q) \in Nat /\ Len(p) = Len(q) + 1 /\ p[Len(q) + 1] = f
      /\ \A k \in 1 .. Len(q) : p[k] = q[k]
      /\ q = <<>> <=> Len(q) = 0
  BY AppendFacts
<1>2. /\ \A k \in 1 .. Len(p) : p[k] = f \/ \E m \in 1 .. Len(q) : q[m] = p[k]
      /\ \A m \in 1 .. Len(q) : \E k \in 1 .. Len(p) : p[k] = q[m]
      /\ \E k \in 1 .. Len(p) : p[k] = f
  BY <1>1
<1>3. p # <<>>
  BY <1>1, EmptyFacts
<1>4. /\ \A t : Bears(p, t) <=> Bears(q, t) \/ f.type = t
      /\ Ended(p) <=> Ended(q) \/ Terminal(f)
  BY <1>2 DEF Bears, Ended
<1>5. ASSUME Opening(q), f.type = "started" <=> q = <<>> PROVE Opening(p)
  BY <1>1, <1>5 DEF Opening
<1>6. ASSUME AllLate(q, i), Late(f, i) PROVE AllLate(p, i)
  BY <1>2, <1>6 DEF AllLate
<1>7. ASSUME EndThenLate(q, i), Ended(q) => Late(f, i) PROVE EndThenLate(p, i)
  <2> SUFFICES ASSUME NEW k \in 1 .. Len(p), Terminal(p[k]), NEW m \in (k + 1) .. Len(p)
               PROVE  Late(p[m], i)
    BY DEF EndThenLate
  <2>1. k \in 1 .. Len(q) /\ p[k] = q[k]
    BY <1>1
  <2>2. CASE m \in (k + 1) .. Len(q)
    BY <1>1, <1>7, <2>1, <2>2 DEF EndThenLate
  <2>3. CASE m = Len(q) + 1
    BY <1>1, <1>7, <2>1, <2>3 DEF Ended
  <2> QED BY <1>1, <2>2, <2>3
<1> QED BY <1>3, <1>4, <1>5, <1>6, <1>7

LEMMA ChannelTaken ==
    ASSUME NEW q \in Seq(PluginFrame), q # <<>>, NEW p, p = Tail(q), NEW f, f = Head(q),
           NEW i \in RequestId
    PROVE  /\ \A t : Bears(q, t) <=> Bears(p, t) \/ f.type = t
           /\ Ended(q) <=> Ended(p) \/ Terminal(f)
           /\ Opening(q) => f.type = "started" /\ ~Bears(p, "started")
           /\ AllLate(q, i) => AllLate(p, i)
           /\ EndThenLate(q, i) => EndThenLate(p, i)
           /\ EndThenLate(q, i) /\ Terminal(f) => AllLate(p, i)
<1>1. /\ Len(q) \in Nat \ {0} /\ Len(p) \in Nat /\ Len(q) = Len(p) + 1 /\ q[1] = f
      /\ \A k \in 1 .. Len(p) : p[k] = q[k + 1] /\ k + 1 \in 1 .. Len(q)
  BY TailFacts
<1>2. ASSUME NEW k \in 1 .. Len(q), k # 1 PROVE \E m \in 1 .. Len(p) : p[m] = q[k]
  <2>1. k - 1 \in 1 .. Len(p) /\ (k - 1) + 1 = k
    BY <1>1, <1>2
  <2> QED BY <1>1, <2>1
<1>3. /\ \A m \in 1 .. Len(p) : \E k \in 1 .. Len(q) : p[m] = q[k] /\ k # 1
      /\ 1 \in 1 .. Len(q)
  BY <1>1
<1>4. /\ \A t : Bears(q, t) <=> Bears(p, t) \/ f.type = t
      /\ Ended(q) <=> Ended(p) \/ Terminal(f)
  <2>1. \A k \in 1 .. Len(q) : q[k] = f \/ \E m \in 1 .. Len(p) : p[m] = q[k]
    BY <1>1, <1>2
  <2>2. \A m \in 1 .. Len(p) : \E k \in 1 .. Len(q) : p[m] = q[k]
    BY <1>3
  <2>3. \E k \in 1 .. Len(q) : q[k] = f
    BY <1>1, <1>3
  <2>4. ASSUME NEW t PROVE Bears(q, t) <=> Bears(p, t) \/ f.type = t
    BY <2>1, <2>2, <2>3 DEF Bears
  <2>5. Ended(q) <=> Ended(p) \/ Terminal(f)
    BY <2>1, <2>2, <2>3 DEF Ended
  <2> QED BY <2>4, <2>5
<1>5. ASSUME Opening(q) PROVE f.type = "started" /\ ~Bears(p, "started")
  BY <1>1, <1>3, <1>5 DEF Opening, Bears
<1>6. ASSUME AllLate(q, i) PROVE AllLate(p, i)
  BY <1>3, <1>6 DEF AllLate
<1>7. ASSUME EndThenLate(q, i) PROVE EndThenLate(p, i)
  <2> SUFFICES ASSUME NEW k \in 1 .. Len(p), Terminal(p[k]), NEW m \in (k + 1) .. Len(p)
               PROVE  Late(p[m], i)
    BY DEF EndThenLate
  <2>1. m + 1 \in (k + 1 + 1) .. Len(q) /\ m \in 1 .. Len(p)
    BY <1>1
  <2> QED BY <1>1, <1>7, <2>1 DEF EndThenLate
<1>8. ASSUME EndThenLate(q, i), Terminal(f) PROVE AllLate(p, i)
  <2> SUFFICES ASSUME NEW m \in 1 .. Len(p) PROVE Late(p[m], i)
    BY DEF AllLate
  <2>1. 1 \in 1 .. Len(q) /\ m + 1 \in (1 + 1) .. Len(q)
    BY <1>1
  <2> QED BY <1>1, <1>8, <2>1 DEF EndThenLate
<1> QED BY <1>4, <1>5, <1>6, <1>7, <1>8

LEMMA ChannelEmpty ==
    ASSUME NEW q, q = <<>>, NEW i \in RequestId
    PROVE  /\ \A t : ~Bears(q, t)
           /\ ~Ended(q) /\ Opening(q) /\ AllLate(q, i) /\ EndThenLate(q, i)
BY EmptyFacts DEF Bears, Ended, Opening, AllLate, EndThenLate

\* Nothing on the wire, nothing in the wrong order.
LEMMA SilentWire ==
    ASSUME NEW w, NEW i \in RequestId, ~Some(w, i)
    PROVE  /\ \A t : ~Has(w, i, t)
           /\ ~HasEnd(w, i) /\ ~HasCounted(w, i)
           /\ StartsOnce(w, i) /\ StartsFirst(w, i) /\ EndsLast(w, i)
BY DEF Some, Has, HasEnd, HasCounted, StartsOnce, StartsFirst, EndsLast, Ends, Counted

(***************************************************************************)
(* From started to the end: what the reader task hands on, and in which    *)
(* order.                                                                  *)
(***************************************************************************)
Seen(i) == inbox[i] # <<>> \/ transcript[i] # <<>>
Awaits(i) == invocation[i] = "open" /\ i \in clientPending

\* Started is sent once and comes first.
Starts(i) ==
    /\ StartsOnce(Wire, i)
    /\ invocation[i] = "open" /\ transcript[i] = <<>> => Opening(inbox[i])
    /\ invocation[i] = "open" /\ transcript[i] # <<>> => ~Bears(inbox[i], "started")
    /\ Awaits(i) /\ Seen(i) => ~Has(Wire, i, "started")
    /\ Awaits(i) /\ ~Seen(i) =>
          /\ StartsFirst(Wire, i)
          /\ Begun(i) /\ writerTask = "running" => Has(Wire, i, "started")

\* The entry in pending goes only once the terminal frame is in the channel.
Closing(i) ==
    /\ ReaderRuns /\ invocation[i] = "open" /\ (i \notin clientPending \/ readerId = i)
          => Ended(inbox[i])
    /\ invocation[i] = "closed" => ~ReaderRuns

\* What the caller has received so far.
Received(i) ==
    \A k \in 1 .. Len(transcript[i]) :
        /\ transcript[i][k] = "started" <=> k = 1
        /\ transcript[i][k] \in {"finished", "error"} =>
              k = Len(transcript[i]) /\ invocation[i] \in Resolved

Course == \A i \in RequestId : Starts(i) /\ Closing(i) /\ Received(i)

LEMMA StartsServerStep ==
    ASSUME TypeOK, TypeOK', Core, Server, NEW i \in RequestId, Starts(i) PROVE Starts(i)'
<1> USE DEF Starts, Seen, Awaits
<1>0. /\ Once(i) /\ CancelFits(i) /\ Tasks
      /\ UNCHANGED <<invocation, inbox, transcript, readerId, clientPending>>
  BY ServerFacts DEF Core, clientVars
<1>1. ASSUME UNCHANGED <<stdout, outq, writerTask>>, Begun(i)' => Begun(i) PROVE Starts(i)'
  BY <1>0, <1>1, WireSame
\* A frame is sent: of another request or of none, or of i once it has begun.
<1>2. ASSUME NEW f \in PluginFrame, Send(f), UNCHANGED <<stdout, writerTask>>,
             Begun(i)' => Begun(i), Of(f, i) => Begun(i) /\ f.type # "started"
      PROVE  Starts(i)'
  BY <1>0, <1>2, SendFacts
<1>3. CASE MovesWire /\ UNCHANGED <<serverPending, result, writerTask>>
  BY <1>0, <1>3, KeptFacts DEF Begun
<1>4. CASE ServeHello
  <2>1. CASE UNCHANGED stdout
    BY <1>1, <1>4, <2>1 DEF ServeHello, Begun
  <2>2. CASE PluginWrites(Control("hello"))
    BY <1>3, <1>4, <2>2 DEF ServeHello, MovesWire
  <2> QED BY <1>4, <2>1, <2>2 DEF ServeHello
<1>5. CASE RefuseHello \/ ReadTorn \/ ReadPartial \/ LoopShutdown \/ LoopCancel \/ ReadEof
  BY <1>1, <1>5 DEF RefuseHello, ReadTorn, ReadPartial, LoopShutdown, LoopCancel, ReadEof,
                    transportVars, Begun
<1>6. CASE LoopHello
  <2>1. ForRequest("error", None) \in PluginFrame
    BY FrameType DEF PluginType
  <2> QED BY <1>2, <1>6, <2>1, ControlFacts DEF LoopHello, Begun
<1>7. CASE LoopPing
  <2>1. WithNonce("pong", Head(stdin).nonce) \in PluginFrame
    BY <1>7, StdinHead, FrameType DEF LoopPing, Receive, PluginType, HostFrame
  <2> QED BY <1>2, <1>7, <2>1, ControlFacts DEF LoopPing, Begun
<1>8. CASE CancelReturns
  <2>1. CASE UNCHANGED outq
    BY <1>1, <1>8, <2>1 DEF CancelReturns, transportVars, Begun
  <2>2. CASE Send(ForRequest("error", cancelId))
    <3>1. ForRequest("error", cancelId) \in PluginFrame
      BY FrameType DEF PluginType, TypeOK, ServerTypeOK
    <3>2. Of(ForRequest("error", cancelId), i) => Begun(i)
      BY <1>0, ControlFacts DEF CancelFits
    <3>3. ForRequest("error", cancelId).type = "error"
      BY DEF ForRequest
    <3> QED BY <1>2, <1>8, <2>2, <3>1, <3>2, <3>3 DEF CancelReturns, transportVars, Begun
  <2> QED BY <1>8, <2>1, <2>2 DEF CancelReturns
<1>9. CASE DrainDone
  <2>1. Control("shutdown_ack") \in PluginFrame
    BY FrameType DEF PluginType
  <2> QED BY <1>2, <1>9, <2>1, ControlFacts DEF DrainDone, transportVars, Begun
<1>10. CASE LoopInvoke
  <2>1. PICK j \in RequestId :
           /\ Nothing(j)
           /\ Send(ForRequest("started", j)) /\ ForRequest("started", j) \in PluginFrame
           /\ serverPending' = serverPending \cup {j}
           /\ result' = [result EXCEPT ![j] = "none"]
    BY <1>10, InvokeFacts
  <2>2. UNCHANGED <<stdout, writerTask>>
    BY <1>10 DEF LoopInvoke
  <2>3. CASE i = j
    <3>1. /\ ~Some(Wire, i) /\ inbox[i] = <<>> /\ transcript[i] = <<>>
      BY <2>1, <2>3 DEF Nothing
    <3>2. ~Has(Wire, i, "started") /\ StartsOnce(Wire, i) /\ StartsFirst(Wire, i)
      BY <3>1, SilentWire
    <3>3. /\ Of(ForRequest("started", j), i)
          /\ ForRequest("started", j).type = "started"
      BY <2>3, ControlFacts
    <3>4. /\ StartsOnce(Wire', i) /\ StartsFirst(Wire', i)
          /\ writerTask = "running" => Has(Wire', i, "started")
      BY <2>1, <2>2, <3>2, <3>3, SendFacts
    <3> QED BY <1>0, <2>2, <3>1, <3>4
  <2>4. CASE i # j
    <3>1. Begun(i)' => Begun(i)
      BY <2>1, <2>4 DEF Begun, TypeOK, ServerTypeOK
    <3>2. ~Of(ForRequest("started", j), i)
      BY <2>4, ControlFacts
    <3> QED BY <1>2, <2>1, <2>2, <3>1, <3>2
  <2> QED BY <2>3, <2>4
<1>11. ASSUME NEW j \in RequestId, HandlerTask(j) PROVE Starts(i)'
  <2>1. CASE TaskRemove(j) \/ TaskPanic(j)
    <3>1. Begun(i)' => Begun(i)
      BY <1>0, <2>1 DEF TaskRemove, TaskPanic, Released, Tasks, Begun, TypeOK, ServerTypeOK
    <3> QED BY <1>1, <2>1, <3>1 DEF TaskRemove, TaskPanic, transportVars
  <2>2. ASSUME NEW t \in {"event", "finished", "error"}, Send(ForRequest(t, j)),
               TaskEvent(j) \/ TaskReturn(j)
        PROVE  Starts(i)'
    <3>1. UNCHANGED <<stdout, serverPending, writerTask>>
      BY <2>2 DEF TaskEvent, TaskReturn, transportVars
    <3>2. ForRequest(t, j) \in PluginFrame /\ ForRequest(t, j).type # "started"
      BY FrameType DEF PluginType, ForRequest
    <3>3. Of(ForRequest(t, j), i) => Begun(i)
      BY <2>2, ControlFacts, SpeakFacts
    <3>4. Begun(i)' => Begun(i)
      BY <2>2, <3>1, SpeakFacts DEF TaskEvent, TaskReturn, Begun, TypeOK, ServerTypeOK
    <3> QED BY <1>2, <2>2, <3>1, <3>2, <3>3, <3>4
  <2>3. CASE TaskEvent(j)
    BY <2>2, <2>3 DEF TaskEvent
  <2>4. CASE TaskReturn(j)
    <3>1. PICK r \in {"finished", "error"} : Send(ForRequest(r, j))
      BY <2>4 DEF TaskReturn
    <3> QED BY <2>2, <2>4, <3>1
  <2> QED BY <1>11, <2>1, <2>3, <2>4 DEF HandlerTask
<1>12. CASE StrayOutput \/ WriterWrites
  BY <1>3, <1>12 DEF StrayOutput, WriterWrites, MovesWire, serverVars
<1>13. CASE WriterFails
  <2>1. writerTask' # "running"
    BY <1>13 DEF WriterFails
  <2>2. /\ Has(Wire', i, "started") => Has(Wire, i, "started")
        /\ StartsOnce(Wire, i) => StartsOnce(Wire', i)
        /\ StartsFirst(Wire, i) => StartsFirst(Wire', i)
    BY <1>13, LostFacts DEF WriterFails, transportVars
  <2> QED BY <1>0, <2>1, <2>2
<1>14. CASE WriterEnds
  <2>1. writerTask' # "running" /\ Wire' = Wire
    BY <1>14, WireSame DEF WriterEnds, transportVars
  <2> QED BY <1>0, <2>1
<1>15. CASE ServeReturns \/ ProcessKilled
  <2>1. ProcessEnds
    BY <1>15 DEF ServeReturns, ProcessKilled
  <2>2. writerTask' # "running"
    BY <2>1 DEF ProcessEnds
  <2>3. /\ Has(Wire', i, "started") => Has(Wire, i, "started")
        /\ StartsOnce(Wire, i) => StartsOnce(Wire', i)
        /\ StartsFirst(Wire, i) => StartsFirst(Wire', i)
    BY <2>1, LostFacts DEF ProcessEnds
  <2> QED BY <1>0, <2>2, <2>3
<1> QED
  BY <1>4, <1>5, <1>6, <1>7, <1>8, <1>9, <1>10, <1>11, <1>12, <1>13, <1>14, <1>15
  DEF Server, ServerNext, ReadLoop, WriterLoop

\* Delivery, and what the caller takes.
LEMMA DeliveryFacts ==
    ASSUME TypeOK, Book, ReaderRoute, NEW i \in RequestId, Of(Head(stdout), i)
    PROVE  inbox'[i] = IF i \in clientPending /\ invocation[i] \in {"registering", "open", "drained"}
                       THEN Append(inbox[i], Head(stdout)) ELSE inbox[i]
BY RouteFacts DEF Delivered, TypeOK, ClientTypeOK

LEMMA TakingFacts ==
    ASSUME TypeOK, NEW i \in RequestId, FinishRecv(i) \/ NextEvent(i)
    PROVE  /\ inbox[i] \in Seq(PluginFrame) /\ inbox[i] # <<>> /\ invocation[i] = "open"
           /\ inbox'[i] = Tail(inbox[i])
           /\ transcript'[i] = Append(transcript[i], Head(inbox[i]).type)
           /\ invocation'[i] \in {"open", "finished", "errored", "drained"}
           /\ Terminal(Head(inbox[i])) <=> invocation'[i] # "open"
           /\ invocation'[i] = "finished" => Head(inbox[i]).type = "finished"
           /\ invocation'[i] = "errored" => Head(inbox[i]).type = "error"
BY DEF FinishRecv, NextEvent, Outcome, Terminal, TypeOK, ClientTypeOK

LEMMA StartsClientStep ==
    ASSUME TypeOK, TypeOK', Core, Client, NEW i \in RequestId, Starts(i) PROVE Starts(i)'
<1> USE DEF Starts, Seen, Awaits
<1>0. Once(i) /\ Book /\ UNCHANGED <<plugin, serverPending, result, outq, writerTask>>
  BY ClientCases DEF Core, serverVars
<1>b. Begun(i)' <=> Begun(i)
  BY <1>0 DEF Begun
<1>1. ASSUME UNCHANGED <<stdout, inbox, transcript>>,
             invocation'[i] = "open" => invocation[i] = "open",
             i \in clientPending' => i \in clientPending
      PROVE  Starts(i)'
  BY <1>0, <1>1, <1>b, WireSame
<1>2. CASE Owner
  BY <1>1, <1>2, OwnerFacts DEF OwnerEffect
<1>3. CASE Handshake(plugin.same, plugin.protocol)
  <2>1. invocation'[i] = "unused"
    BY <1>0, <1>3 DEF Handshake, SpawnFails, Book, Early
  <2>2. StartsOnce(Wire', i)
    BY <1>0, <1>3, TakeFacts DEF Handshake
  <2> QED BY <2>1, <2>2
<1>4. CASE Reap
  BY <1>1, <1>4 DEF Reap
<1>5. CASE HostCrash
  <2>1. invocation'[i] # "open"
    BY <1>5 DEF HostCrash, Dropped, TypeOK, ClientTypeOK
  <2>2. Wire' = Wire
    BY <1>0, <1>5, WireSame DEF HostCrash
  <2> QED BY <2>1, <2>2
<1>6. CASE InvokeRegister
  <2>1. invocation'[i] = "open" => invocation[i] = "open" /\ i # nextId
    BY <1>6 DEF InvokeRegister, TypeOK, ClientTypeOK
  <2>2. UNCHANGED <<inbox, transcript>> /\ Wire' = Wire
    BY <1>0, <1>6, WireSame DEF InvokeRegister, transportVars
  <2>3. i # nextId => (i \in clientPending' <=> i \in clientPending)
    BY <1>6 DEF InvokeRegister
  <2> QED BY <1>0, <1>b, <2>1, <2>2, <2>3
<1>7. CASE ReaderRoute
  <2> DEFINE f == Head(stdout)
  <2>1. /\ f \in PluginFrame /\ stdout # <<>> /\ stdout' = Tail(stdout)
        /\ UNCHANGED <<invocation, transcript>>
        /\ i \in clientPending' => i \in clientPending
    BY <1>0, <1>7, RouteFacts
  <2>2. /\ \A t : Has(Wire, i, t) <=> Has(Wire', i, t) \/ (Of(f, i) /\ f.type = t)
        /\ StartsOnce(Wire, i) => StartsOnce(Wire', i)
        /\ StartsOnce(Wire, i) /\ Of(f, i) /\ f.type = "started" => ~Has(Wire', i, "started")
        /\ StartsFirst(Wire, i) /\ ~Of(f, i) => StartsFirst(Wire', i)
        /\ StartsFirst(Wire, i) /\ Of(f, i) => f.type = "started"
    BY <1>0, <2>1, TakeFacts
  <2> HIDE DEF f
  <2>3. CASE ~Of(f, i)
    <3>1. inbox'[i] = inbox[i]
      BY <1>0, <1>7, <2>3, RouteFacts DEF f
    <3> QED BY <1>0, <1>b, <2>1, <2>2, <2>3, <3>1
  <2>4. CASE Of(f, i) /\ Awaits(i)
    <3>1. inbox'[i] = Append(inbox[i], f) /\ inbox[i] \in Seq(PluginFrame)
      BY <1>0, <1>7, <2>4, DeliveryFacts DEF f, TypeOK, ClientTypeOK
    <3>2. /\ inbox'[i] # <<>>
          /\ \A t : Bears(inbox'[i], t) <=> Bears(inbox[i], t) \/ f.type = t
          /\ Opening(inbox[i]) /\ (f.type = "started" <=> inbox[i] = <<>>) => Opening(inbox'[i])
      BY <2>1, <3>1, ChannelGrows
    <3>3. CASE Seen(i)
      <4>1. f.type # "started" /\ ~Has(Wire', i, "started")
        BY <2>2, <2>4, <3>3
      <4>2. transcript[i] = <<>> => Opening(inbox'[i])
        BY <2>4, <3>2, <3>3, <4>1
      <4>3. transcript[i] # <<>> => ~Bears(inbox'[i], "started")
        BY <2>4, <3>2, <4>1
      <4> QED BY <2>1, <2>2, <3>2, <4>1, <4>2, <4>3
    <3>4. CASE ~Seen(i)
      <4>1. f.type = "started" /\ ~Has(Wire', i, "started")
        BY <2>2, <2>4, <3>4
      <4>2. transcript[i] = <<>> /\ Opening(inbox'[i])
        BY <2>4, <3>2, <3>4, <4>1
      <4> QED BY <2>1, <2>2, <3>2, <4>1, <4>2
    <3> QED BY <3>3, <3>4
  <2>5. CASE Of(f, i) /\ ~Awaits(i)
    <3>1. invocation[i] = "open" => inbox'[i] = inbox[i]
      BY <1>0, <1>7, <2>5, DeliveryFacts DEF f
    <3> QED BY <2>1, <2>2, <2>5, <3>1
  <2> QED BY <2>3, <2>4, <2>5
<1>8. CASE ReaderRemove \/ ReaderEof
  BY <1>1, <1>8 DEF ReaderRemove, ReaderEof, ReaderBreaks, Cleared, transportVars
<1>9. ASSUME NEW j \in RequestId, InvokeWrite(j) PROVE Starts(i)'
  <2>1. UNCHANGED <<stdout, inbox, transcript, clientPending>> /\ invocation[j] = "registering"
    BY <1>9 DEF InvokeWrite
  <2>2. CASE i # j
    BY <1>1, <1>9, <2>1, <2>2 DEF InvokeWrite, TypeOK, ClientTypeOK
  <2>3. CASE i = j
    <3>1. Nothing(i)
      BY <1>0, <2>1, <2>3 DEF Once, Untold
    <3>2. StartsOnce(Wire, i) /\ StartsFirst(Wire, i) /\ ~Begun(i) /\ Opening(inbox[i])
      BY <3>1, SilentWire, ChannelEmpty DEF Nothing
    <3>3. Wire' = Wire
      BY <1>0, <2>1, WireSame
    <3> QED BY <1>b, <2>1, <3>1, <3>2, <3>3 DEF Nothing
  <2> QED BY <2>2, <2>3
<1>10. ASSUME NEW j \in RequestId, InvokeFails(j) \/ InvokeDropped(j) \/ Cancel(j) \/ FinishClosed(j)
       PROVE  Starts(i)'
  BY <1>1, <1>10 DEF InvokeFails, InvokeDropped, Cancel, FinishClosed, transportVars, TypeOK,
                     ClientTypeOK
<1>11. ASSUME NEW j \in RequestId, FinishRecv(j) \/ NextEvent(j) \/ InvocationDropped(j)
       PROVE  Starts(i)'
  <2>1. Wire' = Wire /\ UNCHANGED clientPending
    BY <1>0, <1>11, CallerFacts, WireSame DEF transportVars
  <2>2. CASE i # j
    BY <1>0, <1>b, <1>11, <2>1, <2>2, CallerFacts
  <2>3. CASE i = j /\ InvocationDropped(j)
    <3>1. invocation'[i] # "open"
      BY <2>3 DEF InvocationDropped, Dropped, TypeOK, ClientTypeOK
    <3> QED BY <2>1, <3>1
  <2>4. CASE i = j /\ ~InvocationDropped(j)
    <3>1. /\ inbox[i] \in Seq(PluginFrame) /\ inbox[i] # <<>> /\ invocation[i] = "open"
          /\ inbox'[i] = Tail(inbox[i])
          /\ transcript'[i] = Append(transcript[i], Head(inbox[i]).type)
      BY <1>11, <2>4, TakingFacts
    <3>2. transcript'[i] # <<>>
      <4> HIDE DEF Starts
      <4>1. transcript[i] \in Seq(PluginType) /\ Head(inbox[i]) \in PluginFrame
        BY <3>1, TailFacts DEF TypeOK, ClientTypeOK
      <4>2. Head(inbox[i]).type \in PluginType
        BY <4>1 DEF PluginFrame
      <4>3. Len(transcript'[i]) = Len(transcript[i]) + 1 /\ Len(transcript[i]) \in Nat
        BY <3>1, <4>1, <4>2, AppendFacts
      <4> QED BY <4>3, EmptyFacts
    <3>3. ~Bears(inbox'[i], "started")
      <4>1. /\ Opening(inbox[i]) => ~Bears(inbox'[i], "started")
            /\ Bears(inbox'[i], "started") => Bears(inbox[i], "started")
        <5> HIDE DEF Starts
        <5> QED BY <3>1, ChannelTaken
      <4> QED BY <3>1, <4>1
    <3> QED BY <2>1, <3>1, <3>2, <3>3
  <2> QED BY <1>11, <2>2, <2>3, <2>4
<1> QED
  BY <1>2, <1>3, <1>4, <1>5, <1>6, <1>7, <1>8, <1>9, <1>10, <1>11, ClientCases

LEMMA ClosingStep ==
    ASSUME TypeOK, TypeOK', Core, Client \/ Server, NEW i \in RequestId, Closing(i)
    PROVE  Closing(i)'
<1> USE DEF Closing, ReaderRuns
<1>0. Once(i) /\ Book
  BY DEF Core
<1>i. i # None
  BY DEF RequestId, None
<1>1. CASE Server
  BY <1>1, ServerFacts DEF clientVars
<1>2. CASE Owner
  BY <1>2, OwnerFacts DEF OwnerEffect
<1>3. CASE Handshake(plugin.same, plugin.protocol)
  BY <1>0, <1>3 DEF Handshake, SpawnFails, Book, Early
<1>4. CASE Reap
  BY <1>4 DEF Reap
<1>5. CASE HostCrash
  BY <1>5 DEF HostCrash
<1>6. CASE InvokeRegister
  BY <1>6 DEF InvokeRegister, TypeOK, ClientTypeOK
<1>7. CASE ReaderRoute
  <2>1. CASE ~Of(Head(stdout), i)
    BY <1>0, <1>7, <2>1, RouteFacts
  <2>2. CASE Of(Head(stdout), i)
    <3>1. /\ UNCHANGED <<clientPending, invocation>> /\ reader = "read"
          /\ readerId' = i => Terminal(Head(stdout))
          /\ Head(stdout) \in PluginFrame /\ inbox[i] \in Seq(PluginFrame)
      BY <1>0, <1>7, <1>i, <2>2, RouteFacts DEF TypeOK, ClientTypeOK
    <3>2. CASE i \in clientPending /\ invocation[i] = "open"
      <4>1. inbox'[i] = Append(inbox[i], Head(stdout))
        BY <1>0, <1>7, <2>2, <3>2, DeliveryFacts
      <4>2. Ended(inbox'[i]) <=> Ended(inbox[i]) \/ Terminal(Head(stdout))
        BY <3>1, <4>1, ChannelGrows
      <4> QED BY <3>1, <3>2, <4>2
    <3>3. CASE invocation[i] # "open"
      BY <3>1, <3>3
    <3>4. CASE i \notin clientPending
      <4>1. inbox'[i] = inbox[i]
        BY <1>0, <1>7, <2>2, <3>4, DeliveryFacts
      <4> QED BY <3>1, <3>4, <4>1
    <3> QED BY <3>2, <3>3, <3>4
  <2> QED BY <2>1, <2>2
<1>8. CASE ReaderRemove
  BY <1>8, <1>i DEF ReaderRemove
<1>9. CASE ReaderEof
  BY <1>9 DEF ReaderEof, ReaderBreaks
<1>10. ASSUME NEW j \in RequestId, InvokeWrite(j) PROVE Closing(i)'
  <2>1. CASE i # j
    BY <1>10, <2>1 DEF InvokeWrite, TypeOK, ClientTypeOK
  <2>2. CASE i = j
    <3>1. readerId # i /\ (ReaderRuns => i \in clientPending)
      BY <1>0, <1>10, <2>2 DEF InvokeWrite, Once, Untold, Nothing, Book
    <3> QED BY <1>10, <2>2, <3>1 DEF InvokeWrite, TypeOK, ClientTypeOK
  <2> QED BY <2>1, <2>2
<1>11. ASSUME NEW j \in RequestId, InvokeFails(j) \/ InvokeDropped(j) \/ Cancel(j)
       PROVE  Closing(i)'
  <2>1. CASE i # j
    BY <1>11, <2>1 DEF InvokeFails, InvokeDropped, Cancel, TypeOK, ClientTypeOK
  <2>2. CASE i = j
    BY <1>11, <2>2 DEF InvokeFails, InvokeDropped, Cancel, TypeOK, ClientTypeOK
  <2> QED BY <2>1, <2>2
<1>12. ASSUME NEW j \in RequestId, FinishRecv(j) \/ NextEvent(j) PROVE Closing(i)'
  <2>1. UNCHANGED <<clientPending, reader, readerId>>
    BY <1>12, CallerFacts
  <2>2. CASE i # j
    BY <1>12, <2>1, <2>2, CallerFacts
  <2>3. CASE i = j
    <3>1. invocation'[i] = "open" => ~Terminal(Head(inbox[i]))
      BY <1>12, <2>3, TakingFacts
    <3>2. Ended(inbox[i]) <=> Ended(inbox'[i]) \/ Terminal(Head(inbox[i]))
      BY <1>12, <2>3, TakingFacts, ChannelTaken
    <3>3. invocation[i] = "open" /\ invocation'[i] # "closed"
      BY <1>12, <2>3, TakingFacts
    <3> QED BY <2>1, <3>1, <3>2, <3>3
  <2> QED BY <2>2, <2>3
<1>13. ASSUME NEW j \in RequestId, FinishClosed(j) \/ InvocationDropped(j) PROVE Closing(i)'
  <2>1. UNCHANGED <<clientPending, reader, readerId>>
    BY <1>13, CallerFacts
  <2>2. CASE i # j
    BY <1>13, <2>1, <2>2, CallerFacts
  <2>3. CASE i = j
    <3>1. inbox[i] = <<>> => ~Ended(inbox[i])
      BY ChannelEmpty
    <3>2. invocation'[i] # "open"
      BY <1>13, <2>3 DEF FinishClosed, InvocationDropped, Dropped, TypeOK, ClientTypeOK
    <3>3. invocation'[i] = "closed" =>
              invocation[i] = "open" /\ inbox[i] = <<>> /\ i \notin clientPending
      BY <1>13, <2>3 DEF FinishClosed, InvocationDropped, Dropped, TypeOK, ClientTypeOK
    <3> QED BY <2>1, <3>1, <3>2, <3>3
  <2> QED BY <2>2, <2>3
<1> QED
  BY <1>1, <1>2, <1>3, <1>4, <1>5, <1>6, <1>7, <1>8, <1>9, <1>10, <1>11, <1>12, <1>13, ClientCases

LEMMA ReceivedStep ==
    ASSUME TypeOK, TypeOK', Core, Client \/ Server, NEW i \in RequestId, Starts(i), Received(i)
    PROVE  Received(i)'
<1> USE DEF Received, Resolved
<1>1. CASE Server
  BY <1>1, ServerFacts DEF clientVars
<1>2. ASSUME transcript'[i] = transcript[i],
             invocation[i] \in Resolved => invocation'[i] \in Resolved
      PROVE  Received(i)'
  BY <1>2
<1>3. CASE Owner
  BY <1>2, <1>3, OwnerFacts DEF OwnerEffect
<1>4. CASE \/ Handshake(plugin.same, plugin.protocol) \/ Reap
           \/ ReaderRoute \/ ReaderRemove \/ ReaderEof
  BY <1>2, <1>4 DEF Handshake, SpawnFails, Reap, ReaderRoute, ReaderRemove, ReaderEof
<1>5. CASE HostCrash
  BY <1>2, <1>5 DEF HostCrash, Dropped
<1>6. CASE InvokeRegister
  <2>1. i = nextId => invocation[i] = "unused"
    BY DEF Core, Book, RequestId
  <2> QED BY <1>2, <1>6, <2>1 DEF InvokeRegister, TypeOK, ClientTypeOK
<1>7. ASSUME NEW j \in RequestId,
             InvokeWrite(j) \/ InvokeFails(j) \/ InvokeDropped(j) \/ Cancel(j)
      PROVE  Received(i)'
  BY <1>2, <1>7 DEF InvokeWrite, InvokeFails, InvokeDropped, Cancel, TypeOK, ClientTypeOK
<1>8. ASSUME NEW j \in RequestId, FinishClosed(j) \/ InvocationDropped(j) PROVE Received(i)'
  BY <1>2, <1>8 DEF FinishClosed, InvocationDropped, Dropped, TypeOK, ClientTypeOK
<1>9. ASSUME NEW j \in RequestId, FinishRecv(j) \/ NextEvent(j) PROVE Received(i)'
  <2>1. CASE i # j
    BY <1>2, <1>9, <2>1, CallerFacts
  <2>2. CASE i = j
    <3> DEFINE f == Head(inbox[i])
               t == transcript[i]
    <3>1. /\ inbox[i] \in Seq(PluginFrame) /\ inbox[i] # <<>> /\ invocation[i] = "open"
          /\ transcript'[i] = Append(t, f.type)
          /\ Terminal(f) => invocation'[i] \in Resolved
      BY <1>9, <2>2, TakingFacts
    <3>2. t \in Seq(PluginType) /\ f.type \in PluginType
      BY <3>1, TailFacts DEF TypeOK, ClientTypeOK, PluginFrame
    <3>3. f.type = "started" <=> t = <<>>
      BY <3>1, ChannelTaken DEF Starts
    <3>4. \A k \in 1 .. Len(t) : t[k] \notin {"finished", "error"} /\ (t[k] = "started" <=> k = 1)
      BY <3>1
    <3>5. /\ Len(t) \in Nat /\ Len(Append(t, f.type)) = Len(t) + 1
          /\ \A k \in 1 .. Len(t) : Append(t, f.type)[k] = t[k]
          /\ Append(t, f.type)[Len(t) + 1] = f.type
          /\ t = <<>> <=> Len(t) = 0
      BY <3>2, AppendFacts
    <3> HIDE DEF f, t
    <3> QED BY <3>1, <3>3, <3>4, <3>5 DEF Terminal
  <2> QED BY <2>1, <2>2
<1> QED
  BY <1>1, <1>3, <1>4, <1>5, <1>6, <1>7, <1>8, <1>9, ClientCases

LEMMA CourseInit == Init => Course
<1> SUFFICES ASSUME Init, NEW i \in RequestId PROVE Starts(i) /\ Closing(i) /\ Received(i)
  BY DEF Course
<1>1. invocation[i] = "unused" /\ inbox[i] = <<>> /\ transcript[i] = <<>> /\ Len(Wire) = 0
  BY DEF Init, TransportInit, ClientInit, ServerInit, Wire
<1>2. StartsOnce(Wire, i)
  BY <1>1 DEF StartsOnce
<1>3. Len(transcript[i]) = 0
  BY <1>1, EmptyFacts
<1> QED BY <1>1, <1>2, <1>3 DEF Starts, Closing, Received, Awaits

LEMMA CourseStep == TypeOK /\ TypeOK' /\ Core /\ Course /\ [Next]_vars => Course'
<1>1. ASSUME TypeOK, TypeOK', Core, Course, Client \/ Server PROVE Course'
  <2> SUFFICES ASSUME NEW i \in RequestId PROVE Starts(i)' /\ Closing(i)' /\ Received(i)'
    BY DEF Course
  <2>1. Starts(i) /\ Closing(i) /\ Received(i)
    BY <1>1 DEF Course
  <2> QED BY <1>1, <2>1, StartsServerStep, StartsClientStep, ClosingStep, ReceivedStep
<1>2. ASSUME Course, UNCHANGED vars PROVE Course'
  BY <1>2 DEF vars, transportVars, serverVars, clientVars, Course, Starts, Closing, Received, Awaits,
              Seen, Begun, Wire, ReaderRuns
<1> QED BY <1>1, <1>2 DEF Next, Stop

\* The invariants that hold of any handler and any host.
Inv == TypeOK /\ Core /\ Course

LEMMA InvHolds == Spec => []Inv
<1>1. Init => Inv
  BY TypeInit, CoreInit, CourseInit DEF Inv
<1>2. Inv /\ [Next]_vars => Inv'
  BY TypeStep, CoreStep, CourseStep DEF Inv
<1> QED BY <1>1, <1>2, PTL DEF Spec

\* ChannelClosed is never a lost reply: finish() returns it only when the
\* reader task has come to the end of the stream, whatever the handlers do and
\* however host and worker fail (lib.rs 254, 425).
THEOREM ClosedCorrect == Spec => []ClosedMeansStreamEnded
<1>1. Inv => ClosedMeansStreamEnded
  BY DEF Inv, Course, Closing, ClosedMeansStreamEnded
<1> QED BY <1>1, InvHolds, PTL

\* A caller sees Started, then events, then at most one terminal frame, and
\* nothing after it, for any handler and any failure (lib.rs 404-427, 572-602).
THEOREM TranscriptCorrect == Spec => []TranscriptOrder
<1>1. Inv => TranscriptOrder
  BY DEF Inv, Course, Received, TranscriptOrder
<1> QED BY <1>1, InvHolds, PTL

(***************************************************************************)
(* Whose cancel the server takes was cancelled by its caller.              *)
(***************************************************************************)
Wanted(i) ==
    Stops(stdin, i) \/ (phase = "cancelling" /\ cancelId = i) => i \in cancelAsked

LEMMA AskedStays == ASSUME Client \/ Server, NEW i, i \in cancelAsked PROVE i \in cancelAsked'
<1>1. CASE Server
  BY <1>1, ServerFacts DEF clientVars
<1>2. CASE Owner
  BY <1>2
  DEF Owner, SpawnRefused, Spawn, WriteHello, HandshakeFails, SpawnFails, PingWrite, PingRecv,
      PingFails, ShutdownWrite, ShutdownRecv, ShutdownFails, ReapTimeout, KillReap, Drop,
      ClientDropped
<1>3. CASE ~Owner /\ Client
  BY <1>3, ClientCases
  DEF Handshake, SpawnFails, Reap, HostCrash, InvokeRegister, ReaderRoute, ReaderRemove, ReaderEof,
      InvokeWrite, InvokeFails, InvokeDropped, Cancel, FinishRecv, FinishClosed, NextEvent,
      InvocationDropped
<1> QED BY <1>1, <1>2, <1>3

LEMMA WantedServerStep ==
    ASSUME TypeOK, TypeOK', Server, NEW i \in RequestId, Wanted(i)
    PROVE  Wanted(i)'
<1> USE DEF Wanted
<1>0. UNCHANGED cancelAsked
  BY ServerFacts DEF clientVars
<1>1. ASSUME stdin # <<>>, stdin' = Tail(stdin), phase' # "cancelling" PROVE Wanted(i)'
  BY <1>0, <1>1, ReadFacts
<1>2. ASSUME UNCHANGED <<stdin, cancelId>>, phase' = "cancelling" => phase = "cancelling"
      PROVE  Wanted(i)'
  BY <1>0, <1>2
<1>3. CASE ServeHello \/ RefuseHello \/ ReadTorn \/ ReadPartial
  BY <1>1, <1>3 DEF ServeHello, RefuseHello, ReadTorn, ReadPartial
<1>4. CASE LoopHello \/ LoopPing \/ LoopShutdown \/ LoopInvoke
  BY <1>1, <1>4 DEF LoopHello, LoopPing, LoopShutdown, LoopInvoke, Receive
<1>5. CASE LoopCancel
  <2>1. /\ stdin # <<>> /\ stdin' = Tail(stdin) /\ Head(stdin).type = "cancel"
        /\ cancelId' = Head(stdin).id
    BY <1>5 DEF LoopCancel, Receive
  <2>2. Stops(stdin, i) <=> Stops(stdin', i) \/ Cancels(Head(stdin), i)
    BY <2>1, ReadFacts
  <2> QED BY <1>0, <2>1, <2>2 DEF Cancels
<1>6. CASE CancelReturns
  BY <1>0, <1>6 DEF CancelReturns, transportVars
<1>7. CASE DrainDone \/ ReadEof \/ WriterLoop
  BY <1>2, <1>7 DEF DrainDone, ReadEof, WriterLoop, WriterWrites, WriterFails, WriterEnds,
                    transportVars
<1>8. ASSUME NEW j \in RequestId, HandlerTask(j) PROVE Wanted(i)'
  BY <1>2, <1>8 DEF HandlerTask, TaskEvent, TaskReturn, TaskRemove, TaskPanic, transportVars
<1>9. CASE StrayOutput
  BY <1>2, <1>9 DEF StrayOutput, serverVars
<1>10. CASE ServeReturns \/ ProcessKilled
  <2>1. stdin' = <<>> /\ phase' = "exited"
    BY <1>10 DEF ServeReturns, ProcessKilled, ProcessEnds
  <2> QED BY <2>1, NoInput
<1> QED
  BY <1>3, <1>4, <1>5, <1>6, <1>7, <1>8, <1>9, <1>10 DEF Server, ServerNext, ReadLoop

LEMMA WantedClientStep ==
    ASSUME TypeOK, TypeOK', Client, NEW i \in RequestId, Wanted(i)
    PROVE  Wanted(i)'
<1> USE DEF Wanted
<1>0. UNCHANGED <<phase, cancelId>> /\ (i \in cancelAsked => i \in cancelAsked')
  BY ClientCases, AskedStays DEF serverVars
<1>1. ASSUME UNCHANGED stdin PROVE Wanted(i)'
  BY <1>0, <1>1
<1>2. ASSUME NEW f \in HostFrame, HostWrites(f), Cancels(f, i) => i \in cancelAsked'
      PROVE  Wanted(i)'
  BY <1>0, <1>2, WriteFacts
<1>3. CASE Owner
  BY <1>1, <1>2, <1>3, OwnerFacts DEF OwnerEffect, Cancels
<1>4. CASE Handshake(plugin.same, plugin.protocol) \/ Reap \/ HostCrash
  BY <1>1, <1>4 DEF Handshake, SpawnFails, Reap, HostCrash
<1>5. ASSUME NEW j \in RequestId, InvokeWrite(j) PROVE Wanted(i)'
  <2>1. ForRequest("invoke", j) \in HostFrame /\ ~Cancels(ForRequest("invoke", j), i)
    BY HostFrameType DEF Cancels, ForRequest
  <2> QED BY <1>2, <1>5, <2>1 DEF InvokeWrite
<1>6. ASSUME NEW j \in RequestId, InvokeDropped(j) PROVE Wanted(i)'
  <2>1. Control("torn") \in HostFrame /\ ~Cancels(Control("torn"), i)
    BY HostFrameType DEF Cancels, Control
  <2> QED BY <1>1, <1>2, <1>6, <2>1 DEF InvokeDropped
<1>7. ASSUME NEW j \in RequestId, Cancel(j) PROVE Wanted(i)'
  <2>1. ForRequest("cancel", j) \in HostFrame /\ (Cancels(ForRequest("cancel", j), i) => i = j)
    BY HostFrameType DEF Cancels, ForRequest
  <2> QED BY <1>2, <1>7, <2>1 DEF Cancel
<1>8. ASSUME NEW j \in RequestId,
             \/ InvokeFails(j)
             \/ FinishRecv(j) \/ FinishClosed(j) \/ NextEvent(j) \/ InvocationDropped(j)
      PROVE  Wanted(i)'
  BY <1>1, <1>8 DEF InvokeFails, FinishRecv, FinishClosed, NextEvent, InvocationDropped, transportVars
<1>9. CASE InvokeRegister \/ ReaderRoute \/ ReaderRemove \/ ReaderEof
  BY <1>1, <1>9 DEF InvokeRegister, ReaderRoute, ReaderRemove, ReaderEof, transportVars
<1> QED
  BY <1>3, <1>4, <1>5, <1>6, <1>7, <1>8, <1>9, ClientCases

(***************************************************************************)
(* One outcome per request whose cancel hook does not fail: serve_worker   *)
(* answers a failed hook with an error frame of its own.                   *)
(***************************************************************************)
Outcomes == {"finished", "error"}

Order(i) ==
    /\ \A t \in Outcomes : Has(Wire, i, t) \/ Bears(inbox[i], t) => result[i] = t
    /\ EndsLast(Wire, i)
    /\ EndThenLate(inbox[i], i)
    /\ Ended(inbox[i]) => ~HasCounted(Wire, i)
    /\ invocation[i] \in Resolved =>
          /\ AllLate(inbox[i], i)
          /\ ~HasCounted(Wire, i)
          /\ result[i] \in Outcomes
          /\ transcript[i] # <<>> /\ transcript[i][Len(transcript[i])] = result[i]
    /\ invocation[i] = "finished" => result[i] = "finished"
    /\ invocation[i] = "errored" => result[i] = "error"

LEMMA EndHas ==
    ASSUME NEW w, NEW i \in RequestId
    PROVE  /\ HasEnd(w, i) <=> \E t \in Outcomes : Has(w, i, t)
           /\ HasEnd(w, i) => HasCounted(w, i)
           /\ Ended(w) <=> \E t \in Outcomes : Bears(w, t)
BY DEF HasEnd, Has, HasCounted, Ends, Counted, Terminal, Outcomes, Ended, Bears

LEMMA OrderServerStep ==
    ASSUME TypeOK, TypeOK', Core, Server, NEW i \in RequestId, Wanted(i), ~HookMayFail(i), Order(i)
    PROVE  Order(i)'
<1> USE DEF Order
<1>0. Once(i) /\ Tasks /\ UNCHANGED <<invocation, inbox, transcript>>
  BY ServerFacts DEF Core, clientVars
<1>1. ASSUME UNCHANGED <<stdout, outq>>, result'[i] = result[i] PROVE Order(i)'
  BY <1>0, <1>1, WireSame
\* A frame is sent that ends nothing and follows no end.
<1>2. ASSUME NEW f \in PluginFrame, Send(f), UNCHANGED stdout, result'[i] = result[i],
             ~Ends(f, i), Counted(f, i) => result[i] = "none"
      PROVE  Order(i)'
  <2>1. \A t \in Outcomes : Has(Wire', i, t) => Has(Wire, i, t)
    BY <1>2, SendFacts DEF Ends, Terminal, Outcomes
  <2>2. Counted(f, i) => ~HasEnd(Wire, i) /\ ~Ended(inbox[i]) /\ invocation[i] \notin Resolved
    BY <1>2, EndHas DEF Outcomes
  <2>3. EndsLast(Wire', i)
    BY <1>2, <2>2, SendFacts
  <2>4. HasCounted(Wire', i) => HasCounted(Wire, i) \/ Counted(f, i)
    BY <1>2, SendFacts
  <2> QED BY <1>0, <1>2, <2>1, <2>2, <2>3, <2>4
<1>3. CASE MovesWire /\ UNCHANGED result
  BY <1>0, <1>3, KeptFacts
<1>4. CASE ServeHello
  <2>1. CASE UNCHANGED stdout
    BY <1>1, <1>4, <2>1 DEF ServeHello
  <2>2. CASE PluginWrites(Control("hello"))
    BY <1>3, <1>4, <2>2 DEF ServeHello, MovesWire
  <2> QED BY <1>4, <2>1, <2>2 DEF ServeHello
<1>5. CASE \/ RefuseHello \/ ReadTorn \/ ReadPartial \/ LoopShutdown \/ LoopCancel \/ ReadEof
           \/ WriterEnds
  BY <1>1, <1>5 DEF RefuseHello, ReadTorn, ReadPartial, LoopShutdown, LoopCancel, ReadEof,
                    WriterEnds, transportVars
<1>6. CASE LoopHello
  <2>1. ForRequest("error", None) \in PluginFrame
    BY FrameType DEF PluginType
  <2> QED BY <1>2, <1>6, <2>1, ControlFacts DEF LoopHello, Ends, Counted
<1>7. CASE LoopPing
  <2>1. WithNonce("pong", Head(stdin).nonce) \in PluginFrame
    BY <1>7, StdinHead, FrameType DEF LoopPing, Receive, PluginType, HostFrame
  <2> QED BY <1>2, <1>7, <2>1, ControlFacts DEF LoopPing, Ends, Counted
<1>8. CASE CancelReturns
  <2>1. CASE UNCHANGED outq
    BY <1>1, <1>8, <2>1 DEF CancelReturns, transportVars
  <2>2. CASE CancelHookFails /\ Send(ForRequest("error", cancelId))
    <3>1. i # cancelId
      BY <1>8, <2>2 DEF CancelReturns, CancelHookFails, HookMayFail, Wanted
    <3>2. ~Of(ForRequest("error", cancelId), i)
      BY <3>1, ControlFacts
    <3>3. ForRequest("error", cancelId) \in PluginFrame
      BY FrameType DEF PluginType, TypeOK, ServerTypeOK
    <3>4. UNCHANGED <<stdout, result>>
      BY <1>8 DEF CancelReturns, transportVars
    <3> QED BY <1>2, <2>2, <3>2, <3>3, <3>4 DEF Ends, Counted
  <2> QED BY <1>8, <2>1, <2>2 DEF CancelReturns
<1>9. CASE DrainDone
  <2>1. Control("shutdown_ack") \in PluginFrame
    BY FrameType DEF PluginType
  <2> QED BY <1>2, <1>9, <2>1, ControlFacts DEF DrainDone, transportVars, Ends, Counted
<1>10. CASE LoopInvoke
  <2>1. PICK j \in RequestId :
           /\ Nothing(j)
           /\ Send(ForRequest("started", j)) /\ ForRequest("started", j) \in PluginFrame
           /\ result' = [result EXCEPT ![j] = "none"]
    BY <1>10, InvokeFacts
  <2>2. UNCHANGED stdout
    BY <1>10 DEF LoopInvoke
  <2>3. ~Ends(ForRequest("started", j), i)
    BY ControlFacts DEF Ends
  <2>4. result'[i] = result[i] /\ (i = j => result[i] = "none")
    BY <2>1 DEF Nothing, Begun, TypeOK, ServerTypeOK
  <2>5. Counted(ForRequest("started", j), i) => i = j
    BY ControlFacts DEF Counted
  <2> QED BY <1>2, <2>1, <2>2, <2>3, <2>4, <2>5
<1>11. ASSUME NEW j \in RequestId, HandlerTask(j) PROVE Order(i)'
  <2>1. CASE TaskRemove(j)
    BY <1>1, <2>1 DEF TaskRemove, transportVars
  <2>2. CASE TaskPanic(j)
    <3>1. Wire' = Wire
      BY <2>2, WireSame DEF TaskPanic, transportVars
    <3>2. CASE i # j
      BY <1>0, <2>2, <3>1, <3>2 DEF TaskPanic, TypeOK, ServerTypeOK
    <3>3. CASE i = j
      <4>1. result[i] = "none"
        BY <1>0, <2>2, <3>3 DEF TaskPanic, Tasks
      <4> QED BY <1>0, <3>1, <4>1 DEF Outcomes, Resolved
    <3> QED BY <3>2, <3>3
  <2>3. CASE TaskEvent(j)
    <3>1. ForRequest("event", j) \in PluginFrame
      BY FrameType DEF PluginType
    <3>2. ~Ends(ForRequest("event", j), i)
      BY ControlFacts DEF Ends
    <3>3. Counted(ForRequest("event", j), i) => result[i] = "none"
      BY <1>0, <2>3, ControlFacts DEF Counted, TaskEvent, Tasks
    <3> QED BY <1>2, <2>3, <3>1, <3>2, <3>3 DEF TaskEvent, transportVars
  <2>4. CASE TaskReturn(j)
    <3>1. PICK r \in Outcomes : result' = [result EXCEPT ![j] = r] /\ Send(ForRequest(r, j))
      BY <2>4 DEF TaskReturn, Outcomes
    <3>2. ForRequest(r, j) \in PluginFrame /\ ForRequest(r, j).type = r /\ UNCHANGED stdout
      BY <2>4, FrameType DEF PluginType, Outcomes, ForRequest, TaskReturn, transportVars
    <3>3. CASE i # j
      <4>1. ~Of(ForRequest(r, j), i)
        BY <3>3, ControlFacts
      <4>2. result'[i] = result[i]
        BY <3>1, <3>3 DEF TypeOK, ServerTypeOK
      <4> QED BY <1>2, <3>1, <3>2, <4>1, <4>2 DEF Ends, Counted
    <3>4. CASE i = j
      <4>1. result[i] = "none" /\ result'[i] = r
        BY <1>0, <2>4, <3>1, <3>4 DEF TaskReturn, Tasks, TypeOK, ServerTypeOK
      <4>2. ~HasEnd(Wire, i) /\ ~Ended(inbox[i]) /\ invocation[i] \notin Resolved
        BY <4>1, EndHas DEF Outcomes
      <4>3. \A t \in Outcomes : ~Has(Wire, i, t) /\ ~Bears(inbox[i], t)
        BY <4>2, EndHas
      <4>4. \A t \in Outcomes : Has(Wire', i, t) => t = r
        BY <3>1, <3>2, <4>3, SendFacts
      <4>5. EndsLast(Wire', i)
        BY <3>1, <3>2, <4>2, SendFacts
      <4>6. invocation'[i] \notin {"finished", "errored"}
        BY <1>0, <4>2 DEF Resolved
      <4> QED BY <1>0, <4>1, <4>2, <4>3, <4>4, <4>5, <4>6
    <3> QED BY <3>3, <3>4
  <2> QED BY <1>11, <2>1, <2>2, <2>3, <2>4 DEF HandlerTask
<1>12. CASE StrayOutput \/ WriterWrites
  BY <1>3, <1>12 DEF StrayOutput, WriterWrites, MovesWire, serverVars
<1>13. ASSUME outq' = <<>>, UNCHANGED <<stdout, result>> PROVE Order(i)'
  <2>1. /\ \A t : Has(Wire', i, t) => Has(Wire, i, t)
        /\ HasCounted(Wire', i) => HasCounted(Wire, i)
        /\ EndsLast(Wire, i) => EndsLast(Wire', i)
    BY <1>13, LostFacts
  <2> QED BY <1>0, <1>13, <2>1
<1>14. CASE WriterFails \/ ServeReturns \/ ProcessKilled
  BY <1>13, <1>14 DEF WriterFails, ServeReturns, ProcessKilled, ProcessEnds, transportVars
<1> QED
  BY <1>4, <1>5, <1>6, <1>7, <1>8, <1>9, <1>10, <1>11, <1>12, <1>14
  DEF Server, ServerNext, ReadLoop, WriterLoop

LEMMA OrderClientStep ==
    ASSUME TypeOK, TypeOK', Core, Client, NEW i \in RequestId, Order(i)
    PROVE  Order(i)'
<1> USE DEF Order
<1>0. Once(i) /\ Book /\ UNCHANGED <<plugin, result, outq>>
  BY ClientCases DEF Core, serverVars
<1>1. ASSUME UNCHANGED stdout, inbox'[i] = inbox[i], transcript'[i] = transcript[i],
             \/ invocation'[i] \in {"unused", "registering", "open", "closed", "rejected", "abandoned"}
             \/ invocation'[i] = invocation[i]
             \/ invocation[i] = "drained" /\ invocation'[i] = "spent"
      PROVE  Order(i)'
  BY <1>0, <1>1, WireSame DEF Resolved
\* The channel is dropped with the Invocation.
<1>2. ASSUME UNCHANGED stdout, inbox'[i] = <<>>, transcript'[i] = transcript[i],
             invocation'[i] \in {Dropped(invocation[i]), invocation[i]}
      PROVE  Order(i)'
  <2>1. /\ \A t : ~Bears(inbox'[i], t)
        /\ ~Ended(inbox'[i]) /\ AllLate(inbox'[i], i) /\ EndThenLate(inbox'[i], i)
    BY <1>2, ChannelEmpty
  <2>2. Wire' = Wire
    BY <1>0, <1>2, WireSame
  <2>3. \/ invocation'[i] = invocation[i]
        \/ invocation'[i] = "abandoned"
        \/ invocation[i] = "drained" /\ invocation'[i] = "spent"
    BY <1>2 DEF Dropped
  <2> QED BY <1>0, <1>2, <2>1, <2>2, <2>3 DEF Resolved
<1>3. CASE Owner
  BY <1>1, <1>3, OwnerFacts DEF OwnerEffect
<1>4. CASE Handshake(plugin.same, plugin.protocol)
  <2>1. invocation'[i] = "unused" /\ invocation[i] = "unused" /\ inbox'[i] = inbox[i]
    BY <1>0, <1>4 DEF Handshake, SpawnFails, Book, Early
  <2>2. ~Some(Wire, i) /\ inbox[i] = <<>>
    BY <1>0, <2>1 DEF Once, Untold, Nothing
  <2>3. ~Some(Wire', i)
    BY <1>0, <1>4, <2>2, TakeFacts DEF Handshake
  <2>4. (\A t : ~Has(Wire', i, t)) /\ ~HasCounted(Wire', i) /\ EndsLast(Wire', i)
    BY <2>3, SilentWire
  <2>5. (\A t : ~Bears(inbox[i], t)) /\ ~Ended(inbox[i]) /\ EndThenLate(inbox[i], i)
    BY <2>2, ChannelEmpty
  <2> QED BY <2>1, <2>4, <2>5 DEF Resolved
<1>5. CASE Reap \/ ReaderRemove \/ ReaderEof
  BY <1>1, <1>5 DEF Reap, ReaderRemove, ReaderEof, ReaderBreaks, transportVars
<1>6. CASE HostCrash
  BY <1>2, <1>6 DEF HostCrash, TypeOK, ClientTypeOK
<1>7. CASE InvokeRegister
  BY <1>1, <1>7 DEF InvokeRegister, transportVars, TypeOK, ClientTypeOK
<1>8. CASE ReaderRoute
  <2> DEFINE f == Head(stdout)
  <2>1. /\ f \in PluginFrame /\ stdout # <<>> /\ stdout' = Tail(stdout)
        /\ UNCHANGED <<invocation, transcript>> /\ inbox[i] \in Seq(PluginFrame)
    BY <1>0, <1>8, RouteFacts DEF TypeOK, ClientTypeOK
  <2>2. /\ \A t : Has(Wire, i, t) <=> Has(Wire', i, t) \/ (Of(f, i) /\ f.type = t)
        /\ HasCounted(Wire, i) <=> HasCounted(Wire', i) \/ Counted(f, i)
        /\ EndsLast(Wire, i) => EndsLast(Wire', i)
        /\ EndsLast(Wire, i) /\ Ends(f, i) => ~HasCounted(Wire', i)
    BY <1>0, <2>1, TakeFacts
  <2> HIDE DEF f
  <2>3. CASE inbox'[i] = inbox[i]
    BY <1>0, <2>1, <2>2, <2>3
  <2>4. CASE inbox'[i] # inbox[i]
    <3>1. Of(f, i) /\ inbox'[i] = Append(inbox[i], f)
      BY <1>0, <1>8, <2>4, RouteFacts, DeliveryFacts DEF f
    <3>2. ~Counted(f, i) => Late(f, i)
      BY <3>1 DEF Counted, Late
    <3>3. /\ \A t : Bears(inbox'[i], t) <=> Bears(inbox[i], t) \/ f.type = t
          /\ Ended(inbox'[i]) <=> Ended(inbox[i]) \/ Terminal(f)
          /\ AllLate(inbox[i], i) /\ Late(f, i) => AllLate(inbox'[i], i)
          /\ EndThenLate(inbox[i], i) /\ (Ended(inbox[i]) => Late(f, i)) => EndThenLate(inbox'[i], i)
      BY <2>1, <3>1, ChannelGrows
    <3>4. \A t \in Outcomes : Has(Wire', i, t) \/ Bears(inbox'[i], t) => result'[i] = t
      BY <1>0, <2>2, <3>1, <3>3
    <3>5. EndThenLate(inbox'[i], i)
      BY <2>2, <3>2, <3>3
    <3>6. Ended(inbox'[i]) => ~HasCounted(Wire', i)
      BY <2>2, <3>1, <3>3 DEF Ends
    <3>7. invocation'[i] \in Resolved => AllLate(inbox'[i], i) /\ ~HasCounted(Wire', i)
      BY <2>1, <2>2, <3>2, <3>3
    <3> QED BY <1>0, <2>1, <2>2, <3>4, <3>5, <3>6, <3>7
  <2> QED BY <2>3, <2>4
<1>9. ASSUME NEW j \in RequestId,
             \/ InvokeWrite(j) \/ InvokeFails(j) \/ InvokeDropped(j) \/ Cancel(j) \/ FinishClosed(j)
      PROVE  Order(i)'
  BY <1>1, <1>9 DEF InvokeWrite, InvokeFails, InvokeDropped, Cancel, FinishClosed, transportVars,
                    TypeOK, ClientTypeOK
<1>10. ASSUME NEW j \in RequestId, InvocationDropped(j) PROVE Order(i)'
  <2>1. CASE i = j
    BY <1>2, <1>10, <2>1 DEF InvocationDropped, transportVars, TypeOK, ClientTypeOK
  <2>2. CASE i # j
    BY <1>1, <1>10, <2>2, CallerFacts DEF transportVars
  <2> QED BY <2>1, <2>2
<1>11. ASSUME NEW j \in RequestId, FinishRecv(j) \/ NextEvent(j) PROVE Order(i)'
  <2>0. UNCHANGED stdout
    BY <1>11, CallerFacts DEF transportVars
  <2>1. CASE i # j
    BY <1>1, <1>11, <2>0, <2>1, CallerFacts
  <2>2. CASE i = j
    <3> DEFINE f == Head(inbox[i])
    <3>1. /\ inbox[i] \in Seq(PluginFrame) /\ inbox[i] # <<>> /\ invocation[i] = "open"
          /\ inbox'[i] = Tail(inbox[i])
          /\ transcript'[i] = Append(transcript[i], f.type)
          /\ invocation'[i] \in {"open", "finished", "errored", "drained"}
          /\ Terminal(f) <=> invocation'[i] # "open"
          /\ invocation'[i] = "finished" => f.type = "finished"
          /\ invocation'[i] = "errored" => f.type = "error"
      BY <1>11, <2>2, TakingFacts
    <3>2. /\ \A t : Bears(inbox[i], t) <=> Bears(inbox'[i], t) \/ f.type = t
          /\ Ended(inbox[i]) <=> Ended(inbox'[i]) \/ Terminal(f)
          /\ EndThenLate(inbox[i], i) => EndThenLate(inbox'[i], i)
          /\ EndThenLate(inbox[i], i) /\ Terminal(f) => AllLate(inbox'[i], i)
      BY <3>1, ChannelTaken
    <3>3. /\ Len(transcript'[i]) \in Nat \ {0}
          /\ transcript'[i][Len(transcript'[i])] = f.type
      <4>1. transcript[i] \in Seq(PluginType)
        BY DEF TypeOK, ClientTypeOK
      <4>2. f \in PluginFrame
        BY <3>1, TailFacts
      <4>3. f.type \in PluginType
        BY <4>2 DEF PluginFrame
      <4> QED BY <3>1, <4>1, <4>3, AppendFacts
    <3>4. transcript'[i] # <<>>
      BY <3>3, EmptyFacts
    <3> HIDE DEF f
    <3>5. Wire' = Wire
      BY <1>0, <2>0, WireSame
    <3>6. Terminal(f) => f.type \in Outcomes /\ result[i] = f.type /\ ~HasCounted(Wire, i)
      BY <3>2 DEF Terminal, Outcomes
    <3>7. invocation'[i] \in Resolved => Terminal(f)
      BY <3>1 DEF Resolved
    <3> QED BY <1>0, <3>1, <3>2, <3>3, <3>4, <3>5, <3>6, <3>7
  <2> QED BY <2>1, <2>2
<1> QED
  BY <1>3, <1>4, <1>5, <1>6, <1>7, <1>8, <1>9, <1>10, <1>11, ClientCases

Ordered == \A i \in RequestId : Wanted(i) /\ (HookMayFail(i) \/ Order(i))

LEMMA OrderInit == Init => Ordered
<1> SUFFICES ASSUME Init, NEW i \in RequestId PROVE Wanted(i) /\ Order(i)
  BY DEF Ordered
<1>1. invocation[i] = "unused" /\ inbox[i] = <<>> /\ Len(Wire) = 0
  BY DEF Init, TransportInit, ClientInit, ServerInit, Wire
<1>2. (\A t : ~Has(Wire, i, t)) /\ ~HasCounted(Wire, i) /\ EndsLast(Wire, i)
  BY <1>1 DEF Has, HasCounted, EndsLast
<1>3. (\A t : ~Bears(inbox[i], t)) /\ ~Ended(inbox[i]) /\ EndThenLate(inbox[i], i)
  BY <1>1, ChannelEmpty
<1>4. Wanted(i)
  <2>1. stdin = <<>> /\ phase # "cancelling"
    BY DEF Init, TransportInit, ServerInit
  <2> QED BY <2>1, NoInput DEF Wanted
<1> QED BY <1>1, <1>2, <1>3, <1>4 DEF Order, Resolved

LEMMA OrderStep == TypeOK /\ TypeOK' /\ Core /\ Ordered /\ [Next]_vars => Ordered'
<1>1. ASSUME TypeOK, TypeOK', Core, Ordered, Client \/ Server PROVE Ordered'
  <2> SUFFICES ASSUME NEW i \in RequestId PROVE Wanted(i)' /\ (HookMayFail(i)' \/ Order(i)')
    BY DEF Ordered
  <2>1. Wanted(i) /\ (HookMayFail(i) \/ Order(i))
    BY <1>1 DEF Ordered
  <2>2. Wanted(i)'
    BY <1>1, <2>1, WantedServerStep, WantedClientStep
  <2>3. HookMayFail(i) => HookMayFail(i)'
    BY <1>1, AskedStays DEF HookMayFail
  <2>4. ASSUME ~HookMayFail(i) PROVE Order(i)'
    BY <1>1, <2>1, <2>4, OrderServerStep, OrderClientStep
  <2> QED BY <2>2, <2>3, <2>4
<1>2. ASSUME Ordered, UNCHANGED vars PROVE Ordered'
  BY <1>2 DEF vars, transportVars, serverVars, clientVars, Ordered, Order, Wire, Wanted, HookMayFail
<1> QED BY <1>1, <1>2 DEF Next, Stop

LEMMA OrderHolds == Spec => [](Inv /\ Ordered)
<1>1. Init => Ordered
  BY OrderInit
<1>2. Inv /\ Inv' /\ Ordered /\ [Next]_vars => Ordered'
  BY OrderStep DEF Inv
<1> QED BY <1>1, <1>2, InvHolds, PTL DEF Spec

\* Per request one of Finished and Error, once, whatever else handlers and
\* hosts do, unless its own caller cancelled it and its own cancel hook failed
\* (lib.rs 564-570 answers that with an error frame; 592-601 with the outcome).
THEOREM OneTerminalCorrect == Spec => []OneTerminal
<1>1. ASSUME Inv, Ordered PROVE OneTerminal
  <2> SUFFICES ASSUME NEW i \in RequestId, ~HookMayFail(i)
               PROVE  LET coming == inbox[i] \o Wire
                          ends == {k \in 1 .. Len(coming) : Terminal(coming[k]) /\ coming[k].id = i}
                      IN /\ \A j, k \in ends : j = k
                         /\ invocation[i] \in Resolved => ends = {}
    BY DEF OneTerminal
  <2> DEFINE q == inbox[i]
             w == Wire
             c == q \o w
             n == Len(q)
             ends == {k \in 1 .. Len(c) : Terminal(c[k]) /\ c[k].id = i}
  <2>0. Order(i) /\ q \in Seq(PluginFrame) /\ w \in Seq(PluginFrame)
    BY <1>1, WireType DEF Ordered, Inv, TypeOK, ClientTypeOK
  <2>1. Len(c) = n + Len(w) /\ n \in Nat /\ Len(w) \in Nat
    BY <2>0, ConcatLen
  <2>2. /\ \A k \in 1 .. n : c[k] = q[k]
        /\ \A k \in 1 .. Len(c) : k > n => c[k] = w[k - n]
    BY <2>0, Concat
  <2> HIDE DEF q, w, c, n
  <2>3. ASSUME NEW k \in ends
        PROVE  \/ k \in 1 .. n /\ Terminal(q[k])
               \/ k > n /\ k - n \in 1 .. Len(w) /\ Ends(w[k - n], i)
    <3>1. k \in 1 .. Len(c) /\ Terminal(c[k]) /\ c[k].id = i
      OBVIOUS
    <3>2. Ends(c[k], i)
      BY <3>1 DEF Ends, Of, Terminal, request_id
    <3> QED BY <2>1, <2>2, <3>1, <3>2
  <2>4. \A k \in ends : k \in 1 .. Len(c)
    OBVIOUS
  <2> HIDE DEF ends
  <2>5. ASSUME NEW j \in ends, NEW k \in ends, j < k PROVE FALSE
    <3>1. CASE j \in 1 .. n /\ k \in 1 .. n
      <4>1. Terminal(q[j]) /\ Terminal(q[k]) /\ k \in (j + 1) .. n
        BY <2>1, <2>3, <2>5, <3>1
      <4> QED BY <2>0, <3>1, <4>1 DEF Order, EndThenLate, Late, q, n
    <3>2. CASE j \in 1 .. n /\ k > n
      <4>1. Terminal(q[j]) /\ k - n \in 1 .. Len(w) /\ Ends(w[k - n], i)
        BY <2>1, <2>3, <3>2
      <4>2. Ended(inbox[i]) /\ HasEnd(Wire, i)
        BY <3>2, <4>1 DEF Ended, HasEnd, q, w, n
      <4> QED BY <2>0, <4>2, EndHas DEF Order
    <3>3. CASE j > n /\ k > n
      <4>1. /\ j - n \in 1 .. Len(w) /\ Ends(w[j - n], i)
            /\ k - n \in 1 .. Len(w) /\ Ends(w[k - n], i)
        BY <2>1, <2>3, <3>3
      <4>2. k - n \in ((j - n) + 1) .. Len(w)
        BY <2>1, <2>4, <2>5, <4>1
      <4>3. Counted(w[k - n], i)
        BY <4>1 DEF Ends, Counted
      <4>4. EndsLast(w, i)
        BY <2>0 DEF Order, w
      <4> QED BY <4>1, <4>2, <4>3, <4>4 DEF EndsLast
    <3> QED BY <2>1, <2>4, <2>5, <3>1, <3>2, <3>3
  <2>6. \A j, k \in ends : j = k
    BY <2>1, <2>4, <2>5
  <2>7. ASSUME invocation[i] \in Resolved, NEW k \in ends PROVE FALSE
    <3>1. CASE k \in 1 .. n /\ Terminal(q[k])
      BY <2>0, <2>7, <3>1 DEF Order, AllLate, Late, q, n
    <3>2. CASE k - n \in 1 .. Len(w) /\ Ends(w[k - n], i)
      <4>1. HasEnd(Wire, i)
        BY <3>2 DEF HasEnd, w
      <4> QED BY <2>0, <2>7, <4>1, EndHas DEF Order
    <3> QED BY <2>3, <3>1, <3>2
  <2> QED BY <2>6, <2>7 DEF ends, c, q, w
<1> QED BY <1>1, OrderHolds, PTL

\* No reply finds its caller unregistered, whatever fails, but for the second
\* error of a failed cancel hook and for what a task says that outlives the
\* handler of the same request (lib.rs 247-249, 283-291).
THEOREM RecipientsCorrect == Spec => []RepliesHaveRecipients
<1>1. ASSUME Inv, Ordered PROVE RepliesHaveRecipients
  <2> SUFFICES ASSUME ReaderRuns, NEW k \in 1 .. Len(Wire), request_id(Wire[k]) # None,
                      invocation[request_id(Wire[k])] \in {"registering", "open"},
                      request_id(Wire[k]) \notin Leaky, ~HookMayFail(request_id(Wire[k]))
               PROVE  request_id(Wire[k]) \in clientPending
    BY DEF RepliesHaveRecipients
  <2>1. PICK i \in RequestId : i = request_id(Wire[k])
    <3>1. Wire[k] \in PluginFrame
      BY <1>1, WireType DEF Inv
    <3> QED BY <3>1 DEF request_id, PluginFrame, None
  <2>2. HasCounted(Wire, i)
    BY <2>1 DEF HasCounted, Counted, Of
  <2>3. ~Ended(inbox[i])
    BY <1>1, <2>1, <2>2 DEF Ordered, Order
  <2>4. CASE invocation[i] = "registering"
    BY <1>1, <2>1, <2>4 DEF Inv, Core, Book
  <2>5. CASE invocation[i] = "open"
    BY <1>1, <2>1, <2>3, <2>5 DEF Inv, Course, Closing
  <2> QED BY <2>1, <2>4, <2>5
<1> QED BY <1>1, OrderHolds, PTL

(***************************************************************************)
(* Shutdown.                                                               *)
(***************************************************************************)
\* Shutdown is asked for by a client that invokes no more, and acknowledged
\* to it alone.
Leave ==
    /\ HasShut(stdin) => Leaving
    /\ phase \in {"draining", "closing"} => Leaving
    /\ HasAck(Wire) \/ HasAck(globalq) => Leaving
    /\ \A i \in RequestId :
          /\ ShutLast(stdin, i)
          /\ phase \in {"draining", "closing"} => ~Asks(stdin, i)

LEMMA LeavingStays == ASSUME Client \/ Server, Leaving PROVE Leaving'
<1> USE DEF Leaving
<1>1. CASE Server
  BY <1>1, ServerFacts DEF clientVars
<1>2. CASE Owner
  BY <1>2
  DEF Owner, SpawnRefused, Spawn, WriteHello, HandshakeFails, SpawnFails, PingWrite, PingRecv,
      PingFails, ShutdownWrite, ShutdownRecv, ShutdownFails, ReapTimeout, KillReap, Drop,
      ClientDropped
<1>3. CASE ~Owner /\ Client
  BY <1>3, ClientCases
  DEF Handshake, SpawnFails, Reap, HostCrash, InvokeRegister, ReaderRoute, ReaderRemove, ReaderEof,
      InvokeWrite, InvokeFails, InvokeDropped, Cancel, FinishRecv, FinishClosed, NextEvent,
      InvocationDropped
<1> QED BY <1>1, <1>2, <1>3

LEMMA SomeRequest == \E i \in RequestId : TRUE
BY TransportAssumption DEF RequestId

LEMMA QueueGrows ==
    ASSUME TypeOK, NEW f \in PluginFrame, globalq' = Append(globalq, f)
    PROVE  HasAck(globalq') => HasAck(globalq) \/ f.type = "shutdown_ack"
<1>1. /\ Len(globalq) \in Nat /\ Len(globalq') = Len(globalq) + 1
      /\ globalq'[Len(globalq) + 1] = f
      /\ \A k \in 1 .. Len(globalq) : globalq'[k] = globalq[k]
  BY AppendFacts DEF TypeOK, ClientTypeOK
<1>2. ASSUME NEW k \in 1 .. Len(globalq')
      PROVE  globalq'[k] = f \/ (k \in 1 .. Len(globalq) /\ globalq'[k] = globalq[k])
  BY <1>1
<1> QED BY <1>2 DEF HasAck

LEMMA LeaveServerStep == ASSUME TypeOK, TypeOK', Core, Server, Leave PROVE Leave'
<1> USE DEF Leave
<1>0. UNCHANGED <<clientPhase, globalq>> /\ Leaving' = Leaving
  BY ServerFacts DEF clientVars, Leaving
<1>1. PICK o \in RequestId : TRUE
  BY SomeRequest
<1>r. ASSUME stdin # <<>>, stdin' = Tail(stdin)
      PROVE  /\ HasShut(stdin') => HasShut(stdin)
             /\ \A i \in RequestId : ShutLast(stdin, i) => ShutLast(stdin', i)
             /\ \A i \in RequestId : Asks(stdin', i) => Asks(stdin, i)
  BY <1>1, <1>r, ReadFacts
<1>s. ASSUME NEW f \in PluginFrame, f.type # "shutdown_ack", Send(f), UNCHANGED stdout
      PROVE  HasAck(Wire') => HasAck(Wire)
  BY <1>1, <1>s, SendFacts
<1>2. CASE ServeHello
  <2>1. HasAck(Wire') => HasAck(Wire)
    <3>1. CASE UNCHANGED stdout
      BY <1>2, <3>1, WireSame DEF ServeHello
    <3>2. CASE PluginWrites(Control("hello"))
      <4>1. MovesWire
        BY <1>2, <3>2 DEF ServeHello, MovesWire
      <4> QED BY <1>1, <4>1, KeptFacts
    <3> QED BY <1>2, <3>1, <3>2 DEF ServeHello
  <2> QED BY <1>0, <1>2, <1>r, <2>1 DEF ServeHello
<1>3. CASE RefuseHello \/ ReadTorn \/ ReadPartial \/ LoopCancel
  BY <1>0, <1>3, <1>r, WireSame DEF RefuseHello, ReadTorn, ReadPartial, LoopCancel, Receive
<1>4. CASE LoopShutdown
  <2>1. stdin # <<>> /\ stdin' = Tail(stdin) /\ Head(stdin).type = "shutdown"
    BY <1>4 DEF LoopShutdown, Receive
  <2>2. HasShut(stdin) /\ \A i \in RequestId : ~Asks(stdin', i)
    BY <1>1, <2>1, ReadFacts
  <2> QED BY <1>0, <1>4, <1>r, <2>1, <2>2, WireSame DEF LoopShutdown
<1>5. CASE LoopHello
  <2>1. ForRequest("error", None) \in PluginFrame /\ ForRequest("error", None).type = "error"
    BY FrameType DEF PluginType, ForRequest
  <2>2. HasAck(Wire') => HasAck(Wire)
    BY <1>5, <1>s, <2>1 DEF LoopHello
  <2> QED BY <1>0, <1>5, <1>r, <2>2 DEF LoopHello, Receive
<1>6. CASE LoopPing
  <2>1. /\ WithNonce("pong", Head(stdin).nonce) \in PluginFrame
        /\ WithNonce("pong", Head(stdin).nonce).type = "pong"
    BY <1>6, StdinHead, FrameType DEF LoopPing, Receive, PluginType, HostFrame, WithNonce
  <2>2. HasAck(Wire') => HasAck(Wire)
    BY <1>6, <1>s, <2>1 DEF LoopPing
  <2> QED BY <1>0, <1>6, <1>r, <2>2 DEF LoopPing, Receive
<1>7. CASE CancelReturns
  <2>1. HasAck(Wire') => HasAck(Wire)
    <3>1. CASE UNCHANGED outq
      BY <1>7, <3>1, WireSame DEF CancelReturns, transportVars
    <3>2. CASE Send(ForRequest("error", cancelId))
      <4>1. ForRequest("error", cancelId) \in PluginFrame
        BY FrameType DEF PluginType, TypeOK, ServerTypeOK
      <4>2. ForRequest("error", cancelId).type = "error"
        BY DEF ForRequest
      <4> QED BY <1>7, <1>s, <3>2, <4>1, <4>2 DEF CancelReturns, transportVars
    <3> QED BY <1>7, <3>1, <3>2 DEF CancelReturns
  <2> QED BY <1>0, <1>7, <2>1 DEF CancelReturns, transportVars
<1>8. CASE DrainDone
  BY <1>0, <1>8 DEF DrainDone, transportVars
<1>9. CASE LoopInvoke
  <2>1. PICK j \in RequestId :
           Send(ForRequest("started", j)) /\ ForRequest("started", j) \in PluginFrame
    BY <1>9, InvokeFacts
  <2>2. ForRequest("started", j).type = "started"
    BY DEF ForRequest
  <2>3. HasAck(Wire') => HasAck(Wire)
    BY <1>9, <1>s, <2>1, <2>2 DEF LoopInvoke
  <2> QED BY <1>0, <1>9, <1>r, <2>3 DEF LoopInvoke, Receive
<1>10. CASE ReadEof \/ WriterEnds
  BY <1>0, <1>10, WireSame DEF ReadEof, WriterEnds, transportVars
<1>11. ASSUME NEW j \in RequestId, HandlerTask(j) PROVE Leave'
  <2>0. UNCHANGED <<stdin, stdout, phase>>
    BY <1>11 DEF HandlerTask, TaskEvent, TaskReturn, TaskRemove, TaskPanic, transportVars
  <2>1. HasAck(Wire') => HasAck(Wire)
    <3>1. CASE UNCHANGED outq
      BY <2>0, <3>1, WireSame
    <3>2. ASSUME NEW t \in {"event", "finished", "error"}, Send(ForRequest(t, j))
          PROVE  HasAck(Wire') => HasAck(Wire)
      <4>1. ForRequest(t, j) \in PluginFrame /\ ForRequest(t, j).type = t
        BY FrameType DEF PluginType, ForRequest
      <4> QED BY <1>s, <2>0, <3>2, <4>1
    <3> QED BY <1>11, <3>1, <3>2 DEF HandlerTask, TaskEvent, TaskReturn, TaskRemove, TaskPanic
  <2> QED BY <1>0, <2>0, <2>1
<1>12. CASE StrayOutput \/ WriterWrites
  <2>1. MovesWire
    BY <1>12 DEF StrayOutput, MovesWire, serverVars
  <2>2. HasAck(Wire') <=> HasAck(Wire)
    BY <1>1, <2>1, KeptFacts
  <2> QED BY <1>0, <1>12, <2>2 DEF StrayOutput, WriterWrites, serverVars
<1>13. CASE WriterFails
  <2>1. HasAck(Wire') => HasAck(Wire)
    BY <1>1, <1>13, LostFacts DEF WriterFails, transportVars
  <2> QED BY <1>0, <1>13, <2>1 DEF WriterFails, transportVars
<1>14. CASE ServeReturns \/ ProcessKilled
  <2>1. ProcessEnds
    BY <1>14 DEF ServeReturns, ProcessKilled
  <2>2. HasAck(Wire') => HasAck(Wire)
    BY <1>1, <2>1, LostFacts DEF ProcessEnds
  <2>3. ~HasShut(stdin') /\ \A i \in RequestId : ShutLast(stdin', i) /\ ~Asks(stdin', i)
    BY <1>1, <2>1, NoInput DEF ProcessEnds
  <2> QED BY <1>0, <2>1, <2>2, <2>3 DEF ProcessEnds
<1> QED
  BY <1>2, <1>3, <1>4, <1>5, <1>6, <1>7, <1>8, <1>9, <1>10, <1>11, <1>12, <1>13, <1>14
  DEF Server, ServerNext, ReadLoop, WriterLoop

LEMMA LeaveClientStep == ASSUME TypeOK, TypeOK', Core, Client, Leave PROVE Leave'
<1> USE DEF Leave
<1>0. Book /\ UNCHANGED <<plugin, phase, outq>> /\ (Leaving => Leaving')
  BY ClientCases, LeavingStays DEF Core, serverVars
<1>1. PICK o \in RequestId : TRUE
  BY SomeRequest
<1>2. CASE Owner
  <2>1. OwnerEffect
    BY <1>2, OwnerFacts
  <2>2. Wire' = Wire /\ (HasAck(globalq') => HasAck(globalq))
    BY <1>0, <2>1, WireSame DEF OwnerEffect
  <2>3. CASE UNCHANGED stdin
    BY <1>0, <2>2, <2>3
  <2>4. ASSUME NEW f \in HostFrame, f.type \in {"hello", "ping", "shutdown"}, HostWrites(f),
               f.type = "shutdown" => clientPhase' = "acking"
        PROVE  Leave'
    <3>1. \A i \in RequestId : ~Invokes(f, i)
      BY <2>4 DEF Invokes
    <3>2. /\ HasShut(stdin') => HasShut(stdin) \/ f.type = "shutdown"
          /\ \A i \in RequestId : Asks(stdin', i) => Asks(stdin, i)
          /\ \A i \in RequestId : ShutLast(stdin, i) => ShutLast(stdin', i)
      BY <1>1, <2>4, <3>1, WriteFacts
    <3>3. f.type = "shutdown" => Leaving'
      BY <2>4 DEF Leaving
    <3> QED BY <1>0, <2>2, <3>2, <3>3
  <2> QED BY <2>1, <2>3, <2>4 DEF OwnerEffect
<1>3. ASSUME UNCHANGED <<stdin, globalq>>, stdout # <<>>, stdout' = Tail(stdout) PROVE Leave'
  <2>1. HasAck(Wire') => HasAck(Wire)
    BY <1>0, <1>1, <1>3, TakeFacts
  <2> QED BY <1>0, <1>3, <2>1
<1>4. CASE Handshake(plugin.same, plugin.protocol)
  BY <1>3, <1>4 DEF Handshake, SpawnFails
<1>5. CASE Reap \/ HostCrash
  <2>1. UNCHANGED stdin /\ Wire' = Wire /\ globalq' = <<>> /\ Leaving'
    BY <1>0, <1>5, WireSame DEF Reap, HostCrash, Leaving
  <2> QED BY <1>0, <2>1
<1>6. CASE ReaderRoute
  <2>1. CASE UNCHANGED globalq
    BY <1>3, <1>6, <2>1 DEF ReaderRoute
  <2>2. CASE globalq' = Append(globalq, Head(stdout))
    <3>1. Head(stdout) \in PluginFrame /\ stdout # <<>> /\ stdout' = Tail(stdout) /\ UNCHANGED stdin
      BY <1>1, <1>0, <1>6, RouteFacts
    <3>2. HasAck(Wire) <=> HasAck(Wire') \/ Head(stdout).type = "shutdown_ack"
      BY <1>0, <1>1, <3>1, TakeFacts
    <3>3. HasAck(globalq') => HasAck(globalq) \/ Head(stdout).type = "shutdown_ack"
      BY <2>2, <3>1, QueueGrows
    <3> QED BY <1>0, <3>1, <3>2, <3>3
  <2> QED BY <1>6, <2>1, <2>2 DEF ReaderRoute, ReaderBreaks
<1>7. CASE ReaderRemove \/ ReaderEof \/ InvokeRegister
  <2>1. UNCHANGED <<stdin, globalq>> /\ Wire' = Wire
    BY <1>0, <1>7, WireSame DEF ReaderRemove, ReaderEof, ReaderBreaks, InvokeRegister, transportVars
  <2> QED BY <1>0, <2>1
<1>8. ASSUME NEW j \in RequestId, InvokeWrite(j) PROVE Leave'
  <2>1. ForRequest("invoke", j) \in HostFrame
    BY HostFrameType
  <2>2. ForRequest("invoke", j).type = "invoke"
    BY DEF ForRequest
  <2>3. ~Leaving
    BY <1>0, <1>8 DEF InvokeWrite, Book, Leaving
  <2>4. ~HasShut(stdin) /\ ~HasAck(Wire) /\ ~HasAck(globalq) /\ phase \notin {"draining", "closing"}
    BY <2>3
  <2>5. ~HasShut(stdin') /\ \A i \in RequestId : ShutLast(stdin', i)
    BY <1>1, <1>8, <2>1, <2>2, <2>4, WriteFacts DEF InvokeWrite
  <2>6. Wire' = Wire /\ UNCHANGED globalq
    BY <1>0, <1>8, WireSame DEF InvokeWrite
  <2> QED BY <1>0, <2>4, <2>5, <2>6
<1>9. ASSUME NEW j \in RequestId, NEW f \in HostFrame, f.type \in {"cancel", "torn"}, HostWrites(f),
             UNCHANGED <<stdout, globalq>>
      PROVE  Leave'
  <2>1. \A i \in RequestId : ~Invokes(f, i)
    BY <1>9 DEF Invokes
  <2>2. /\ HasShut(stdin') => HasShut(stdin)
        /\ \A i \in RequestId : Asks(stdin', i) => Asks(stdin, i)
        /\ \A i \in RequestId : ShutLast(stdin, i) => ShutLast(stdin', i)
    BY <1>1, <1>9, <2>1, WriteFacts
  <2>3. Wire' = Wire
    BY <1>0, <1>9, WireSame
  <2> QED BY <1>0, <1>9, <2>2, <2>3
<1>10. ASSUME NEW j \in RequestId, InvokeDropped(j) \/ Cancel(j) PROVE Leave'
  <2>1. CASE UNCHANGED stdin
    <3>1. UNCHANGED globalq /\ Wire' = Wire
      BY <1>0, <1>10, WireSame DEF InvokeDropped, Cancel
    <3> QED BY <1>0, <2>1, <3>1
  <2>2. CASE HostWrites(Control("torn"))
    <3>1. Control("torn") \in HostFrame /\ Control("torn").type = "torn"
      BY HostFrameType DEF Control
    <3> QED BY <1>9, <1>10, <2>2, <3>1 DEF InvokeDropped, Cancel
  <2>3. CASE HostWrites(ForRequest("cancel", j))
    <3>1. ForRequest("cancel", j) \in HostFrame /\ ForRequest("cancel", j).type = "cancel"
      BY HostFrameType DEF ForRequest
    <3> QED BY <1>9, <1>10, <2>3, <3>1 DEF InvokeDropped, Cancel
  <2> QED BY <1>10, <2>1, <2>2, <2>3 DEF InvokeDropped, Cancel
<1>11. ASSUME NEW j \in RequestId,
              \/ InvokeFails(j)
              \/ FinishRecv(j) \/ FinishClosed(j) \/ NextEvent(j) \/ InvocationDropped(j)
       PROVE  Leave'
  <2>1. UNCHANGED <<stdin, stdout, globalq>>
    BY <1>11 DEF InvokeFails, FinishRecv, FinishClosed, NextEvent, InvocationDropped, transportVars
  <2>2. Wire' = Wire
    BY <1>0, <2>1, WireSame
  <2> QED BY <1>0, <2>1, <2>2
<1> QED
  BY <1>2, <1>4, <1>5, <1>6, <1>7, <1>8, <1>10, <1>11, ClientCases

\* Of a handler that does not panic, an outcome is on its way, and the
\* acknowledgement comes behind it.
Calm(i) == result[i] # "panicked"

Reply(i) ==
    /\ result[i] \in Outcomes /\ writerTask = "running"
    /\ ReaderRuns /\ invocation[i] = "open"
    => Ended(inbox[i]) \/ HasEnd(Wire, i)

Acked(i) ==
    invocation[i] = "open" /\ ~Ended(inbox[i]) =>
        /\ ReaderRuns => AckBehind(Wire, i)
        /\ ~HasAck(globalq)
        /\ clientPhase \notin {"reaping", "killing", "shut"}

Fate(i) == Calm(i) => Reply(i) /\ Acked(i)

LEMMA FateServerStep ==
    ASSUME TypeOK, TypeOK', Core, Leave, Server, NEW i \in RequestId, Fate(i)
    PROVE  Fate(i)'
<1> USE DEF Fate, Calm, Reply, Acked
<1>0. /\ Tasks /\ Told(i) /\ UNCHANGED <<invocation, inbox, reader, globalq, clientPhase>>
      /\ (ReaderRuns' <=> ReaderRuns)
  BY ServerFacts DEF Core, clientVars, ReaderRuns
<1>1. ASSUME UNCHANGED <<stdout, outq>>, result'[i] = result[i],
             writerTask' = "running" => writerTask = "running"
      PROVE  Fate(i)'
  BY <1>0, <1>1, WireSame
<1>2. ASSUME NEW f \in PluginFrame, f.type # "shutdown_ack", Send(f), UNCHANGED <<stdout, writerTask>>,
             result'[i] = result[i] \/ (result[i] = "none" /\ Ends(f, i))
      PROVE  Fate(i)'
  BY <1>0, <1>2, SendFacts
<1>3. CASE MovesWire /\ UNCHANGED <<result, writerTask>>
  BY <1>0, <1>3, KeptFacts
<1>4. ASSUME outq' = <<>>, UNCHANGED <<stdout, result>>, writerTask' # "running" PROVE Fate(i)'
  BY <1>0, <1>4, LostFacts
<1>5. CASE ServeHello
  <2>1. CASE UNCHANGED stdout
    BY <1>1, <1>5, <2>1 DEF ServeHello
  <2>2. CASE PluginWrites(Control("hello"))
    BY <1>3, <1>5, <2>2 DEF ServeHello, MovesWire
  <2> QED BY <1>5, <2>1, <2>2 DEF ServeHello
<1>6. CASE \/ RefuseHello \/ ReadTorn \/ ReadPartial \/ LoopShutdown \/ LoopCancel \/ ReadEof
           \/ WriterEnds
  BY <1>1, <1>6 DEF RefuseHello, ReadTorn, ReadPartial, LoopShutdown, LoopCancel, ReadEof,
                    WriterEnds, transportVars
<1>7. CASE LoopHello
  <2>1. ForRequest("error", None) \in PluginFrame /\ ForRequest("error", None).type = "error"
    BY FrameType DEF PluginType, ForRequest
  <2> QED BY <1>2, <1>7, <2>1 DEF LoopHello
<1>8. CASE LoopPing
  <2>1. /\ WithNonce("pong", Head(stdin).nonce) \in PluginFrame
        /\ WithNonce("pong", Head(stdin).nonce).type = "pong"
    BY <1>8, StdinHead, FrameType DEF LoopPing, Receive, PluginType, HostFrame, WithNonce
  <2> QED BY <1>2, <1>8, <2>1 DEF LoopPing
<1>9. CASE CancelReturns
  <2>1. CASE UNCHANGED outq
    BY <1>1, <1>9, <2>1 DEF CancelReturns, transportVars
  <2>2. CASE Send(ForRequest("error", cancelId))
    <3>1. ForRequest("error", cancelId) \in PluginFrame
      BY FrameType DEF PluginType, TypeOK, ServerTypeOK
    <3>2. ForRequest("error", cancelId).type = "error"
      BY DEF ForRequest
    <3> QED BY <1>2, <1>9, <2>2, <3>1, <3>2 DEF CancelReturns, transportVars
  <2> QED BY <1>9, <2>1, <2>2 DEF CancelReturns
<1>10. CASE DrainDone
  <2>1. Control("shutdown_ack") \in PluginFrame /\ UNCHANGED <<stdout, result, writerTask>>
    BY <1>10, FrameType DEF PluginType, DrainDone, transportVars
  <2>2. Control("shutdown_ack").type = "shutdown_ack" /\ ~Ends(Control("shutdown_ack"), i)
    BY DEF Control, Ends, Terminal
  <2>3. Send(Control("shutdown_ack")) /\ phase = "draining" /\ task[i] = "none"
    BY <1>10 DEF DrainDone, AllJoined, LiveTasks
  <2>4. invocation[i] = "open" /\ Calm(i) => result[i] \in Outcomes
    BY <1>0, <2>3 DEF Leave, Told, Sound, Begun, Tasks, Outcomes, TypeOK, ServerTypeOK
  <2>5. HasEnd(Wire', i) <=> HasEnd(Wire, i)
    BY <2>1, <2>2, <2>3, SendFacts
  <2>6. /\ AckBehind(Wire, i) /\ (writerTask = "running" => HasEnd(Wire, i)) => AckBehind(Wire', i)
    BY <2>1, <2>2, <2>3, SendFacts
  <2> QED BY <1>0, <2>1, <2>4, <2>5, <2>6
<1>11. CASE LoopInvoke
  <2>1. PICK j \in RequestId :
           /\ Nothing(j)
           /\ Send(ForRequest("started", j)) /\ ForRequest("started", j) \in PluginFrame
           /\ result' = [result EXCEPT ![j] = "none"]
    BY <1>11, InvokeFacts
  <2>2. result'[i] = result[i]
    BY <2>1 DEF Nothing, Begun, TypeOK, ServerTypeOK
  <2>3. ForRequest("started", j).type = "started"
    BY DEF ForRequest
  <2> QED BY <1>2, <1>11, <2>1, <2>2, <2>3 DEF LoopInvoke
<1>12. ASSUME NEW j \in RequestId, HandlerTask(j) PROVE Fate(i)'
  <2>1. CASE TaskRemove(j)
    BY <1>1, <2>1 DEF TaskRemove, transportVars
  <2>2. CASE TaskPanic(j)
    <3>1. CASE i # j
      BY <1>1, <2>2, <3>1 DEF TaskPanic, transportVars, TypeOK, ServerTypeOK
    <3>2. CASE i = j
      BY <2>2, <3>2 DEF TaskPanic, TypeOK, ServerTypeOK
    <3> QED BY <3>1, <3>2
  <2>3. CASE TaskEvent(j)
    <3>1. ForRequest("event", j) \in PluginFrame /\ ForRequest("event", j).type = "event"
      BY FrameType DEF PluginType, ForRequest
    <3> QED BY <1>2, <2>3, <3>1 DEF TaskEvent, transportVars
  <2>4. CASE TaskReturn(j)
    <3>1. PICK r \in Outcomes : result' = [result EXCEPT ![j] = r] /\ Send(ForRequest(r, j))
      BY <2>4 DEF TaskReturn, Outcomes
    <3>2. ForRequest(r, j) \in PluginFrame /\ ForRequest(r, j).type = r
      BY FrameType DEF PluginType, Outcomes, ForRequest
    <3>3. i = j => Ends(ForRequest(r, j), i)
      BY ControlFacts DEF Outcomes
    <3>4. i # j => result'[i] = result[i]
      BY <3>1 DEF TypeOK, ServerTypeOK
    <3>5. i = j => result[i] = "none"
      BY <1>0, <2>4 DEF TaskReturn, Tasks
    <3>6. UNCHANGED <<stdout, writerTask>>
      BY <2>4 DEF TaskReturn, transportVars
    <3> QED BY <1>2, <3>1, <3>2, <3>3, <3>4, <3>5, <3>6 DEF Outcomes
  <2> QED BY <1>12, <2>1, <2>2, <2>3, <2>4 DEF HandlerTask
<1>13. CASE StrayOutput \/ WriterWrites
  BY <1>3, <1>13 DEF StrayOutput, WriterWrites, MovesWire, serverVars
<1>14. CASE WriterFails \/ ServeReturns \/ ProcessKilled
  BY <1>4, <1>14 DEF WriterFails, ServeReturns, ProcessKilled, ProcessEnds, transportVars
<1> QED
  BY <1>5, <1>6, <1>7, <1>8, <1>9, <1>10, <1>11, <1>12, <1>13, <1>14
  DEF Server, ServerNext, ReadLoop, WriterLoop

LEMMA FateClientStep ==
    ASSUME TypeOK, TypeOK', Core, Leave, Client, NEW i \in RequestId, Closing(i), Fate(i)
    PROVE  Fate(i)'
<1> USE DEF Fate, Calm, Reply, Acked
<1>0. Book /\ Once(i) /\ UNCHANGED <<plugin, result, outq, writerTask>>
  BY ClientCases DEF Core, serverVars
<1>1. ASSUME UNCHANGED <<stdout, reader>>, inbox'[i] = inbox[i],
             invocation'[i] = "open" => invocation[i] = "open",
             HasAck(globalq') => HasAck(globalq),
             clientPhase' \in {"reaping", "killing", "shut"} =>
                clientPhase \in {"reaping", "killing", "shut"} \/ HasAck(globalq)
      PROVE  Fate(i)'
  BY <1>0, <1>1, WireSame DEF ReaderRuns
<1>2. CASE Owner
  BY <1>1, <1>2, OwnerFacts DEF OwnerEffect
<1>3. CASE Handshake(plugin.same, plugin.protocol)
  BY <1>0, <1>3 DEF Handshake, SpawnFails, Book, Early
<1>4. CASE Reap
  <2>1. ~ReaderRuns' /\ clientPhase = "reaping" /\ UNCHANGED <<invocation, inbox>>
    BY <1>4 DEF Reap, ReaderRuns
  <2> QED BY <1>0, <2>1
<1>5. CASE HostCrash
  <2>1. invocation'[i] # "open"
    BY <1>5 DEF HostCrash, Dropped, TypeOK, ClientTypeOK
  <2> QED BY <1>0, <2>1
<1>6. CASE InvokeRegister
  BY <1>1, <1>6 DEF InvokeRegister, transportVars, TypeOK, ClientTypeOK
<1>7. CASE ReaderRoute
  <2> DEFINE f == Head(stdout)
  <2>1. /\ f \in PluginFrame /\ stdout # <<>> /\ stdout' = Tail(stdout)
        /\ UNCHANGED <<invocation, clientPhase>> /\ reader = "read" /\ inbox[i] \in Seq(PluginFrame)
    BY <1>0, <1>7, RouteFacts DEF TypeOK, ClientTypeOK
  <2>2. /\ HasEnd(Wire, i) <=> HasEnd(Wire', i) \/ Ends(f, i)
        /\ AckBehind(Wire, i) /\ ~Ends(f, i) => AckBehind(Wire', i)
        /\ AckBehind(Wire, i) => f.type # "shutdown_ack"
    BY <1>0, <2>1, TakeFacts
  <2>3. HasAck(globalq') => HasAck(globalq) \/ f.type = "shutdown_ack"
    BY <1>7, <2>1, QueueGrows DEF ReaderRoute, ReaderBreaks
  <2>4. /\ inbox'[i] \in {inbox[i], Append(inbox[i], f)}
        /\ Ends(f, i) /\ i \in clientPending /\ invocation[i] = "open"
              => inbox'[i] = Append(inbox[i], f)
    BY <1>0, <1>7, RouteFacts, DeliveryFacts DEF Ends
  <2> HIDE DEF f
  <2>5. Ended(inbox[i]) => Ended(inbox'[i])
    BY <2>1, <2>4, ChannelGrows
  <2>6. Ends(f, i) /\ invocation[i] = "open" => Ended(inbox'[i])
    <3>1. ASSUME Ends(f, i), invocation[i] = "open", i \in clientPending PROVE Ended(inbox'[i])
      BY <2>1, <2>4, <3>1, ChannelGrows DEF Ends
    <3>2. ASSUME invocation[i] = "open", i \notin clientPending PROVE Ended(inbox[i])
      BY <2>1, <3>2 DEF Closing, ReaderRuns
    <3> QED BY <2>5, <3>1, <3>2
  <2>7. ReaderRuns
    BY <2>1 DEF ReaderRuns
  <2> QED BY <1>0, <2>1, <2>2, <2>3, <2>5, <2>6, <2>7
<1>8. CASE ReaderRemove
  <2>1. ReaderRuns /\ UNCHANGED <<invocation, inbox, globalq, clientPhase>> /\ Wire' = Wire
    BY <1>0, <1>8, WireSame DEF ReaderRemove, ReaderRuns, transportVars
  <2> QED BY <1>0, <2>1
<1>9. CASE ReaderEof
  <2>1. ~ReaderRuns' /\ UNCHANGED <<invocation, inbox, globalq, clientPhase>>
    BY <1>9 DEF ReaderEof, ReaderBreaks, ReaderRuns
  <2> QED BY <1>0, <2>1
<1>10. ASSUME NEW j \in RequestId, InvokeWrite(j) PROVE Fate(i)'
  <2>1. CASE i # j
    BY <1>1, <1>10, <2>1 DEF InvokeWrite, TypeOK, ClientTypeOK
  <2>2. CASE i = j
    <3>1. clientPhase = "ready" /\ UNCHANGED <<clientPhase, globalq>> /\ Wire' = Wire
      BY <1>0, <1>10, <2>2, WireSame DEF InvokeWrite, Book
    <3>2. ~HasAck(Wire) /\ ~HasAck(globalq)
      BY <3>1 DEF Leave, Leaving
    <3>3. AckBehind(Wire, i)
      BY <3>2 DEF HasAck, AckBehind
    <3>4. result[i] = "none"
      BY <1>0, <1>10, <2>2 DEF InvokeWrite, Once, Untold, Nothing, Begun
    <3> QED BY <1>0, <3>1, <3>2, <3>3, <3>4 DEF Outcomes
  <2> QED BY <2>1, <2>2
<1>11. ASSUME NEW j \in RequestId, InvokeFails(j) \/ InvokeDropped(j) \/ Cancel(j) \/ FinishClosed(j)
       PROVE  Fate(i)'
  BY <1>1, <1>11 DEF InvokeFails, InvokeDropped, Cancel, FinishClosed, transportVars, TypeOK,
                     ClientTypeOK
<1>12. ASSUME NEW j \in RequestId, InvocationDropped(j) PROVE Fate(i)'
  <2>1. CASE i # j
    BY <1>1, <1>12, <2>1, CallerFacts DEF transportVars
  <2>2. CASE i = j
    <3>1. invocation'[i] # "open"
      BY <1>12, <2>2 DEF InvocationDropped, Dropped, TypeOK, ClientTypeOK
    <3> QED BY <1>0, <3>1
  <2> QED BY <2>1, <2>2
<1>13. ASSUME NEW j \in RequestId, FinishRecv(j) \/ NextEvent(j) PROVE Fate(i)'
  <2>1. CASE i # j
    BY <1>1, <1>13, <2>1, CallerFacts DEF transportVars
  <2>2. CASE i = j
    <3>1. UNCHANGED <<clientPhase, globalq, reader>> /\ Wire' = Wire
      BY <1>0, <1>13, CallerFacts, WireSame DEF transportVars
    <3>2. invocation'[i] = "open" => (Ended(inbox[i]) <=> Ended(inbox'[i]))
      BY <1>13, <2>2, TakingFacts, ChannelTaken
    <3>3. invocation[i] = "open"
      BY <1>13, <2>2, TakingFacts
    <3> QED BY <1>0, <3>1, <3>2, <3>3 DEF ReaderRuns
  <2> QED BY <2>1, <2>2
<1> QED
  BY <1>2, <1>3, <1>4, <1>5, <1>6, <1>7, <1>8, <1>9, <1>10, <1>11, <1>12, <1>13, ClientCases

Shutting == Leave /\ \A i \in RequestId : Fate(i)

LEMMA ShutInit == Init => Shutting
<1> SUFFICES ASSUME Init PROVE Shutting
  OBVIOUS
<1>1. Len(Wire) = 0 /\ Len(globalq) = 0 /\ stdin = <<>>
  BY EmptyFacts DEF Init, TransportInit, ClientInit, ServerInit, Wire
<1>2. ~HasAck(Wire) /\ ~HasAck(globalq)
  BY <1>1 DEF HasAck
<1>3. \A i \in RequestId : ~HasShut(stdin) /\ ~Asks(stdin, i) /\ ShutLast(stdin, i)
  BY <1>1, NoInput
<1>4. Leave
  BY <1>2, <1>3, SomeRequest DEF Leave, Init, ServerInit
<1>5. \A i \in RequestId : invocation[i] = "unused" /\ result[i] = "none"
  BY DEF Init, ClientInit, ServerInit
<1>6. \A i \in RequestId : Fate(i)
  BY <1>5 DEF Fate, Calm, Reply, Acked, Outcomes
<1> QED BY <1>4, <1>6 DEF Shutting

LEMMA ShutStep == Inv /\ Inv' /\ Shutting /\ [Next]_vars => Shutting'
<1>1. ASSUME Inv, Inv', Shutting, Client \/ Server PROVE Shutting'
  <2>1. Leave'
    BY <1>1, LeaveServerStep, LeaveClientStep DEF Inv, Shutting
  <2>2. ASSUME NEW i \in RequestId PROVE Fate(i)'
    <3>1. Closing(i) /\ Fate(i) /\ Leave /\ Core /\ TypeOK /\ TypeOK'
      BY <1>1 DEF Inv, Course, Shutting
    <3> QED BY <1>1, <3>1, FateServerStep, FateClientStep
  <2> QED BY <2>1, <2>2 DEF Shutting
<1>2. ASSUME Shutting, UNCHANGED vars PROVE Shutting'
  BY <1>2 DEF vars, transportVars, serverVars, clientVars, Shutting, Leave, Leaving, Fate, Calm,
              Reply, Acked, Wire, ReaderRuns
<1> QED BY <1>1, <1>2 DEF Next, Stop

LEMMA ShutHolds == Spec => []Shutting
<1>1. Init => Shutting
  BY ShutInit
<1>2. Inv /\ Inv' /\ Shutting /\ [Next]_vars => Shutting'
  BY ShutStep
<1> QED BY <1>1, <1>2, InvHolds, PTL DEF Spec

\* Once shutdown has its acknowledgement every invocation still open has its
\* outcome in its channel, unless its own handler panicked, and as the last
\* frame there, unless its own handler talks on: whatever the handlers of other
\* requests do (lib.rs 342-367, 572-579).
THEOREM ShutdownCorrect == Spec => []ShutdownDelivers
<1>1. ASSUME Inv, Ordered, Shutting PROVE ShutdownDelivers
  <2> SUFFICES ASSUME clientPhase \in {"reaping", "killing", "shut"},
                      NEW i \in RequestId, invocation[i] = "open", result[i] # "panicked"
               PROVE  \E k \in 1 .. Len(inbox[i]) :
                          /\ Terminal(inbox[i][k])
                          /\ k = Len(inbox[i]) \/ i \in Leaky \/ HookMayFail(i)
    BY DEF ShutdownDelivers
  <2> DEFINE q == inbox[i]
  <2>1. q \in Seq(PluginFrame) /\ Len(q) \in Nat
    BY <1>1 DEF Inv, TypeOK, ClientTypeOK
  <2>2. Ended(q)
    BY <1>1 DEF Shutting, Fate, Calm, Acked
  <2>3. ~HookMayFail(i) => EndThenLate(q, i)
    BY <1>1 DEF Ordered, Order
  <2> HIDE DEF q
  <2>4. PICK k \in 1 .. Len(q) : Terminal(q[k])
    BY <2>2 DEF Ended
  <2>5. i \notin Leaky /\ ~HookMayFail(i) => k = Len(q)
    <3>1. i \notin Leaky /\ ~HookMayFail(i) => ~(Len(q) \in (k + 1) .. Len(q))
      BY <2>3, <2>4 DEF EndThenLate, Late
    <3> QED BY <2>1, <3>1
  <2> QED BY <2>4, <2>5 DEF q
<1> QED BY <1>1, OrderHolds, ShutHolds, PTL

(***************************************************************************)
(* The promise of WorkerService.                                           *)
(***************************************************************************)
Stable == Inv /\ \A i \in RequestId : Order(i) /\ Acked(i)

AllCalm == \A i \in RequestId : Calm(i)

LEMMA CalmHolds == ASSUME "panic" \notin HandlerFaults PROVE Spec => []AllCalm
<1>1. Init => AllCalm
  BY DEF Init, ServerInit, AllCalm, Calm
<1>2. ASSUME Inv, AllCalm, [Next]_vars PROVE AllCalm'
  <2> SUFFICES ASSUME NEW i \in RequestId PROVE result'[i] # "panicked"
    BY DEF AllCalm, Calm
  <2>1. result[i] # "panicked" /\ result \in [RequestId -> {"none", "finished", "error", "panicked"}]
    BY <1>2 DEF AllCalm, Calm, Inv, TypeOK, ServerTypeOK
  <2>2. CASE UNCHANGED result
    BY <2>1, <2>2
  <2>3. CASE Client \/ Stop \/ UNCHANGED vars
    BY <2>2, <2>3, ClientCases DEF Stop, vars, serverVars
  <2>4. CASE LoopInvoke
    BY <2>1, <2>4 DEF LoopInvoke
  <2>5. CASE ReadLoop /\ ~LoopInvoke
    BY <2>2, <2>5 DEF ReadLoop, ServeHello, RefuseHello, LoopHello, LoopPing, LoopCancel,
                      CancelReturns, LoopShutdown, DrainDone, ReadTorn, ReadPartial, ReadEof
  <2>6. CASE WriterLoop \/ StrayOutput
    BY <2>2, <2>6 DEF WriterLoop, WriterWrites, WriterFails, WriterEnds, StrayOutput, serverVars
  <2>7. CASE ServeReturns \/ ProcessKilled
    BY <2>2, <2>7 DEF ServeReturns, ProcessKilled, ProcessEnds
  <2>8. ASSUME NEW j \in RequestId, HandlerTask(j) PROVE result'[i] # "panicked"
    BY <2>1, <2>8 DEF HandlerTask, TaskEvent, TaskReturn, TaskRemove, TaskPanic
  <2> QED BY <1>2, <2>3, <2>4, <2>5, <2>6, <2>7, <2>8 DEF Next, Server, ServerNext
<1> QED BY <1>1, <1>2, InvHolds, PTL DEF Spec

LEMMA Stutter ==
    ASSUME \A i \in RequestId : CallOf(i)' = CallOf(i),
           \A i \in RequestId : WorkOf(i)' = WorkOf(i),
           LinkState' = LinkState
    PROVE  UNCHANGED Service!serviceVars
BY DEF Service!serviceVars

LEMMA PromiseInit == Init => Service!Init
<1> SUFFICES ASSUME Init PROVE Service!Init
  OBVIOUS
<1>1. \A i \in RequestId : CallOf(i) = "idle" /\ WorkOf(i) = "none"
  BY DEF Init, ClientInit, ServerInit, CallOf, WorkOf
<1>2. LinkState = "up"
  BY DEF Init, ClientInit, LinkState
<1> QED BY <1>1, <1>2 DEF Service!Init

LEMMA ServerPromise ==
    ASSUME "panic" \notin HandlerFaults, Stable, Server
    PROVE  [Service!Next]_(Service!serviceVars)
<1>0. TypeOK /\ Core /\ Book /\ Tasks
  BY DEF Stable, Inv, Core
<1>1. \A i \in RequestId : CallOf(i)' = CallOf(i)
  BY ServerFacts DEF clientVars, CallOf
<1>2. LinkState' = LinkState
  BY ServerFacts DEF clientVars, LinkState
<1>3. LinkState # "shut"
  BY <1>0, ServerFacts DEF LinkState, Book
<1>4. CASE UNCHANGED <<task, result>>
  <2>1. \A i \in RequestId : WorkOf(i)' = WorkOf(i)
    BY <1>4 DEF WorkOf
  <2> QED BY <1>1, <1>2, <2>1, Stutter
<1>5. ASSUME NEW i \in RequestId, NEW x, \A j \in RequestId : WorkOf(j)' = IF j = i THEN x ELSE WorkOf(j)
      PROVE  [j \in RequestId |-> WorkOf(j)]' = [[j \in RequestId |-> WorkOf(j)] EXCEPT ![i] = x]
  BY <1>5
<1>6. CASE LoopInvoke
  <2>1. PICK i \in RequestId :
           /\ Nothing(i) /\ ~Untold(i)
           /\ task' = [task EXCEPT ![i] = "running"]
           /\ result' = [result EXCEPT ![i] = "none"]
    BY <1>0, <1>6, InvokeFacts
  <2>2. task[i] = "none" /\ result[i] = "none"
    BY <1>0, <2>1 DEF Nothing, Begun, Tasks
  <2>3. WorkOf(i) = "none"
    BY <2>2 DEF WorkOf
  <2>4. \A j \in RequestId : WorkOf(j)' = IF j = i THEN "running" ELSE WorkOf(j)
    BY <1>0, <2>1 DEF WorkOf, TypeOK, ServerTypeOK
  <2>5. CallOf(i) # "idle"
    BY <1>0, <2>1 DEF Untold, CallOf, TypeOK, ClientTypeOK, InvocationState
  <2>6. [j \in RequestId |-> WorkOf(j)]' = [[j \in RequestId |-> WorkOf(j)] EXCEPT ![i] = "running"]
    BY <1>5, <2>4
  <2>7. Service!Begin(i)
    BY <1>1, <1>2, <1>3, <2>3, <2>5, <2>6 DEF Service!Begin
  <2> QED BY <2>7 DEF Service!Next
<1>7. ASSUME NEW i \in RequestId, HandlerTask(i) PROVE [Service!Next]_(Service!serviceVars)
  <2>1. CASE TaskEvent(i)
    BY <1>4, <2>1 DEF TaskEvent
  <2>2. CASE TaskReturn(i)
    <3>1. PICK r \in {"finished", "error"} : result' = [result EXCEPT ![i] = r]
      BY <2>2 DEF TaskReturn
    <3>2. WorkOf(i) = "running"
      BY <1>0, <2>2 DEF TaskReturn, WorkOf, Tasks
    <3>3. \A j \in RequestId : WorkOf(j)' = IF j = i THEN r ELSE WorkOf(j)
      BY <1>0, <2>2, <3>1 DEF TaskReturn, WorkOf, TypeOK, ServerTypeOK
    <3>4. [j \in RequestId |-> WorkOf(j)]' = [[j \in RequestId |-> WorkOf(j)] EXCEPT ![i] = r]
      BY <1>5, <3>3
    <3>5. Service!Complete(i)
      BY <1>1, <1>2, <1>3, <3>2, <3>4 DEF Service!Complete
    <3> QED BY <3>5 DEF Service!Next
  <2>3. CASE TaskRemove(i)
    <3>1. \A j \in RequestId : WorkOf(j)' = WorkOf(j)
      BY <1>0, <2>3 DEF TaskRemove, WorkOf, Tasks, TypeOK, ServerTypeOK
    <3> QED BY <1>1, <1>2, <3>1, Stutter
  <2>4. CASE TaskPanic(i)
    BY <2>4 DEF TaskPanic
  <2> QED BY <1>7, <2>1, <2>2, <2>3, <2>4 DEF HandlerTask
<1>8. CASE ServeReturns \/ ProcessKilled
  <2>1. ProcessEnds
    BY <1>8 DEF ServeReturns, ProcessKilled
  <2>2. \A j \in RequestId : WorkOf(j)' = IF WorkOf(j) = "running" THEN "none" ELSE WorkOf(j)
    BY <1>0, <2>1 DEF ProcessEnds, WorkOf, TypeOK, ServerTypeOK
  <2>3. Service!WorkerDies
    BY <1>1, <1>2, <1>3, <2>2 DEF Service!WorkerDies
  <2> QED BY <2>3 DEF Service!Next
<1>9. CASE ReadLoop /\ ~LoopInvoke
  BY <1>4, <1>9 DEF ReadLoop, ServeHello, RefuseHello, LoopHello, LoopPing, LoopCancel,
                    CancelReturns, LoopShutdown, DrainDone, ReadTorn, ReadPartial, ReadEof
<1>10. CASE WriterLoop \/ StrayOutput
  BY <1>4, <1>10 DEF WriterLoop, WriterWrites, WriterFails, WriterEnds, StrayOutput, serverVars
<1> QED BY <1>6, <1>7, <1>8, <1>9, <1>10 DEF Server, ServerNext

LEMMA OwnerLink == ASSUME Owner PROVE LinkState' = LinkState
BY DEF LinkState, Owner, SpawnRefused, Spawn, WriteHello, HandshakeFails, SpawnFails, PingWrite,
       PingRecv, PingFails, ShutdownWrite, ShutdownRecv, ShutdownFails, ReapTimeout, KillReap, Drop,
       ClientDropped

LEMMA ClientPromise ==
    ASSUME Stable, Stable', Client
    PROVE  [Service!Next]_(Service!serviceVars)
<1>0. TypeOK /\ TypeOK' /\ Book /\ Tasks /\ \A i \in RequestId : Order(i) /\ Order(i)'
  BY DEF Stable, Inv, Core
<1>1. \A i \in RequestId : WorkOf(i)' = WorkOf(i)
  BY ClientCases DEF serverVars, WorkOf
<1>2. ASSUME NEW i \in RequestId, invocation'[i] = invocation[i],
             invocation[i] = "open" \/ transcript'[i] = transcript[i]
      PROVE  CallOf(i)' = CallOf(i)
  BY <1>2 DEF CallOf
<1>3. ASSUME NEW i \in RequestId, result[i] \in Outcomes PROVE WorkOf(i) = result[i]
  BY <1>3 DEF WorkOf, Outcomes
<1>4. ASSUME NEW i \in RequestId, NEW x,
             \A j \in RequestId : j # i => CallOf(j)' = CallOf(j), CallOf(i)' = x
      PROVE  [j \in RequestId |-> CallOf(j)]' = [[j \in RequestId |-> CallOf(j)] EXCEPT ![i] = x]
  BY <1>4
<1>5. CASE Owner
  BY <1>1, <1>2, <1>5, OwnerFacts, OwnerLink, Stutter, <1>0 DEF OwnerEffect
<1>6. CASE Handshake(plugin.same, plugin.protocol)
  <2>1. LinkState' = LinkState
    BY <1>0, <1>6 DEF Handshake, SpawnFails, LinkState, Book, Early
  <2> QED BY <1>1, <1>2, <1>6, <2>1, Stutter DEF Handshake, SpawnFails
<1>7. CASE Reap
  <2>1. \A i \in RequestId : CallOf(i)' = CallOf(i)
    BY <1>2, <1>7 DEF Reap
  <2>2. LinkState # "shut" /\ LinkState' = "shut"
    BY <1>7 DEF Reap, LinkState
  <2>3. ASSUME NEW i \in RequestId PROVE WorkOf(i) # "running"
    <3>1. task[i] = "none"
      BY <1>0, <1>7 DEF Reap, Tasks
    <3> QED BY <1>0, <3>1 DEF WorkOf, TypeOK, ServerTypeOK
  <2>4. ASSUME NEW i \in RequestId, CallOf(i) = "open" PROVE WorkOf(i) # "none"
    <3>1. invocation[i] = "open"
      BY <1>0, <2>4 DEF CallOf, TypeOK, ClientTypeOK, InvocationState
    <3>2. Ended(inbox[i])
      BY <1>7, <3>1 DEF Reap, Stable, Acked
    <3>3. PICK t \in Outcomes : Bears(inbox[i], t)
      BY <3>2, EndHas
    <3>4. result[i] \in Outcomes
      BY <1>0, <3>3 DEF Order
    <3> QED BY <1>3, <3>4 DEF Outcomes
  <2>5. Service!Shut
    BY <1>1, <2>1, <2>2, <2>3, <2>4 DEF Service!Shut
  <2> QED BY <2>5 DEF Service!Next
<1>8. CASE HostCrash
  <2>1. LinkState' = "lost"
    BY <1>8 DEF HostCrash, LinkState
  <2> DEFINE submitting == {i \in RequestId : invocation[i] = "registering"}
  <2>2. submitting \in SUBSET {i \in RequestId : CallOf(i) = "idle"}
    BY DEF CallOf
  <2>3. ASSUME NEW i \in RequestId
        PROVE  CallOf(i)' = IF CallOf(i) = "open" \/ i \in submitting THEN "gone" ELSE CallOf(i)
    <3>1. invocation'[i] = Dropped(invocation[i]) /\ transcript' = transcript
      BY <1>8 DEF HostCrash
    <3>2. CASE invocation[i] \in {"registering", "open"}
      BY <3>1, <3>2 DEF Dropped, CallOf
    <3>3. CASE invocation[i] = "drained"
      BY <3>1, <3>3 DEF Dropped, CallOf
    <3>4. CASE invocation[i] \notin {"registering", "open", "drained"}
      BY <1>0, <3>1, <3>4 DEF Dropped, CallOf, TypeOK, ClientTypeOK, InvocationState
    <3> QED BY <3>2, <3>3, <3>4
  <2> HIDE DEF submitting
  <2>4. Service!HostDies
    BY <1>1, <2>1, <2>2, <2>3 DEF Service!HostDies
  <2> QED BY <2>4 DEF Service!Next
<1>9. CASE InvokeRegister
  <2>1. invocation[nextId] = "unused"
    BY <1>0, <1>9 DEF InvokeRegister, Book, RequestId
  <2>2. \A i \in RequestId : CallOf(i)' = CallOf(i)
    BY <1>0, <1>9, <2>1 DEF InvokeRegister, CallOf, TypeOK, ClientTypeOK
  <2>3. LinkState' = LinkState
    BY <1>9 DEF InvokeRegister, LinkState
  <2> QED BY <1>1, <2>2, <2>3, Stutter
<1>10. CASE ReaderRoute \/ ReaderRemove \/ ReaderEof
  <2>1. \A i \in RequestId : CallOf(i)' = CallOf(i)
    BY <1>2, <1>10 DEF ReaderRoute, ReaderRemove, ReaderEof
  <2>2. reader \in {"read", "remove"} /\ reader' \in {"read", "remove", "stopped"} /\ UNCHANGED clientPhase
    BY <1>10 DEF ReaderRoute, ReaderRemove, ReaderEof, ReaderBreaks
  <2>3. LinkState' = LinkState \/ (LinkState = "up" /\ LinkState' = "lost")
    BY <2>2 DEF LinkState
  <2>4. CASE LinkState = "up" /\ LinkState' = "lost"
    <3>1. Service!Lose
      BY <1>1, <2>1, <2>4 DEF Service!Lose
    <3> QED BY <3>1 DEF Service!Next
  <2> QED BY <1>1, <2>1, <2>3, <2>4, Stutter
<1>11. ASSUME NEW i \in RequestId, InvokeWrite(i) PROVE Service!Next
  <2>1. CallOf(i) = "idle" /\ CallOf(i)' = "open"
    BY <1>0, <1>11 DEF InvokeWrite, CallOf, TypeOK, ClientTypeOK
  <2>2. \A j \in RequestId : j # i => CallOf(j)' = CallOf(j)
    BY <1>0, <1>11, <1>2 DEF InvokeWrite, TypeOK, ClientTypeOK
  <2>3. LinkState' = LinkState /\ LinkState # "shut"
    BY <1>0, <1>11 DEF InvokeWrite, LinkState, Book
  <2>4. Service!Submit(i)
    BY <1>1, <1>4, <2>1, <2>2, <2>3 DEF Service!Submit
  <2> QED BY <2>4 DEF Service!Next
<1>12. ASSUME NEW i \in RequestId, invocation[i] \in {"registering", "open"},
              invocation'[i] \in {"rejected", "abandoned"},
              \A j \in RequestId : j # i => CallOf(j)' = CallOf(j), UNCHANGED <<clientPhase, reader>>
       PROVE  Service!Next
  <2>1. CallOf(i) \in {"idle", "open"} /\ CallOf(i)' = "gone"
    BY <1>12 DEF CallOf
  <2>2. LinkState' = LinkState
    BY <1>12 DEF LinkState
  <2>3. Service!Forget(i)
    BY <1>1, <1>4, <1>12, <2>1, <2>2 DEF Service!Forget
  <2> QED BY <2>3 DEF Service!Next
<1>13. ASSUME NEW i \in RequestId, InvokeFails(i) \/ InvokeDropped(i) PROVE Service!Next
  <2>1. \A j \in RequestId : j # i => CallOf(j)' = CallOf(j)
    BY <1>0, <1>2, <1>13 DEF InvokeFails, InvokeDropped, TypeOK, ClientTypeOK
  <2> QED BY <1>0, <1>12, <1>13, <2>1 DEF InvokeFails, InvokeDropped, TypeOK, ClientTypeOK
<1>14. ASSUME NEW i \in RequestId, Cancel(i) PROVE UNCHANGED Service!serviceVars
  <2>1. LinkState' = LinkState
    BY <1>14 DEF Cancel, LinkState
  <2> QED BY <1>1, <1>2, <1>14, <2>1, Stutter DEF Cancel
\* What a caller does.
<1>15. ASSUME NEW i \in RequestId,
              FinishRecv(i) \/ FinishClosed(i) \/ NextEvent(i) \/ InvocationDropped(i)
       PROVE  [Service!Next]_(Service!serviceVars)
  <2>1. \A j \in RequestId : j # i => CallOf(j)' = CallOf(j)
    BY <1>0, <1>2, <1>15, CallerFacts
  <2>2. LinkState' = LinkState /\ UNCHANGED <<clientPhase, reader>>
    BY <1>0, <1>15, CallerFacts DEF LinkState
  <2>3. CASE CallOf(i)' = CallOf(i)
    BY <1>1, <2>1, <2>2, <2>3, Stutter
  <2>4. CASE FinishRecv(i) \/ NextEvent(i)
    <3>1. /\ invocation[i] = "open" /\ invocation'[i] \in {"open", "finished", "errored", "drained"}
      BY <1>0, <2>4, TakingFacts
    <3>2. CASE invocation'[i] = "open"
      BY <1>2, <2>3, <3>1, <3>2
    <3>3. CASE invocation'[i] # "open"
      <4>1. /\ result'[i] \in Outcomes /\ result' = result
            /\ transcript'[i][Len(transcript'[i])] = result'[i]
            /\ invocation'[i] = "finished" => result'[i] = "finished"
            /\ invocation'[i] = "errored" => result'[i] = "error"
        BY <1>0, <3>1, <3>3, ClientCases DEF Order, Resolved, serverVars
      <4>2. CallOf(i)' = IF result[i] = "finished" THEN "finished" ELSE "errored"
        BY <3>1, <3>3, <4>1 DEF CallOf, Outcomes
      <4>3. CallOf(i) = "open" /\ WorkOf(i) = result[i]
        BY <1>3, <3>1, <4>1 DEF CallOf
      <4>4. [j \in RequestId |-> CallOf(j)]' =
               [[j \in RequestId |-> CallOf(j)] EXCEPT
                   ![i] = IF result[i] = "finished" THEN "finished" ELSE "errored"]
        BY <1>4, <2>1, <4>2
      <4>5. Service!Resolve(i)
        BY <1>1, <2>2, <4>1, <4>3, <4>4 DEF Service!Resolve, Outcomes
      <4> QED BY <4>5 DEF Service!Next
    <3> QED BY <3>2, <3>3
  <2>5. CASE InvocationDropped(i)
    <3>1. invocation'[i] = Dropped(invocation[i]) /\ invocation[i] \in {"open", "drained"}
          /\ UNCHANGED transcript
      BY <1>0, <2>5 DEF InvocationDropped, TypeOK, ClientTypeOK
    <3>2. CASE invocation[i] = "open"
      <4>1. invocation'[i] = "abandoned"
        BY <3>1, <3>2 DEF Dropped
      <4> QED BY <1>12, <2>1, <2>2, <3>2, <4>1
    <3>3. CASE invocation[i] = "drained"
      <4>1. CallOf(i)' = CallOf(i)
        BY <3>1, <3>3 DEF Dropped, CallOf
      <4> QED BY <2>3, <4>1
    <3> QED BY <3>1, <3>2, <3>3
  <2>6. CASE FinishClosed(i)
    <3>1. /\ UNCHANGED transcript /\ inbox[i] = <<>> /\ invocation[i] \in {"open", "drained"}
          /\ invocation'[i] = IF invocation[i] = "open" THEN "closed" ELSE "spent"
      BY <1>0, <2>6 DEF FinishClosed, TypeOK, ClientTypeOK
    <3>2. CASE invocation[i] = "drained"
      <4>1. CallOf(i)' = CallOf(i)
        BY <3>1, <3>2 DEF CallOf
      <4> QED BY <2>3, <4>1
    <3>3. CASE invocation[i] = "open"
      <4>1. CallOf(i) = "open" /\ CallOf(i)' = "closed"
        BY <3>1, <3>3 DEF CallOf
      <4>2. ~ReaderRuns'
        BY <3>1, <3>3 DEF Stable, Inv, Course, Closing
      <4>3. reader \in {"stopped", "aborted"}
        BY <1>0, <2>2, <3>3, <4>2 DEF ReaderRuns, Book, TypeOK, ClientTypeOK
      <4>4. clientPhase # "shut"
        BY <3>1, <3>3, ChannelEmpty DEF Stable, Acked
      <4>5. LinkState = "lost"
        BY <4>3, <4>4 DEF LinkState
      <4>6. Service!Disconnect(i)
        BY <1>1, <1>4, <2>1, <2>2, <4>1, <4>5 DEF Service!Disconnect
      <4> QED BY <4>6 DEF Service!Next
    <3> QED BY <3>1, <3>2, <3>3
  <2> QED BY <1>15, <2>4, <2>5, <2>6
<1> QED
  BY <1>5, <1>6, <1>7, <1>8, <1>9, <1>10, <1>11, <1>13, <1>14, <1>15, ClientCases

\* The promise of WorkerService, for handlers that do not panic and whose
\* cancel hook does not fail: a caller learns what its own work came to and
\* nothing else, a call breaks off only when the link is lost, and a shutdown
\* that succeeds leaves no work undone and no caller without an answer.
THEOREM PromiseKept ==
    ASSUME {"panic", "cancel_error"} \cap HandlerFaults = {}
    PROVE  Spec => KeepsPromise
<1>0. "panic" \notin HandlerFaults /\ "cancel_error" \notin HandlerFaults
  OBVIOUS
<1>1. Stable /\ Stable' /\ [Next]_vars => [Service!Next]_(Service!serviceVars)
  <2> SUFFICES ASSUME Stable, Stable', [Next]_vars PROVE [Service!Next]_(Service!serviceVars)
    OBVIOUS
  <2>1. CASE UNCHANGED vars
    <3>1. /\ \A i \in RequestId : CallOf(i)' = CallOf(i)
          /\ \A i \in RequestId : WorkOf(i)' = WorkOf(i)
          /\ LinkState' = LinkState
      BY <2>1 DEF vars, clientVars, serverVars, CallOf, WorkOf, LinkState
    <3> QED BY <3>1, Stutter
  <2> QED BY <1>0, <2>1, ServerPromise, ClientPromise DEF Next, Stop
<1>2. Inv /\ Ordered /\ Shutting /\ AllCalm => Stable
  BY <1>0 DEF Stable, Ordered, HookMayFail, Shutting, Fate, AllCalm
<1>3. Spec => []AllCalm
  BY <1>0, CalmHolds
<1> QED
  BY <1>1, <1>2, <1>3, OrderHolds, ShutHolds, PromiseInit, PTL DEF Spec, KeepsPromise, Service!Spec
=============================================================================
