----------------------- MODULE Authentication_proofs -----------------------
(* How often a signed request is accepted, for every window, limit and life *)
(* of the counter that satisfy AuthConstants, every version of the table    *)
(* and every interleaving of submissions, ticks and reloads.                *)
EXTENDS Authentication, FiniteSetTheorems, TLAPS

\* A field main has copied holds a value of the table.
TableValue(f) == \E v \in 1 .. version : config[f] = Saved[v][f]

ConfigInv ==
    /\ ConfigTypeOK
    /\ \A l \in Loader : loader[l].read <= version
    /\ started \/ loader[Main].left # {} =>
           \A f \in Field \ loader[Main].left : TableValue(f)
    /\ started => loader[Main].left = {}

Sub == [pc : Stage, stamp : Nat, seen : Nat, ttl : Nat, resent : 0 .. MaxRetries, reply : Key]

Increment == [stamp : Nat, key : Key]

Counted(r) == sub[r].reply.count >= 1

\* The increment whose reply r got.
Own(r) == [stamp |-> sub[r].stamp, key |-> sub[r].reply]

\* Where a submission is decides what is known of its times and of its reply.
StageInv(r) ==
    /\ sub[r].pc # "unsent" => started
    /\ sub[r].pc \in {"inWindow", "counting"} =>
        /\ sub[r].seen <= now /\ now <= sub[r].seen + MaxStall
        /\ sub[r].stamp <= sub[r].seen + MaxWindow
        /\ sub[r].seen <= sub[r].stamp + MaxWindow
    /\ sub[r].pc = "counting" => sub[r].ttl >= MinTtl
    /\ sub[r].pc \in {"unsent", "inWindow", "counting", "rejected"} => sub[r].reply = NoKey
    /\ sub[r].pc \in {"counted", "accepted", "reused"} => Counted(r) /\ Own(r) \in increments
    /\ sub[r].pc = "accepted" => sub[r].reply.count <= MaxLimit
    /\ sub[r].pc = "reused" => sub[r].reply.count > MinLimit

\* The life an increment fell in overlaps the span of its stamp, and begins in
\* it when the increment began the life.
IncrementInv(i) ==
    /\ i.key.count >= 1
    /\ i.key.since <= i.stamp + MaxWindow + MaxStall
    /\ i.stamp < i.key.until + MaxWindow
    /\ i.key.since + MinTtl <= i.key.until
    /\ i.key.count = 1 => i.stamp <= i.key.since + MaxWindow
    /\ i.key.since <= counter.since
    /\ i.key.since = counter.since =>
           i.key.until = counter.until /\ i.key.count <= counter.count
    /\ i.key.since < counter.since => i.key.until <= counter.since
    /\ counter.count >= 1

\* Lives follow each other.
PairInv(i, j) == i.key.since < j.key.since => i.key.until <= j.key.since

\* No two submissions got the same place in a life.
ReplyInv(q, r) ==
    Counted(q) /\ Counted(r) /\ q # r /\ sub[q].reply.since = sub[r].reply.since =>
        sub[q].reply.count # sub[r].reply.count

\* The places of a life are taken from the first on.
Taken(since, k) == \E i \in increments : i.key.since = since /\ i.key.count = k

CounterInv ==
    /\ counter.since <= now
    /\ counter.count = 0 => counter.until = 0
    /\ counter.count >= 1 => counter.since + MinTtl <= counter.until
    /\ \A k \in 1 .. counter.count : Taken(counter.since, k)

ChainInv ==
    \A i \in increments : \A k \in 1 .. i.key.count : Taken(i.key.since, k)

IInv ==
    /\ TypeOK
    /\ ConfigInv
    /\ \A r \in Submission : StageInv(r)
    /\ \A q, r \in Submission : ReplyInv(q, r)
    /\ \A i \in increments : IncrementInv(i)
    /\ \A i, j \in increments : PairInv(i, j)
    /\ IsFiniteSet(increments)
    /\ CounterInv
    /\ ChainInv

-----------------------------------------------------------------------------
\* The table's bounds hold for the live configuration while requests are served,
\* whatever mixture of versions it is.
LEMMA ConfigBounds ==
    ASSUME ConfigInv, started
    PROVE  /\ config["window"] \in Nat /\ config["window"] <= MaxWindow
           /\ config["ttl"] \in Nat /\ config["ttl"] >= MinTtl
           /\ config["limit"] \in Nat /\ config["limit"] >= MinLimit
           /\ config["limit"] <= MaxLimit
<1>1. \A f \in Field : TableValue(f)
  BY DEF ConfigInv
<1>2. 1 .. version \subseteq DOMAIN Saved
  <2>1. DOMAIN Saved = 1 .. Len(Saved) /\ Len(Saved) \in Nat
    BY ConfigurationConstants
  <2>2. version \in 1 .. Len(Saved)
    BY <2>1 DEF ConfigInv, ConfigTypeOK, Version
  <2>3. QED
    BY <2>1, <2>2
<1>3. config \in [{"window", "ttl", "limit"} -> Nat]
  BY AuthConstants DEF ConfigInv, ConfigTypeOK
<1>4. PICK v \in DOMAIN Saved : config["window"] = Saved[v]["window"]
  BY <1>1, <1>2, AuthConstants DEF TableValue
<1>5. PICK w \in DOMAIN Saved : config["ttl"] = Saved[w]["ttl"]
  BY <1>1, <1>2, AuthConstants DEF TableValue
<1>6. PICK x \in DOMAIN Saved : config["limit"] = Saved[x]["limit"]
  BY <1>1, <1>2, AuthConstants DEF TableValue
<1>7. Saved[x]["limit"] \in MinLimit .. MaxLimit /\ MinLimit \in Nat /\ MaxLimit \in Nat
  BY AuthConstants
<1>8. QED
  BY <1>3, <1>4, <1>5, <1>6, <1>7, AuthConstants

LEMMA ConfigInit_Inv ==
    ASSUME ConfigInit
    PROVE  ConfigInv
<1>1. DOMAIN Saved = 1 .. Len(Saved) /\ Len(Saved) \in Nat /\ Len(Saved) # 0
  BY ConfigurationConstants
<1>2. 1 \in Version
  BY <1>1 DEF Version
<1>3. ConfigTypeOK
  BY <1>2 DEF ConfigInit, ConfigTypeOK
<1>4. QED
  BY <1>3 DEF ConfigInit, ConfigInv, Loader, Main

LEMMA ConfigNext_Inv ==
    ASSUME ConfigInv, ConfigNext
    PROVE  ConfigInv' /\ (started => started')
<1>0. DOMAIN Saved = 1 .. Len(Saved) /\ Len(Saved) \in Nat /\ Saved \in Seq([Field -> Nat])
  BY ConfigurationConstants
<1>t. /\ version \in Version /\ version \in Nat
      /\ config \in [Field -> Nat]
      /\ loader \in [Loader -> [read : Version, left : SUBSET Field]]
      /\ started \in BOOLEAN
  BY <1>0 DEF ConfigInv, ConfigTypeOK, Version
<1>m. Main \in Loader
  BY DEF Loader
<1>1. CASE ChangeTable
  <2>1. /\ version' = version + 1 /\ version' \in Version
        /\ config' = config /\ loader' = loader /\ started' = started
    BY <1>1 DEF ChangeTable
  <2>2. ConfigTypeOK'
    BY <1>t, <2>1 DEF ConfigTypeOK, Version
  <2>3. ASSUME NEW l \in Loader PROVE loader'[l].read <= version'
    <3>1. loader[l].read \in Version /\ loader[l].read \in Nat
      BY <1>t, <1>0 DEF Version
    <3>2. QED
      BY <3>1, <1>t, <2>1 DEF ConfigInv
  <2>4. ASSUME NEW f \in Field, TableValue(f) PROVE TableValue(f)'
    BY <2>4, <2>1, <1>t DEF TableValue
  <2>5. QED
    BY <2>1, <2>2, <2>3, <2>4 DEF ConfigInv
<1>2. ASSUME NEW l \in Loader, LoadDatabaseConfig(l) PROVE ConfigInv' /\ (started => started')
  <2>1. /\ loader' = [loader EXCEPT ![l] = [read |-> version, left |-> Field]]
        /\ version' = version /\ config' = config /\ started' = started
    BY <1>2 DEF LoadDatabaseConfig
  <2>2. ConfigTypeOK'
    BY <1>t, <2>1 DEF ConfigTypeOK, Version
  <2>3. \A k \in Loader : loader'[k].read <= version'
    BY <1>t, <2>1 DEF ConfigInv
  <2>4. ASSUME NEW f \in Field PROVE TableValue(f)' <=> TableValue(f)
    BY <2>1 DEF TableValue
  <2>5. CASE l = Main
    <3>1. loader'[Main].left = Field /\ ~started
      BY <2>5, <1>2, <2>1, <1>t, <1>m DEF LoadDatabaseConfig
    <3>2. QED
      BY <2>1, <2>2, <2>3, <3>1 DEF ConfigInv
  <2>6. CASE l # Main
    <3>1. loader'[Main] = loader[Main]
      BY <2>6, <2>1, <1>t, <1>m
    <3>2. QED
      BY <2>1, <2>2, <2>3, <2>4, <3>1 DEF ConfigInv
  <2>7. QED
    BY <2>5, <2>6
<1>3. ASSUME NEW l \in Loader, NEW f \in Field, MergeField(l, f)
      PROVE  ConfigInv' /\ (started => started')
  <2>1. /\ f \in loader[l].left
        /\ config' = [config EXCEPT ![f] = Saved[loader[l].read][f]]
        /\ loader' = [loader EXCEPT ![l].left = @ \ {f}]
        /\ started' = (started \/ (l = Main /\ loader[l].left = {f}))
        /\ version' = version
    BY <1>3 DEF MergeField
  <2>2. loader[l].read \in Version /\ loader[l].read \in 1 .. version /\ loader[l].left \subseteq Field
    BY <1>t, <1>0 DEF ConfigInv, Version
  <2>3. Saved[loader[l].read] \in [Field -> Nat]
    BY <1>0, <2>2 DEF Version
  <2>4. config' \in [Field -> Nat]
    BY <1>t, <2>1, <2>3
  <2>5. /\ loader'[l].read = loader[l].read /\ loader'[l].left = loader[l].left \ {f}
        /\ \A k \in Loader \ {l} : loader'[k] = loader[k]
        /\ loader' \in [Loader -> [read : Version, left : SUBSET Field]]
    BY <1>t, <2>1
  <2>6. ConfigTypeOK'
    <3>1. started' \in BOOLEAN
      BY <2>1, <1>t
    <3>2. loader' \in [Loader -> [read : Version', left : SUBSET Field]]
      BY <2>5 DEF Version
    <3>3. version' \in Version'
      BY <2>1, <1>t DEF Version
    <3>4. QED
      BY <2>4, <3>1, <3>2, <3>3 DEF ConfigTypeOK
  <2>7. \A k \in Loader : loader'[k].read <= version'
    BY <2>1, <2>5 DEF ConfigInv
  <2>8. TableValue(f)'
    <3>1. config'[f] = Saved[loader[l].read][f]
      BY <2>1, <1>t
    <3>2. QED
      BY <3>1, <2>1, <2>2 DEF TableValue
  <2>9. ASSUME NEW g \in Field, TableValue(g) PROVE TableValue(g)'
    <3>1. CASE g = f
      BY <3>1, <2>8
    <3>2. CASE g # f
      <4>1. config'[g] = config[g]
        BY <3>2, <2>1, <1>t
      <4>2. QED
        BY <4>1, <2>9, <2>1 DEF TableValue
    <3>3. QED
      BY <3>1, <3>2
  <2>10. CASE l = Main
    <3>1. loader[Main].left # {} /\ ~started
      BY <2>1, <2>10 DEF ConfigInv
    <3>2. \A g \in Field \ loader[Main].left : TableValue(g)
      BY <3>1 DEF ConfigInv
    <3>3. \A g \in Field \ loader'[Main].left : TableValue(g)'
      BY <3>2, <2>5, <2>8, <2>9, <2>10
    <3>4. started' => loader'[Main].left = {}
      BY <3>1, <2>1, <2>5, <2>10
    <3>5. QED
      BY <2>6, <2>7, <3>3, <3>4, <3>1 DEF ConfigInv
  <2>11. CASE l # Main
    <3>1. loader'[Main] = loader[Main] /\ started' = started
      BY <2>1, <2>5, <2>11, <1>m, <1>t
    <3>2. started \/ loader[Main].left # {} => \A g \in Field \ loader[Main].left : TableValue(g)
      BY DEF ConfigInv
    <3>3. started' \/ loader'[Main].left # {} => \A g \in Field \ loader'[Main].left : TableValue(g)'
      BY <3>1, <3>2, <2>9
    <3>4. QED
      BY <2>6, <2>7, <3>1, <3>3 DEF ConfigInv
  <2>12. QED
    BY <2>10, <2>11
<1>4. QED
  BY <1>1, <1>2, <1>3 DEF ConfigNext

-----------------------------------------------------------------------------
\* The fields of a submission's locals are typed.
LEMMA SubFields ==
    ASSUME IInv, NEW r \in Submission
    PROVE  /\ sub \in [Submission -> Sub] /\ sub[r] \in Sub
           /\ sub[r].pc \in Stage /\ sub[r].stamp \in Nat /\ sub[r].seen \in Nat
           /\ sub[r].ttl \in Nat /\ sub[r].resent \in 0 .. MaxRetries
           /\ sub[r].reply \in Key /\ sub[r].reply.count \in Nat
           /\ sub[r].reply.since \in Nat /\ sub[r].reply.until \in Nat
  BY DEF IInv, TypeOK, Sub, Key

LEMMA IncrementFields ==
    ASSUME IInv, NEW i \in increments
    PROVE  /\ i \in Increment /\ i.stamp \in Nat /\ i.key \in Key
           /\ i.key.count \in Nat /\ i.key.since \in Nat /\ i.key.until \in Nat
  BY DEF IInv, TypeOK, Increment, Key

\* A refused submission, and one that was never sent, got no reply.
LEMMA FreshLocals ==
    /\ NoKey \in Key /\ NoKey.count = 0 /\ NoKey.since = 0 /\ NoKey.until = 0
    /\ Unsent \in Sub /\ Unsent.reply = NoKey
    /\ \A stage \in Stage : [Unsent EXCEPT !.pc = stage] \in Sub
  BY AuthConstants DEF NoKey, Key, Sub, Unsent, Stage

\* A step of one submission that leaves clock, counter and history alone keeps
\* the invariant if what it claims of its own stage is true.
LEMMA SubmissionStep ==
    ASSUME IInv, UNCHANGED <<configVars, now, counter, repeated, increments>>,
           NEW r \in Submission, NEW x \in Sub,
           sub' = [sub EXCEPT ![r] = x],
           StageInv(r)',
           x.reply = NoKey \/ x.reply = sub[r].reply
    PROVE  IInv'
<1>1. /\ sub \in [Submission -> Sub]
      /\ now' = now /\ counter' = counter /\ increments' = increments
      /\ repeated' = repeated /\ started' = started
      /\ version' = version /\ config' = config /\ loader' = loader
  BY DEF IInv, TypeOK, Sub, configVars
<1>2. sub' \in [Submission -> Sub] /\ sub'[r] = x /\ \A q \in Submission \ {r} : sub'[q] = sub[q]
  BY <1>1
<1>3. TypeOK'
  BY <1>1, <1>2 DEF IInv, TypeOK, ConfigTypeOK, Sub, Version
<1>4. ConfigInv'
  BY <1>1 DEF IInv, ConfigInv, ConfigTypeOK, TableValue, Version
<1>5. ASSUME NEW q \in Submission PROVE StageInv(q)'
  <2>1. CASE q # r
    BY <2>1, <1>1, <1>2 DEF IInv, StageInv, Counted, Own
  <2>2. QED
    BY <2>1
<1>6. ASSUME NEW q \in Submission, NEW p \in Submission PROVE ReplyInv(q, p)'
  <2>1. \A o \in Submission : sub'[o].reply = NoKey \/ sub'[o].reply = sub[o].reply
    BY <1>2
  <2>2. QED
    BY <2>1, FreshLocals DEF IInv, ReplyInv, Counted
<1>7. /\ \A i \in increments' : IncrementInv(i)'
      /\ \A i, j \in increments' : PairInv(i, j)'
      /\ IsFiniteSet(increments')
  BY <1>1 DEF IInv, IncrementInv, PairInv
<1>8. CounterInv' /\ ChainInv'
  BY <1>1 DEF IInv, CounterInv, ChainInv, Taken
<1>9. QED
  BY <1>3, <1>4, <1>5, <1>6, <1>7, <1>8 DEF IInv

LEMMA TimeWindow_Inv ==
    ASSUME IInv, NEW r \in Submission, NEW s \in Stamp, TimeWindow(r, s)
    PROVE  IInv'
<1> DEFINE x == [Unsent EXCEPT !.pc = "inWindow", !.stamp = s, !.seen = now]
<1>1. s \in Nat /\ now \in Nat /\ MaxWindow \in Nat /\ MaxStall \in Nat
  BY AuthConstants DEF IInv, TypeOK
<1>2. /\ x \in Sub /\ x.pc = "inWindow" /\ x.stamp = s /\ x.seen = now /\ x.reply = NoKey
  <2>1. PICK y \in Sub : y = Unsent /\ y.reply = NoKey
    BY FreshLocals
  <2>2. x = [y EXCEPT !.pc = "inWindow", !.stamp = s, !.seen = now]
    BY <2>1
  <2>3. QED
    BY <1>1, <2>1, <2>2 DEF Sub, Stage
<1>3. /\ UNCHANGED <<configVars, now, counter, repeated, increments>>
      /\ sub' = [sub EXCEPT ![r] = x]
      /\ started /\ sub[r].pc = "unsent"
      /\ Age(s) <= config["window"]
  BY DEF TimeWindow, HeaderParser
<1>4. s <= now + MaxWindow /\ now <= s + MaxWindow
  <2>1. config["window"] \in Nat /\ config["window"] <= MaxWindow
    BY <1>3, ConfigBounds DEF IInv
  <2>2. QED
    BY <2>1, <1>3, <1>1 DEF Age
<1>5. sub'[r] = x
  BY <1>3, SubFields
<1>6. StageInv(r)'
  <2>1. started' = started /\ now' = now
    BY <1>3 DEF configVars
  <2> HIDE DEF x
  <2>2. QED
    BY <1>1, <1>2, <1>3, <1>4, <1>5, <2>1 DEF StageInv
<1> HIDE DEF x
<1>7. QED
  BY <1>2, <1>3, <1>6, SubmissionStep

LEMMA UniqueNonce_Inv ==
    ASSUME IInv, NEW r \in Submission, UniqueNonce(r)
    PROVE  IInv'
<1> DEFINE x == [sub[r] EXCEPT !.pc = "counting", !.ttl = config["ttl"]]
<1>1. sub \in [Submission -> Sub] /\ sub[r] \in Sub
  BY SubFields
<1>2. /\ UNCHANGED <<configVars, now, counter, repeated, increments>>
      /\ sub' = [sub EXCEPT ![r] = x]
      /\ sub[r].pc = "inWindow" /\ started
  BY <1>1 DEF UniqueNonce, IInv, StageInv
<1>3. config["ttl"] \in Nat /\ config["ttl"] >= MinTtl
  BY <1>2, ConfigBounds DEF IInv
<1>4. /\ x \in Sub /\ x.pc = "counting" /\ x.stamp = sub[r].stamp
      /\ x.seen = sub[r].seen /\ x.ttl = config["ttl"] /\ x.reply = sub[r].reply
  BY <1>1, <1>3 DEF Sub, Stage
<1>5. sub'[r] = x
  BY <1>1, <1>2
<1>6. StageInv(r)'
  <2>1. /\ started' = started /\ now' = now /\ StageInv(r)
    BY <1>2 DEF configVars, IInv
  <2> HIDE DEF x
  <2>2. QED
    BY <1>2, <1>3, <1>4, <1>5, <2>1 DEF StageInv
<1> HIDE DEF x
<1>7. QED
  BY <1>2, <1>4, <1>6, SubmissionStep

\* A request that leaves no trace, or is answered with an error, asks nothing.
LEMMA NoLocals ==
    ASSUME IInv, NEW r \in Submission, started' = started, started,
           sub' = [sub EXCEPT ![r] = Unsent] \/ Reject(r)
    PROVE  \E x \in Sub : /\ sub' = [sub EXCEPT ![r] = x]
                          /\ x.reply = NoKey
                          /\ StageInv(r)'
<1>1. PICK stage \in {"unsent", "rejected"} : sub' = [sub EXCEPT ![r] = [Unsent EXCEPT !.pc = stage]]
  <2>1. Unsent = [Unsent EXCEPT !.pc = "unsent"]
    BY DEF Unsent
  <2>2. QED
    BY <2>1 DEF Reject
<1> DEFINE x == [Unsent EXCEPT !.pc = stage]
<1>2. x \in Sub /\ x.pc = stage /\ x.reply = NoKey
  BY FreshLocals DEF Stage, Unsent
<1>3. sub'[r] = x
  BY <1>1, SubFields
<1> HIDE DEF x
<1>4. StageInv(r)'
  BY <1>2, <1>3 DEF StageInv
<1>5. QED
  BY <1>1, <1>2, <1>4 DEF x

LEMMA IncrFails_Inv ==
    ASSUME IInv, NEW r \in Submission, IncrFails(r)
    PROVE  IInv'
<1>1. /\ UNCHANGED <<configVars, now, counter, repeated, increments>>
      /\ sub' = [sub EXCEPT ![r] = Unsent] \/ Reject(r)
      /\ sub[r].pc = "counting"
  BY DEF IncrFails
<1>2. started /\ started' = started
  BY <1>1 DEF IInv, StageInv, configVars
<1>3. QED
  BY <1>1, <1>2, NoLocals, SubmissionStep

LEMMA NonceWindow_Inv ==
    ASSUME IInv, NEW r \in Submission, NonceWindow(r)
    PROVE  IInv'
<1>1. sub \in [Submission -> Sub] /\ sub[r] \in Sub /\ sub[r].reply.count \in Nat
  BY SubFields
<1>2. /\ UNCHANGED <<configVars, now, counter, repeated, increments>>
      /\ sub[r].pc = "counted"
      /\ IF sub[r].reply.count > config["limit"] THEN Proceed(r, "reused") ELSE Authenticator(r)
  BY DEF NonceWindow
<1>3. /\ started /\ started' = started /\ now' = now /\ increments' = increments
      /\ Counted(r) /\ Own(r) \in increments
  BY <1>2 DEF IInv, StageInv, configVars
<1>4. /\ config["limit"] \in Nat /\ config["limit"] >= MinLimit /\ config["limit"] <= MaxLimit
      /\ MinLimit \in Nat /\ MaxLimit \in Nat
  BY <1>3, ConfigBounds, AuthConstants DEF IInv
<1>5. CASE Reject(r)
  BY <1>2, <1>3, <1>5, NoLocals, SubmissionStep
<1>6. CASE ~Reject(r)
  <2>1. PICK stage \in {"reused", "accepted"} :
          /\ Proceed(r, stage)
          /\ stage = "reused" => sub[r].reply.count > MinLimit
          /\ stage = "accepted" => sub[r].reply.count <= MaxLimit
    BY <1>1, <1>2, <1>4, <1>6 DEF Authenticator
  <2> DEFINE x == [sub[r] EXCEPT !.pc = stage]
  <2>2. /\ x \in Sub /\ x.pc = stage /\ x.stamp = sub[r].stamp /\ x.reply = sub[r].reply
        /\ sub' = [sub EXCEPT ![r] = x]
    BY <1>1, <2>1 DEF Sub, Stage, Proceed
  <2>3. sub'[r] = x
    BY <1>1, <2>2
  <2> HIDE DEF x
  <2>4. StageInv(r)'
    BY <1>3, <2>1, <2>2, <2>3 DEF StageInv, Counted, Own
  <2>5. QED
    BY <1>2, <2>2, <2>4, SubmissionStep
<1>7. QED
  BY <1>5, <1>6

LEMMA Tick_Inv ==
    ASSUME IInv, Tick
    PROVE  IInv'
<1>1. /\ now \in 0 .. MaxTime /\ now < MaxTime /\ now' = now + 1 /\ MaxTime \in Nat
      /\ counter' = counter /\ increments' = increments /\ sub' = sub /\ started' = started
      /\ version' = version /\ config' = config /\ loader' = loader /\ repeated' = repeated
  BY AuthConstants DEF Tick, IInv, TypeOK, configVars
<1>2. TypeOK'
  BY <1>1 DEF IInv, TypeOK, ConfigTypeOK, Version
<1>3. ConfigInv'
  BY <1>1 DEF IInv, ConfigInv, ConfigTypeOK, TableValue, Version
<1>4. ASSUME NEW q \in Submission PROVE StageInv(q)'
  <2>1. sub[q].seen \in Nat /\ MaxStall \in Nat
    BY AuthConstants, SubFields
  <2>2. sub[q].pc \in {"inWindow", "counting"} => now < sub[q].seen + MaxStall
    BY DEF Tick
  <2>3. QED
    BY <1>1, <2>1, <2>2 DEF IInv, StageInv, Counted, Own
<1>5. \A q, p \in Submission : ReplyInv(q, p)'
  BY <1>1 DEF IInv, ReplyInv, Counted
<1>6. /\ \A i \in increments' : IncrementInv(i)'
      /\ \A i, j \in increments' : PairInv(i, j)'
      /\ IsFiniteSet(increments')
  BY <1>1 DEF IInv, IncrementInv, PairInv
<1>7. CounterInv' /\ ChainInv'
  <2>1. counter.since \in Nat
    BY DEF IInv, TypeOK, Key
  <2>2. QED
    BY <1>1, <2>1 DEF IInv, CounterInv, ChainInv, Taken
<1>8. QED
  BY <1>2, <1>3, <1>4, <1>5, <1>6, <1>7 DEF IInv

LEMMA Reload_Inv ==
    ASSUME IInv, Reload
    PROVE  IInv'
<1>1. /\ ConfigInv' /\ (started => started')
      /\ now' = now /\ counter' = counter /\ increments' = increments /\ sub' = sub
      /\ repeated' = repeated
  BY ConfigNext_Inv DEF Reload, IInv
<1>2. TypeOK'
  BY <1>1 DEF IInv, TypeOK, ConfigInv
<1>3. \A q \in Submission : StageInv(q)'
  BY <1>1 DEF IInv, StageInv, Counted, Own
<1>4. \A q, p \in Submission : ReplyInv(q, p)'
  BY <1>1 DEF IInv, ReplyInv, Counted
<1>5. /\ \A i \in increments' : IncrementInv(i)'
      /\ \A i, j \in increments' : PairInv(i, j)'
      /\ IsFiniteSet(increments')
  BY <1>1 DEF IInv, IncrementInv, PairInv
<1>6. CounterInv' /\ ChainInv'
  BY <1>1 DEF IInv, CounterInv, ChainInv, Taken
<1>7. QED
  BY <1>1, <1>2, <1>3, <1>4, <1>5, <1>6 DEF IInv

\* What the script does to the key: it adds a place to a life that goes on, or
\* begins a life after the last one.
LEMMA IncrementedKey ==
    ASSUME IInv, NEW ttl \in Nat, ttl >= MinTtl
    PROVE  LET k == Incremented(ttl) IN
           /\ k \in Key /\ k.count >= 1 /\ k.since <= now /\ now < k.until
           /\ k.since + MinTtl <= k.until
           /\ \/ /\ k.since = counter.since /\ k.until = counter.until
                 /\ counter.count >= 1 /\ k.count = counter.count + 1
              \/ /\ k.since = now /\ k.count = 1
                 /\ counter.until <= now
                 /\ counter.count >= 1 => counter.since < now
<1>1. /\ now \in Nat /\ counter \in Key /\ MinTtl \in Nat /\ MinTtl > 0
      /\ counter.count \in Nat /\ counter.since \in Nat /\ counter.until \in Nat
  BY AuthConstants DEF IInv, TypeOK, Key
<1>2. /\ counter.since <= now
      /\ counter.count = 0 => counter.until = 0
      /\ counter.count >= 1 => counter.since + MinTtl <= counter.until
  BY DEF IInv, CounterInv
<1> DEFINE k == Incremented(ttl)
<1>3. CASE Alive
  <2>1. k = [counter EXCEPT !.count = @ + 1]
    BY <1>3 DEF Incremented
  <2>2. /\ k \in Key /\ k.count = counter.count + 1
        /\ k.since = counter.since /\ k.until = counter.until
    BY <2>1, <1>1 DEF Key
  <2>3. now < counter.until /\ counter.count >= 1
    BY <1>3, <1>1, <1>2 DEF Alive
  <2>4. QED
    BY <2>2, <2>3, <1>1, <1>2
<1>4. CASE ~Alive
  <2>1. k = [count |-> 1, since |-> now, until |-> now + ttl]
    BY <1>4 DEF Incremented
  <2>2. k \in Key /\ k.count = 1 /\ k.since = now /\ k.until = now + ttl
    BY <2>1, <1>1 DEF Key
  <2>3. counter.until <= now
    BY <1>4, <1>1 DEF Alive
  <2>4. QED
    BY <2>2, <2>3, <1>1, <1>2
<1>5. QED
  BY <1>3, <1>4

\* The script's run adds one increment after all others of its life, whatever
\* becomes of its reply.
LEMMA RunScript_Inv ==
    ASSUME IInv, NEW r \in Submission, RunScript(r), NEW x \in Sub,
           sub' = [sub EXCEPT ![r] = x], repeated' \in Nat,
           StageInv(r)',
           x.reply = NoKey \/ x.reply = counter'
    PROVE  IInv'
<1>1. /\ sub \in [Submission -> Sub]
      /\ sub[r].ttl \in Nat /\ now \in Nat
      /\ counter.since \in Nat /\ counter.until \in Nat /\ counter.count \in Nat
      /\ MaxWindow \in Nat /\ MaxStall \in Nat /\ MinTtl \in Nat
      /\ sub[r].stamp \in Nat /\ sub[r].seen \in Nat
  BY AuthConstants, SubFields DEF IInv, TypeOK, Key
<1>0. PICK k : k = Incremented(sub[r].ttl)
  OBVIOUS
<1>i. PICK i0 : i0 = [stamp |-> sub[r].stamp, key |-> k]
  OBVIOUS
<1>2. /\ sub[r].pc = "counting"
      /\ counter' = k
      /\ increments' = increments \cup {i0}
      /\ now' = now /\ version' = version /\ config' = config
      /\ loader' = loader /\ started' = started
  BY <1>0, <1>i DEF RunScript, configVars
<1>3. /\ sub[r].ttl >= MinTtl
      /\ now <= sub[r].seen + MaxStall
      /\ sub[r].seen <= sub[r].stamp + MaxWindow
      /\ sub[r].stamp <= sub[r].seen + MaxWindow
      /\ sub[r].seen <= now
  BY <1>2 DEF IInv, StageInv
<1>4. /\ k \in Key /\ k.count >= 1 /\ k.since <= now /\ now < k.until
      /\ k.since + MinTtl <= k.until
      /\ k.count \in Nat /\ k.since \in Nat /\ k.until \in Nat
  BY <1>0, <1>1, <1>3, IncrementedKey DEF Key
<1>5. \/ /\ k.since = counter.since /\ k.until = counter.until
         /\ counter.count >= 1 /\ k.count = counter.count + 1
      \/ /\ k.since = now /\ k.count = 1
         /\ counter.until <= now
         /\ counter.count >= 1 => counter.since < now
  BY <1>0, <1>1, <1>3, IncrementedKey
<1>6. /\ sub' \in [Submission -> Sub] /\ sub'[r] = x
      /\ \A q \in Submission \ {r} : sub'[q] = sub[q]
  BY <1>1
<1>7. i0 \in Increment /\ i0.stamp = sub[r].stamp /\ i0.key = k
  BY <1>1, <1>4, <1>i DEF Increment
<1>8. TypeOK'
  <2>1. increments' \subseteq Increment
    BY <1>2, <1>7 DEF IInv, TypeOK, Increment
  <2>2. QED
    BY <2>1, <1>2, <1>4, <1>6 DEF IInv, TypeOK, ConfigTypeOK, Sub, Version, Increment
<1>9. ConfigInv'
  BY <1>2 DEF IInv, ConfigInv, ConfigTypeOK, TableValue, Version
<1>10. \A q \in Submission : StageInv(q)'
  <2> TAKE q \in Submission
  <2>1. CASE q # r
    BY <2>1, <1>2, <1>6 DEF IInv, StageInv, Counted, Own
  <2>2. QED
    BY <2>1
<1>11. IncrementInv(i0)'
  <2>1. /\ k.since <= sub[r].stamp + MaxWindow + MaxStall
        /\ sub[r].stamp < k.until + MaxWindow
        /\ k.count = 1 => sub[r].stamp <= k.since + MaxWindow
    BY <1>1, <1>3, <1>4, <1>5
  <2>2. QED
    BY <2>1, <1>1, <1>2, <1>4, <1>7 DEF IncrementInv
<1>12. ASSUME NEW i \in increments
       PROVE  /\ i.key.since <= k.since
              /\ i.key.since = k.since => i.key.until = k.until /\ i.key.count < k.count
              /\ i.key.since < k.since => i.key.until <= k.since
              /\ IncrementInv(i)'
  <2>1. i.key.since \in Nat /\ i.key.until \in Nat /\ i.key.count \in Nat
    BY IncrementFields
  <2>2. IncrementInv(i)
    BY DEF IInv
  <2>3. /\ i.key.since <= k.since
        /\ i.key.since = k.since => i.key.until = k.until /\ i.key.count < k.count
        /\ i.key.since < k.since => i.key.until <= k.since
    BY <1>1, <1>4, <1>5, <2>1, <2>2 DEF IncrementInv
  <2>4. QED
    BY <1>2, <1>4, <2>1, <2>2, <2>3 DEF IncrementInv
<1>13. \A q, p \in Submission : ReplyInv(q, p)'
  <2> SUFFICES ASSUME NEW q \in Submission, NEW p \in Submission, Counted(q)', Counted(p)',
                      q # p, sub'[q].reply.since = sub'[p].reply.since
               PROVE  sub'[q].reply.count # sub'[p].reply.count
    BY DEF ReplyInv
  <2>1. ASSUME NEW o \in Submission \ {r}, Counted(o)', sub'[o].reply.since = k.since
        PROVE  sub'[o].reply.count # k.count
    <3>1. sub'[o] = sub[o] /\ Counted(o)
      BY <1>6, <2>1 DEF Counted
    <3>2. Own(o) \in increments
      BY <3>1, SubFields, FreshLocals DEF IInv, StageInv, Counted, Stage
    <3>3. Own(o).key = sub[o].reply
      BY DEF Own
    <3>4. Own(o).key.count < k.count /\ Own(o).key.count \in Nat
      BY <1>12, <2>1, <3>1, <3>2, <3>3, IncrementFields
    <3>5. QED
      BY <1>4, <3>1, <3>3, <3>4
  <2>2. Counted(r)' => sub'[r].reply = k
    BY <1>2, <1>6, FreshLocals DEF Counted
  <2>3. CASE q = r \/ p = r
    BY <2>1, <2>2, <2>3
  <2>4. CASE q # r /\ p # r
    BY <1>6, <2>4 DEF IInv, ReplyInv, Counted
  <2>5. QED
    BY <2>3, <2>4
<1>14. \A i \in increments' : IncrementInv(i)'
  BY <1>2, <1>11, <1>12
<1>15. \A i, j \in increments' : PairInv(i, j)'
  <2> TAKE i, j \in increments'
  <2>1. CASE i = i0
    <3>1. ~(k.since < j.key.since)
      BY <1>2, <1>4, <1>7, <1>12, <2>1, IncrementFields
    <3>2. QED
      BY <1>7, <2>1, <3>1 DEF PairInv
  <2>2. CASE i # i0 /\ j = i0
    BY <1>2, <1>7, <1>12, <2>2 DEF PairInv
  <2>3. CASE i # i0 /\ j # i0
    BY <1>2, <2>3 DEF IInv, PairInv
  <2>4. QED
    BY <2>1, <2>2, <2>3
<1>16. IsFiniteSet(increments')
  BY <1>2, FS_AddElement DEF IInv
<1>17. \A since, n : Taken(since, n) => Taken(since, n)'
  BY <1>2 DEF Taken
<1>18. ASSUME NEW n \in 1 .. k.count PROVE Taken(k.since, n)'
  <2>1. CASE n = k.count
    BY <2>1, <1>2, <1>7 DEF Taken
  <2>2. CASE n # k.count
    <3>1. n \in 1 .. counter.count /\ k.since = counter.since
      BY <2>2, <1>1, <1>4, <1>5
    <3>2. QED
      BY <3>1, <1>17 DEF IInv, CounterInv
  <2>3. QED
    BY <2>1, <2>2
<1>19. CounterInv'
  BY <1>2, <1>4, <1>18 DEF CounterInv, Taken
<1>20. ChainInv'
  <2> SUFFICES ASSUME NEW i \in increments', NEW n \in 1 .. i.key.count
               PROVE  Taken(i.key.since, n)'
    BY DEF ChainInv, Taken
  <2>1. CASE i = i0
    BY <2>1, <1>7, <1>18
  <2>2. CASE i # i0
    BY <2>2, <1>2, <1>17 DEF IInv, ChainInv
  <2>3. QED
    BY <2>1, <2>2
<1>21. QED
  BY <1>8, <1>9, <1>10, <1>13, <1>14, <1>15, <1>16, <1>19, <1>20 DEF IInv

LEMMA IncrAndExpire_Inv ==
    ASSUME IInv, NEW r \in Submission, IncrAndExpire(r)
    PROVE  IInv'
<1> DEFINE x == [Unsent EXCEPT !.pc = "counted", !.stamp = sub[r].stamp, !.reply = counter']
<1>1. /\ RunScript(r) /\ sub' = [sub EXCEPT ![r] = x] /\ repeated' = repeated
      /\ sub[r].pc = "counting" /\ started /\ started' = started
      /\ counter' = Incremented(sub[r].ttl)
      /\ [stamp |-> sub[r].stamp, key |-> counter'] \in increments'
  BY DEF IncrAndExpire, RunScript, IInv, StageInv, configVars
<1>2. counter' \in Key /\ counter'.count >= 1
  BY <1>1, SubFields, IncrementedKey DEF IInv, StageInv
<1>3. /\ x \in Sub /\ x.pc = "counted" /\ x.stamp = sub[r].stamp /\ x.reply = counter'
  <2>1. PICK y \in Sub : y = Unsent
    BY FreshLocals
  <2>2. x = [y EXCEPT !.pc = "counted", !.stamp = sub[r].stamp, !.reply = counter']
    BY <2>1
  <2>3. QED
    BY <1>2, <2>1, <2>2, SubFields DEF Sub, Stage
<1>4. sub'[r] = x
  BY <1>1, SubFields
<1> HIDE DEF x
<1>5. StageInv(r)'
  BY <1>1, <1>2, <1>3, <1>4 DEF StageInv, Counted, Own
<1>6. repeated' \in Nat
  BY <1>1 DEF IInv, TypeOK
<1>7. QED
  BY <1>1, <1>3, <1>5, <1>6, RunScript_Inv

LEMMA ReplyLost_Inv ==
    ASSUME IInv, NEW r \in Submission, ReplyLost(r)
    PROVE  IInv'
<1>1. /\ RunScript(r) /\ sub[r].pc = "counting" /\ started /\ started' = started /\ now' = now
      /\ repeated \in Nat /\ StageInv(r)
  BY DEF ReplyLost, RunScript, IInv, StageInv, configVars, TypeOK
<1>2. CASE Reject(r) /\ repeated' = repeated
  <2>1. PICK x \in Sub : /\ sub' = [sub EXCEPT ![r] = x]
                         /\ x.reply = NoKey
                         /\ StageInv(r)'
    BY <1>1, <1>2, NoLocals
  <2>2. QED
    BY <1>1, <1>2, <2>1, RunScript_Inv
<1>3. CASE /\ sub[r].resent < MaxRetries
           /\ repeated' = repeated + 1
           /\ sub' = [sub EXCEPT ![r].resent = @ + 1]
  <2> DEFINE x == [sub[r] EXCEPT !.resent = @ + 1]
  <2>1. sub' = [sub EXCEPT ![r] = x]
    BY <1>3
  <2>2. sub[r].resent + 1 \in 0 .. MaxRetries
    BY <1>3, SubFields, AuthConstants
  <2>3. /\ x \in Sub /\ x.pc = sub[r].pc /\ x.stamp = sub[r].stamp /\ x.seen = sub[r].seen
        /\ x.ttl = sub[r].ttl /\ x.reply = sub[r].reply
    BY <2>2, SubFields DEF Sub
  <2>4. sub'[r] = x
    BY <2>1, SubFields
  <2> HIDE DEF x
  <2>5. StageInv(r)' /\ x.reply = NoKey
    BY <1>1, <2>3, <2>4 DEF StageInv
  <2>6. repeated' \in Nat
    BY <1>1, <1>3
  <2>7. QED
    BY <1>1, <2>1, <2>3, <2>5, <2>6, RunScript_Inv
<1>4. QED
  BY <1>2, <1>3 DEF ReplyLost

-----------------------------------------------------------------------------
LEMMA Init_Inv == Init => IInv
<1> SUFFICES ASSUME Init PROVE IInv
  OBVIOUS
<1>1. ConfigInv /\ started = FALSE
  BY ConfigInit_Inv DEF Init, ConfigInit
<1>2. Unsent \in Sub /\ Unsent.pc = "unsent" /\ Unsent.reply = NoKey
  <2>1. Unsent = [Unsent EXCEPT !.pc = "unsent"]
    BY DEF Unsent
  <2>2. QED
    BY <2>1, FreshLocals DEF Stage, Unsent
<1>3. /\ now = 0 /\ counter = NoKey /\ increments = {} /\ repeated = 0
      /\ \A r \in Submission : sub[r] = Unsent
      /\ sub \in [Submission -> Sub]
  BY <1>2 DEF Init
<1>4. TypeOK
  BY <1>1, <1>3, FreshLocals, AuthConstants DEF TypeOK, ConfigInv, Sub
<1>5. \A r \in Submission : ~Counted(r) /\ StageInv(r)
  BY <1>2, <1>3, FreshLocals DEF StageInv, Counted
<1>6. CounterInv
  BY <1>3, FreshLocals DEF CounterInv
<1>7. IsFiniteSet(increments)
  BY <1>3, FS_EmptySet
<1>8. QED
  BY <1>1, <1>3, <1>4, <1>5, <1>6, <1>7 DEF IInv, ReplyInv, ChainInv

LEMMA Step_Inv == IInv /\ [Next]_vars => IInv'
<1> SUFFICES ASSUME IInv, [Next]_vars PROVE IInv'
  OBVIOUS
<1>1. ASSUME NEW r \in Submission, Handle(r) PROVE IInv'
  BY <1>1, TimeWindow_Inv, UniqueNonce_Inv, IncrAndExpire_Inv, ReplyLost_Inv,
     IncrFails_Inv, NonceWindow_Inv DEF Handle
<1>2. CASE UNCHANGED vars
  <2>1. /\ now' = now /\ counter' = counter /\ increments' = increments /\ sub' = sub
        /\ version' = version /\ config' = config /\ loader' = loader /\ started' = started
        /\ repeated' = repeated
    BY <1>2 DEF vars, configVars
  <2>2. TypeOK' /\ ConfigInv'
    BY <2>1 DEF IInv, TypeOK, ConfigInv, ConfigTypeOK, TableValue, Version
  <2>3. \A q \in Submission : StageInv(q)'
    BY <2>1 DEF IInv, StageInv, Counted, Own
  <2>4. \A q, p \in Submission : ReplyInv(q, p)'
    BY <2>1 DEF IInv, ReplyInv, Counted
  <2>5. /\ \A i \in increments' : IncrementInv(i)'
        /\ \A i, j \in increments' : PairInv(i, j)'
        /\ IsFiniteSet(increments')
    BY <2>1 DEF IInv, IncrementInv, PairInv
  <2>6. CounterInv' /\ ChainInv'
    BY <2>1 DEF IInv, CounterInv, ChainInv, Taken
  <2>7. QED
    BY <2>2, <2>3, <2>4, <2>5, <2>6 DEF IInv
<1>3. QED
  BY <1>1, <1>2, Tick_Inv, Reload_Inv DEF Next

LEMMA Invariance == Spec => []IInv
<1>1. QED
  BY Init_Inv, Step_Inv, PTL DEF Spec

-----------------------------------------------------------------------------
\* A set of submissions whose members have distinct numbers from 1 to n has at
\* most n members.
LEMMA NumberedSet ==
    ASSUME NEW S, NEW n \in Nat, NEW f \in [S -> 1 .. n],
           \A x, y \in S : x # y => f[x] # f[y]
    PROVE  Cardinality(S) <= n
<1>1. IsFiniteSet(1 .. n) /\ Cardinality(1 .. n) = n
  BY FS_Interval
<1>2. f \in Injection(S, 1 .. n)
  BY DEF Injection, IsInjective
<1>3. QED
  BY <1>1, <1>2, FS_Injection

\* An increment that began a life of the counter is not followed into the next
\* life by one of the same stamp.
LEMMA FirstPlace ==
    ASSUME IInv, NEW p \in increments, NEW q \in increments,
           p.stamp = q.stamp, p.key.count = 1
    PROVE  ~(p.key.since < q.key.since)
<1>1. /\ p.key.since \in Nat /\ p.key.until \in Nat
      /\ q.key.since \in Nat /\ p.stamp \in Nat
      /\ MaxWindow \in Nat /\ MaxStall \in Nat /\ MinTtl \in Nat
      /\ MinTtl > 2 * MaxWindow + MaxStall
  BY AuthConstants, IncrementFields
<1>2. /\ p.stamp <= p.key.since + MaxWindow
      /\ p.key.since + MinTtl <= p.key.until
      /\ q.key.since <= q.stamp + MaxWindow + MaxStall
  BY DEF IInv, IncrementInv
<1>3. p.key.since < q.key.since => p.key.until <= q.key.since
  BY DEF IInv, PairInv
<1>4. QED
  BY <1>1, <1>2, <1>3

\* The increments of one stamp fall in at most two lives.
LEMMA TwoLives ==
    ASSUME IInv, NEW a \in increments, NEW b \in increments, NEW c \in increments,
           a.stamp = c.stamp
    PROVE  ~(a.key.since < b.key.since /\ b.key.since < c.key.since)
<1>1. /\ a.key.since \in Nat /\ a.key.until \in Nat
      /\ b.key.since \in Nat /\ b.key.until \in Nat
      /\ c.key.since \in Nat /\ a.stamp \in Nat
      /\ MaxWindow \in Nat /\ MaxStall \in Nat /\ MinTtl \in Nat
      /\ MinTtl > 2 * MaxWindow + MaxStall
  BY AuthConstants, IncrementFields
<1>2. /\ a.stamp < a.key.until + MaxWindow
      /\ b.key.since + MinTtl <= b.key.until
      /\ c.key.since <= c.stamp + MaxWindow + MaxStall
  BY DEF IInv, IncrementInv
<1>3. /\ a.key.since < b.key.since => a.key.until <= b.key.since
      /\ b.key.since < c.key.since => b.key.until <= c.key.since
  BY DEF IInv, PairInv
<1>4. QED
  BY <1>1, <1>2, <1>3

\* What is known of a submission that was answered by UniqueNonce or passed it.
LEMMA ReplyTypes ==
    ASSUME IInv, NEW r \in Submission, sub[r].pc \in {"accepted", "reused"}
    PROVE  /\ sub[r].reply.since \in Nat /\ sub[r].reply.count \in Nat
           /\ Counted(r) /\ Own(r) \in increments
           /\ Own(r).stamp = sub[r].stamp /\ Own(r).key = sub[r].reply
           /\ sub[r].pc = "accepted" => sub[r].reply.count <= MaxLimit
           /\ sub[r].pc = "reused" => sub[r].reply.count > MinLimit
<1>1. StageInv(r)
  BY DEF IInv
<1>2. QED
  BY <1>1, SubFields DEF StageInv, Own

LEMMA IInv_Fresh ==
    ASSUME IInv PROVE FreshNonceIsLimited
<1> SUFFICES ASSUME NEW s \in Stamp, \A i \in increments : i.stamp = s
             PROVE  Cardinality(Accepted(s)) <= MaxLimit
  BY DEF FreshNonceIsLimited
<1> DEFINE f == [r \in Accepted(s) |-> sub[r].reply.count]
<1>1. ASSUME NEW r \in Accepted(s)
      PROVE  /\ r \in Submission /\ Counted(r) /\ Own(r) \in increments
             /\ Own(r).key = sub[r].reply /\ sub[r].reply.since \in Nat
             /\ sub[r].reply.count \in 1 .. MaxLimit
  BY ReplyTypes, AuthConstants DEF Accepted, Counted
<1>2. ASSUME NEW q \in Accepted(s), NEW r \in Accepted(s)
      PROVE  ~(sub[q].reply.since < sub[r].reply.since)
  <2>1. Taken(sub[q].reply.since, 1)
    BY <1>1 DEF IInv, ChainInv
  <2>2. PICK p \in increments : p.key.since = sub[q].reply.since /\ p.key.count = 1
    BY <2>1 DEF Taken
  <2>3. QED
    BY <2>2, <1>1, FirstPlace
<1>3. ASSUME NEW q \in Accepted(s), NEW r \in Accepted(s), q # r
      PROVE  f[q] # f[r]
  <2>1. sub[q].reply.since = sub[r].reply.since
    BY <1>1, <1>2
  <2>2. ReplyInv(q, r)
    BY <1>1 DEF IInv
  <2>3. QED
    BY <2>1, <2>2, <1>1, <1>3 DEF ReplyInv
<1>4. f \in [Accepted(s) -> 1 .. MaxLimit] /\ MaxLimit \in Nat
  BY <1>1, AuthConstants
<1> HIDE DEF f
<1>5. QED
  BY <1>3, <1>4, NumberedSet

LEMMA IInv_Reused ==
    ASSUME IInv PROVE ReusedNonceIsLimited
<1> SUFFICES ASSUME NEW s \in Stamp
             PROVE  Cardinality(Accepted(s)) <= 2 * MaxLimit - 1
  BY DEF ReusedNonceIsLimited
<1> DEFINE InLastLife(r) == \A q \in Accepted(s) : sub[q].reply.since <= sub[r].reply.since
           f == [r \in Accepted(s) |->
                   IF InLastLife(r) THEN sub[r].reply.count ELSE MaxLimit + sub[r].reply.count - 1]
<1>0. MaxLimit \in Nat /\ MaxLimit # 0
  BY AuthConstants
<1>1. ASSUME NEW r \in Accepted(s)
      PROVE  /\ r \in Submission /\ Counted(r) /\ sub[r].reply.since \in Nat
             /\ Own(r) \in increments /\ Own(r).key = sub[r].reply /\ Own(r).stamp = s
             /\ sub[r].reply.count \in 1 .. MaxLimit
  BY <1>0, ReplyTypes DEF Accepted, Counted
<1>2. ASSUME NEW r \in Accepted(s), ~InLastLife(r)
      PROVE  sub[r].reply.count \in 2 .. MaxLimit
  <2>1. PICK q \in Accepted(s) : ~(sub[q].reply.since <= sub[r].reply.since)
    BY <1>2
  <2>2. sub[r].reply.since < sub[q].reply.since
    BY <2>1, <1>1
  <2>3. sub[r].reply.count # 1
    <3>1. Own(r).key.count # 1
      BY <2>2, <1>1, FirstPlace
    <3>2. QED
      BY <3>1, <1>1
  <2>4. QED
    BY <2>3, <1>1, <1>0
<1>3. ASSUME NEW q \in Accepted(s), NEW r \in Accepted(s), InLastLife(q) <=> InLastLife(r)
      PROVE  sub[q].reply.since = sub[r].reply.since
  <2>1. CASE InLastLife(q) /\ InLastLife(r)
    <3>1. sub[q].reply.since <= sub[r].reply.since /\ sub[r].reply.since <= sub[q].reply.since
      BY <2>1
    <3>2. QED
      BY <3>1, <1>1
  <2>2. CASE ~InLastLife(q) /\ ~InLastLife(r)
    <3>1. PICK x \in Accepted(s) : ~(sub[x].reply.since <= sub[q].reply.since)
      BY <2>2
    <3>2. PICK y \in Accepted(s) : ~(sub[y].reply.since <= sub[r].reply.since)
      BY <2>2
    <3>3. ~(sub[q].reply.since < sub[r].reply.since /\ sub[r].reply.since < sub[y].reply.since)
      BY <1>1, TwoLives
    <3>4. ~(sub[r].reply.since < sub[q].reply.since /\ sub[q].reply.since < sub[x].reply.since)
      BY <1>1, TwoLives
    <3>5. /\ sub[q].reply.since \in Nat /\ sub[r].reply.since \in Nat
          /\ sub[x].reply.since \in Nat /\ sub[y].reply.since \in Nat
      BY <1>1
    <3>6. QED
      BY <3>1, <3>2, <3>3, <3>4, <3>5
  <2>3. QED
    BY <2>1, <2>2, <1>3
<1>4. ASSUME NEW q \in Accepted(s), NEW r \in Accepted(s), q # r
      PROVE  f[q] # f[r]
  <2>1. CASE InLastLife(q) <=> InLastLife(r)
    <3>1. sub[q].reply.count # sub[r].reply.count
      BY <1>1, <1>3, <1>4, <2>1 DEF IInv, ReplyInv
    <3>2. sub[q].reply.count \in Nat /\ sub[r].reply.count \in Nat
      BY <1>1
    <3>3. QED
      BY <3>1, <3>2, <2>1, <1>0
  <2>2. CASE InLastLife(q) /\ ~InLastLife(r)
    BY <2>2, <1>0, <1>1, <1>2
  <2>3. CASE ~InLastLife(q) /\ InLastLife(r)
    BY <2>3, <1>0, <1>1, <1>2
  <2>4. QED
    BY <2>1, <2>2, <2>3
<1>5. f \in [Accepted(s) -> 1 .. (2 * MaxLimit - 1)]
  BY <1>0, <1>1, <1>2
<1>6. 2 * MaxLimit - 1 \in Nat
  BY <1>0
<1> HIDE DEF f
<1>7. QED
  BY <1>4, <1>5, <1>6, NumberedSet

LEMMA IInv_Refused ==
    ASSUME IInv PROVE RefusedOnlyBeyondLimit
<1> SUFFICES ASSUME NEW r \in Submission, sub[r].pc = "reused"
             PROVE  Cardinality(Before(r)) >= MinLimit
  BY DEF RefusedOnlyBeyondLimit
<1> DEFINE Q == Before(r)
           place(k) == CHOOSE i \in increments : i.key.since = sub[r].reply.since /\ i.key.count = k
           g == [k \in 1 .. MinLimit |-> place(k)]
<1>0. /\ MinLimit \in Nat /\ sub[r].reply.count \in Nat /\ sub[r].reply.count > MinLimit
      /\ Own(r) \in increments /\ Own(r).key = sub[r].reply
  BY ReplyTypes, AuthConstants
<1>1. ASSUME NEW k \in 1 .. MinLimit
      PROVE  place(k) \in Q /\ place(k).key.count = k
  <2>1. k \in 1 .. sub[r].reply.count /\ k < sub[r].reply.count
    BY <1>0
  <2>2. Taken(sub[r].reply.since, k)
    BY <1>0, <2>1 DEF IInv, ChainInv
  <2>3. /\ place(k) \in increments /\ place(k).key.since = sub[r].reply.since
        /\ place(k).key.count = k
    BY <2>2 DEF Taken
  <2>4. QED
    BY <2>1, <2>3 DEF Before
<1>2. g \in Injection(1 .. MinLimit, Q)
  <2> HIDE DEF place, Q
  <2>1. g \in [1 .. MinLimit -> Q]
    BY <1>1
  <2>2. \A x, y \in 1 .. MinLimit : g[x] = g[y] => x = y
    BY <1>1
  <2>3. QED
    BY <2>1, <2>2 DEF Injection, IsInjective
<1>3. IsFiniteSet(Q)
  BY FS_Subset DEF IInv, Before
<1>4. Cardinality(1 .. MinLimit) = MinLimit
  BY <1>0, FS_Interval
<1>5. Cardinality(1 .. MinLimit) <= Cardinality(Q)
  <2> HIDE DEF g, Q
  <2>1. QED
    BY <1>2, <1>3, FS_Injection
<1>6. Cardinality(Q) \in Nat
  BY <1>3, FS_CardinalityType
<1>7. QED
  BY <1>0, <1>4, <1>5, <1>6

-----------------------------------------------------------------------------
\* The types of the composition are kept by every step.
THEOREM AuthTypes == Spec => []TypeOK
<1>1. IInv => TypeOK
  BY DEF IInv
<1>2. QED
  BY <1>1, Invariance, PTL

\* Requests never read a field that is neither of the table's versions, however
\* the copies of main and of the handler overlap.
THEOREM LiveFieldsComeFromTheTable == Spec => []FieldsComeFromTheTable
<1>1. IInv => FieldsComeFromTheTable
  BY DEF IInv, ConfigInv, TableValue, FieldsComeFromTheTable
<1>2. QED
  BY <1>1, Invariance, PTL

\* A signed request whose nonce nobody else used is accepted at most
\* nonce-window times, for any window, life and limit with
\* MinTtl > 2 * MaxWindow + MaxStall.
THEOREM FreshNonceLimited == Spec => []FreshNonceIsLimited
<1>1. QED
  BY IInv_Fresh, Invariance, PTL

\* Any signed request is accepted less than twice that often.
THEOREM ReusedNonceLimited == Spec => []ReusedNonceIsLimited
<1>1. QED
  BY IInv_Reused, Invariance, PTL

\* Nobody is refused before nonce-window increments were made in the same life,
\* the repetitions of calls whose reply was lost among them.
THEOREM RefusalsAreJustified == Spec => []RefusedOnlyBeyondLimit
<1>1. QED
  BY IInv_Refused, Invariance, PTL
=============================================================================
