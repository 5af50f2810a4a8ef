--------------------------- MODULE CommandProofs ---------------------------
(***************************************************************************)
(* Lemmas about the operators of Commands: what each handler leaves of a   *)
(* well-formed store.  A handler is a composition of calls, so the lemma   *)
(* of a handler is the chain of the lemmas of its calls in StoreProofs.    *)
(***************************************************************************)
EXTENDS StoreProofs

\* The fields of a command, by its name.
LEMMA CommandFields ==
  ASSUME NEW c \in Command
  PROVE  /\ c.cmd \in {"GET", "INCRBY", "RPUSH", "LPOP", "GETDEL", "PERSIST", "DEL",
                       "MSET", "SET", "PEXPIREAT", "RESTORE", "FLUSHALL", "KEYS"}
         /\ c.cmd \in {"DEL", "MSET"} => c.keys \in SUBSET Keys
         /\ c.cmd \notin {"DEL", "MSET", "FLUSHALL", "KEYS"} => c.key \in Keys
         /\ c.cmd \in {"MSET", "SET", "RESTORE"} => c.n \in Nat
         /\ c.cmd \in {"SET", "PEXPIREAT", "RESTORE"} => c.at \in Nat
         /\ c.cmd = "SET" => c.keep_ttl \in BOOLEAN
         /\ c.cmd = "RESTORE" => c.kind \in Kinds /\ [c EXCEPT !.replace = TRUE] \in Command
<1>1. CASE c \in [cmd : {"GET", "INCRBY", "RPUSH", "LPOP", "GETDEL", "PERSIST"}, key : Keys]
  BY <1>1
<1>2. CASE c \in [cmd : {"DEL"}, keys : SUBSET Keys]
  BY <1>2
<1>3. CASE c \in [cmd : {"MSET"}, keys : SUBSET Keys, n : Nat]
  BY <1>3
<1>4. CASE c \in [cmd : {"SET"}, key : Keys, n : Nat, cond : {"any", "NX", "XX"},
                  keep_ttl : BOOLEAN, at : Nat]
  BY <1>4
<1>5. CASE c \in [cmd : {"PEXPIREAT"}, key : Keys, at : Nat]
  BY <1>5
<1>6. CASE c \in {r \in [cmd : {"RESTORE"}, key : Keys, kind : Kinds, n : Nat, at : Nat,
                         replace : BOOLEAN] : r.kind = "list" => r.n > 0}
  <2> DEFINE e == [c EXCEPT !.replace = TRUE]
  <2>1. e \in [cmd : {"RESTORE"}, key : Keys, kind : Kinds, n : Nat, at : Nat,
               replace : BOOLEAN]
    BY <1>6
  <2>2. e.kind = "list" => e.n > 0
    BY <1>6
  <2>3. e \in Command
    BY <2>1, <2>2 DEF Command
  <2> QED BY <1>6, <2>3
<1>7. CASE c \in [cmd : {"FLUSHALL", "KEYS"}]
  BY <1>7
<1> QED BY <1>1, <1>2, <1>3, <1>4, <1>5, <1>6, <1>7 DEF Command

\* The keys a command names are keys.
LEMMA NamedKeysType ==
  ASSUME NEW c \in Command
  PROVE  /\ NamedKeys(c) \in SUBSET Keys
         /\ c.cmd \in {"DEL", "MSET"} => NamedKeys(c) = c.keys
         /\ c.cmd \in {"FLUSHALL", "KEYS"} => NamedKeys(c) = {}
         /\ c.cmd \notin {"DEL", "MSET", "FLUSHALL", "KEYS"} => NamedKeys(c) = {c.key}
BY CommandFields DEF NamedKeys

\* A value's kind, number and deadline are of their types.
LEMMA EntryType ==
  ASSUME NEW s, NEW x, NEW J, Good(s, x, J), NEW k \in Keys
  PROVE  s.data[k] \in Slot /\ s.data[k].n \in Nat /\ s.data[k].expires_at \in Nat
<1>1. s.data[k] \in Slot
  BY DEF Good, StoreType, Stores
<1> QED BY <1>1 DEF Slot

\* DEL: the expired keys are dropped on the way, the live ones logged together.
LEMMA DelGood ==
  ASSUME NEW s, NEW x, x.start \in [Keys -> Slot], NEW J \in SUBSET Keys, NEW c,
         Good(s, x, J), c.keys \in SUBSET Keys
  PROVE  Good(DelCommand(s, c), x, J)
<1> DEFINE D == {k \in c.keys : Present(s, k)}
           m == RemoveKeys(s, D)
           e == [cmd |-> "DEL", keys |-> D]
<1>1. DelCommand(s, c) = IF D = {} THEN s ELSE Propagate(m, e)
  BY DEF DelCommand
<1>2. D \in SUBSET Keys
  OBVIOUS
<1> HIDE DEF D
<1>3. Good(m, x, J) /\ e \in Command
  BY <1>2, RemoveGood, DelIsCommand
<1> HIDE DEF m, e
<1>4. Good(Propagate(m, e), x, J)
  BY <1>3, PropagateGood
<1> QED BY <1>1, <1>4

\* SET, with its two records when it carries a deadline.
LEMMA SetGood ==
  ASSUME NEW s, NEW x, x.start \in [Keys -> Slot], NEW J \in SUBSET Keys,
         NEW c \in Command, c.cmd = "SET", c.key \in J, NEW t, Good(s, x, J)
  PROVE  Good(SetCommand(s, c, t), x, J)
<1> DEFINE v == IF c.keep_ttl THEN SetKeepTtl(s, {c.key}, "string", c.n, t)
                              ELSE SetValue(s, {c.key}, "string", c.n)
           e == [cmd |-> "SET", key |-> c.key, n |-> c.n, cond |-> "any",
                 keep_ttl |-> c.keep_ttl, at |-> NoTTL]
           set == Propagate(v, e)
           f == [cmd |-> "PEXPIREAT", key |-> c.key, at |-> c.at]
           m == SetExpiry(set, c.key, c.at)
<1>1. /\ c.key \in Keys /\ c.n \in Nat /\ c.at \in Nat /\ c.keep_ttl \in BOOLEAN
      /\ {c.key} \in SUBSET Keys /\ {c.key} \in SUBSET J /\ "string" \in Kinds
  BY CommandFields DEF Kinds
<1>2. SetCommand(s, c, t) \in {s, set, Propagate(m, f)}
  BY DEF SetCommand
<1>3. Good(v, x, J) /\ Present(v, c.key)
  <2>1. CASE c.keep_ttl
    BY <1>1, <2>1, SetKeepGood
  <2>2. CASE ~c.keep_ttl
    BY <1>1, <2>2, SetOneGood
  <2> QED BY <1>1, <2>1, <2>2
<1> HIDE DEF v
<1>4. e \in Command /\ f \in Command
  BY <1>1 DEF Command, NoTTL
<1> HIDE DEF e, f
<1>5. Good(set, x, J) /\ KeysOf(set) = KeysOf(v)
  BY <1>3, <1>4, PropagateGood
<1> HIDE DEF set
<1>6. Present(set, c.key)
  BY <1>1, <1>3, <1>5 DEF KeysOf
<1>7. Good(m, x, J)
  BY <1>1, <1>5, <1>6, SetExpiryGood
<1> HIDE DEF m
<1>8. Good(Propagate(m, f), x, J)
  BY <1>4, <1>7, PropagateGood
<1> QED BY <1>2, <1>5, <1>8

\* MSET overwrites its keys.
LEMMA MSetGood ==
  ASSUME NEW s, NEW x, x.start \in [Keys -> Slot], NEW J \in SUBSET Keys,
         NEW c \in Command, c.cmd = "MSET", c.keys \in SUBSET J, Good(s, x, J)
  PROVE  Good(MSetCommand(s, c), x, J)
<1> DEFINE v == SetValue(s, c.keys, "string", c.n)
<1>1. c.n \in Nat /\ "string" \in Kinds
  BY CommandFields DEF Kinds
<1>2. Good(v, x, J)
  BY <1>1, SetGoodKeys
<1>3. MSetCommand(s, c) = Propagate(v, c)
  BY DEF MSetCommand
<1> HIDE DEF v
<1> QED BY <1>2, <1>3, PropagateGood

\* INCRBY derives the new string from the old one and keeps its deadline.
LEMMA IncrByGood ==
  ASSUME NEW s, NEW x, x.start \in [Keys -> Slot], NEW J \in SUBSET Keys,
         NEW c \in Command, c.key \in J, NEW t, Good(s, x, J)
  PROVE  Good(IncrByCommand(s, c, t), x, J)
<1> DEFINE n == s.data[c.key].n + 1
           v == SetKeepTtl(s, {c.key}, "string", n, t)
<1>1. IncrByCommand(s, c, t) = Propagate(v, c)
  BY DEF IncrByCommand
<1>2. {c.key} \in SUBSET Keys /\ c.key \in Keys /\ "string" \in Kinds
  BY DEF Kinds
<1>3. n \in Nat
  BY <1>2, EntryType
<1> HIDE DEF n
<1>4. Good(v, x, J)
  BY <1>2, <1>3, SetKeepGood
<1> HIDE DEF v
<1> QED BY <1>1, <1>4, PropagateGood

\* RPUSH creates the list or adds to it in place.
LEMMA PushGood ==
  ASSUME NEW s, NEW x, x.start \in [Keys -> Slot], NEW J \in SUBSET Keys,
         NEW c \in Command, c.key \in J, Good(s, x, J)
  PROVE  Good(PushCommand(s, c), x, J)
<1> DEFINE target == IF Present(s, c.key) THEN s
                     ELSE SetValue(s, {c.key}, "list", 0)
           n == target.data[c.key].n + 1
           m == Mutate(target, c.key, n)
<1>1. PushCommand(s, c) = Propagate(m, c)
  BY DEF PushCommand
<1>2. {c.key} \in SUBSET Keys /\ {c.key} \in SUBSET J /\ c.key \in Keys /\ "list" \in Kinds
      /\ 0 \in Nat
  BY DEF Kinds
<1>3. Good(target, x, J) /\ Present(target, c.key)
  <2>1. CASE Present(s, c.key)
    BY <2>1
  <2>2. CASE ~Present(s, c.key)
    BY <1>2, <2>2, SetOneGood
  <2> QED BY <2>1, <2>2
<1> HIDE DEF target
<1>4. n \in Nat
  BY <1>2, <1>3, EntryType
<1> HIDE DEF n
<1>5. Good(m, x, J)
  BY <1>2, <1>3, <1>4, MutateGood
<1> HIDE DEF m
<1> QED BY <1>1, <1>5, PropagateGood

\* LPOP takes from a list, which is never empty before it.
LEMMA PopGood ==
  ASSUME NEW s, NEW x, x.start \in [Keys -> Slot], NEW J \in SUBSET Keys,
         NEW c \in Command, c.key \in J, Good(s, x, {}), Good(s, x, J),
         Present(s, c.key) => s.data[c.key].kind = "list"
  PROVE  Good(PopCommand(s, c), x, J)
<1> DEFINE n == s.data[c.key].n - 1
           m == Mutate(s, c.key, n)
<1>1. PopCommand(s, c) = IF ~Present(s, c.key) THEN s ELSE Propagate(m, c)
  BY DEF PopCommand
<1>2. CASE ~Present(s, c.key)
  BY <1>1, <1>2
<1>3. CASE Present(s, c.key)
  <2>1. s.data[c.key].n \in Nat /\ s.data[c.key].n > 0
    BY <1>3, EntryType DEF Good, Sized
  <2>2. n \in Nat
    BY <2>1
  <2> HIDE DEF n
  <2>3. Good(m, x, J)
    BY <1>3, <2>2, MutateGood
  <2> HIDE DEF m
  <2>4. Good(Propagate(m, c), x, J)
    BY <2>3, PropagateGood
  <2> QED BY <1>1, <1>3, <2>4
<1> QED BY <1>2, <1>3

\* PEXPIREAT sets the deadline, or deletes the key if it has passed.
LEMMA ExpireAtGood ==
  ASSUME NEW s, NEW x, x.start \in [Keys -> Slot], NEW J \in SUBSET Keys,
         NEW c \in Command, c.cmd = "PEXPIREAT", c.key \in J, NEW t, Good(s, x, J)
  PROVE  Good(ExpireAtCommand(s, c, t), x, J)
<1> DEFINE D == {c.key}
           e == [cmd |-> "DEL", keys |-> D]
           d == Propagate(RemoveKeys(s, D), e)
           m == SetExpiry(s, c.key, c.at)
<1>1. /\ ExpireAtCommand(s, c, t) \in {s, d, Propagate(m, c)}
      /\ Present(s, c.key) \/ ExpireAtCommand(s, c, t) = s
  BY DEF ExpireAtCommand
<1>2. {c.key} \in SUBSET Keys /\ D \in SUBSET Keys /\ c.at \in Nat
  BY CommandFields
<1> HIDE DEF D
<1>3. Good(RemoveKeys(s, D), x, J) /\ e \in Command
  BY <1>2, RemoveGood, DelIsCommand
<1> HIDE DEF e
<1>4. Good(d, x, J)
  BY <1>3, PropagateGood
<1> HIDE DEF d
<1>5. CASE ~Present(s, c.key)
  BY <1>1, <1>5
<1>6. CASE Present(s, c.key)
  <2>1. Good(m, x, J)
    BY <1>2, <1>6, SetExpiryGood
  <2> HIDE DEF m
  <2>2. Good(Propagate(m, c), x, J)
    BY <2>1, PropagateGood
  <2> QED BY <1>1, <1>4, <2>2
<1> QED BY <1>5, <1>6

\* PERSIST drops the deadline.
LEMMA PersistGood ==
  ASSUME NEW s, NEW x, x.start \in [Keys -> Slot], NEW J \in SUBSET Keys,
         NEW c \in Command, c.key \in J, Good(s, x, J)
  PROVE  Good(PersistCommand(s, c), x, J)
<1> DEFINE m == SetExpiry(s, c.key, NoTTL)
<1>1. /\ PersistCommand(s, c) \in {s, Propagate(m, c)}
      /\ Present(s, c.key) \/ PersistCommand(s, c) = s
  BY DEF PersistCommand
<1>2. {c.key} \in SUBSET Keys /\ NoTTL \in Nat
  BY DEF NoTTL
<1>3. CASE ~Present(s, c.key)
  BY <1>1, <1>3
<1>4. CASE Present(s, c.key)
  <2>1. Good(m, x, J)
    BY <1>2, <1>4, SetExpiryGood
  <2> HIDE DEF m
  <2>2. Good(Propagate(m, c), x, J)
    BY <2>1, PropagateGood
  <2> QED BY <1>1, <2>2
<1> QED BY <1>3, <1>4

\* RESTORE deletes what the key held and loads the payload.
LEMMA RestoreGood ==
  ASSUME NEW s, NEW x, x.start \in [Keys -> Slot], NEW J \in SUBSET Keys,
         NEW c \in Command, c.cmd = "RESTORE", c.key \in J, NEW t, Good(s, x, J)
  PROVE  Good(RestoreCommand(s, c, t), x, J)
<1> DEFINE D == {c.key} \cap KeysOf(s)
           b == RemoveKeys(s, D)
           v == SetValue(b, {c.key}, c.kind, c.n)
           m == SetExpiry(v, c.key, c.at)
           K == {c.key}
           e == [cmd |-> "DEL", keys |-> K]
           f == [c EXCEPT !.replace = TRUE]
<1>1. RestoreCommand(s, c, t) \in {Propagate(b, e), Propagate(v, f), Propagate(m, f)}
  BY DEF RestoreCommand, LoadPayload
<1>2. {c.key} \in SUBSET Keys /\ D \in SUBSET Keys /\ K \in SUBSET Keys /\ c.key \in Keys
      /\ c.at \in Nat /\ c.n \in Nat /\ c.kind \in Kinds /\ f \in Command
  BY CommandFields
<1> HIDE DEF D, K, f
<1>3. Good(b, x, J) /\ e \in Command
  BY <1>2, RemoveGood, DelIsCommand
<1> HIDE DEF b, e
<1>4. Good(v, x, J) /\ Present(v, c.key)
  BY <1>2, <1>3, SetOneGood
<1> HIDE DEF v
<1>5. Good(m, x, J)
  BY <1>2, <1>4, SetExpiryGood
<1> HIDE DEF m
<1>6. Good(Propagate(b, e), x, J) /\ Good(Propagate(v, f), x, J)
      /\ Good(Propagate(m, f), x, J)
  BY <1>2, <1>3, <1>4, <1>5, PropagateGood
<1> QED BY <1>1, <1>6

\* FLUSHALL.
LEMMA FlushAllGood ==
  ASSUME NEW s, NEW x, x.start \in [Keys -> Slot], NEW c \in Command, Good(s, x, {})
  PROVE  Good(FlushAllCommand(s, c), x, {})
<1>1. Good(Clear(s), x, {}) /\ {} \in SUBSET Keys
  BY ClearGood
<1> QED BY <1>1, PropagateGood DEF FlushAllCommand

\* Whatever the command, its handler leaves the store well formed except for the
\* collections it changed in place, which refresh is about to account.
LEMMA HandlerGood ==
  ASSUME NEW s, NEW x, x.start \in [Keys -> Slot], NEW c \in Command, NEW t,
         Good(s, x, {}), Good(s, x, NamedKeys(c)), ~Raises(s, c)
  PROVE  Good(Handler(s, c, t), x, NamedKeys(c))
<1> DEFINE J == NamedKeys(c)
           single == c.cmd \notin {"DEL", "MSET", "FLUSHALL", "KEYS"}
<1>1. J \in SUBSET Keys /\ {} \in SUBSET Keys /\ Keys \in SUBSET Keys
      /\ (single => J = {c.key} /\ c.key \in J /\ {c.key} \in SUBSET Keys)
      /\ (c.cmd \in {"DEL", "MSET"} => J = c.keys /\ c.keys \in SUBSET J)
      /\ (c.cmd \in {"FLUSHALL", "KEYS"} => J = {})
  BY NamedKeysType, CommandFields
<1>2. Good(s, x, J)
  OBVIOUS
<1>3. c.cmd = "LPOP" => (Present(s, c.key) => s.data[c.key].kind = "list")
  BY DEF Raises, Wants
<1> HIDE DEF J
<1>4. CASE c.cmd = "SET"
  BY <1>1, <1>2, <1>4, SetGood DEF Handler, J
<1>5. CASE c.cmd = "MSET"
  BY <1>1, <1>2, <1>5, MSetGood DEF Handler, J
<1>6. CASE c.cmd = "INCRBY"
  BY <1>1, <1>2, <1>6, IncrByGood DEF Handler, J
<1>7. CASE c.cmd = "RPUSH"
  BY <1>1, <1>2, <1>7, PushGood DEF Handler, J
<1>8. CASE c.cmd = "LPOP"
  BY <1>1, <1>2, <1>3, <1>8, PopGood DEF Handler, J
<1>9. CASE c.cmd = "DEL"
  BY <1>1, <1>2, <1>9, DelGood DEF Handler, J
<1>10. CASE c.cmd = "GETDEL"
  <2> DEFINE e == [cmd |-> "DEL", keys |-> {c.key}]
  <2>1. e.keys \in SUBSET Keys
    BY <1>1, <1>10
  <2>2. Handler(s, c, t) = DelCommand(s, e)
    BY <1>10 DEF Handler, GetDelCommand
  <2> HIDE DEF e
  <2> QED BY <1>1, <1>2, <2>1, <2>2, DelGood DEF J
<1>11. CASE c.cmd = "PEXPIREAT"
  BY <1>1, <1>2, <1>11, ExpireAtGood DEF Handler, J
<1>12. CASE c.cmd = "PERSIST"
  BY <1>1, <1>2, <1>12, PersistGood DEF Handler, J
<1>13. CASE c.cmd = "RESTORE"
  BY <1>1, <1>2, <1>13, RestoreGood DEF Handler, J
<1>14. CASE c.cmd = "FLUSHALL"
  <2>1. Handler(s, c, t) = FlushAllCommand(s, c)
    BY <1>14 DEF Handler
  <2>2. Good(FlushAllCommand(s, c), x, {}) /\ J = {}
    BY <1>1, <1>14, FlushAllGood
  <2> QED BY <2>1, <2>2 DEF J
<1>15. CASE c.cmd \in {"GET", "KEYS"}
  BY <1>2, <1>15 DEF Handler, J
<1> QED BY <1>4, <1>5, <1>6, <1>7, <1>8, <1>9, <1>10, <1>11, <1>12, <1>13, <1>14, <1>15,
           CommandFields

\* _run leaves the store well formed, whether the handler raised or not.
LEMMA RunGood ==
  ASSUME NEW s, NEW x, x.start \in [Keys -> Slot], NEW c \in Command, NEW t,
         Good(s, x, {}), IsWrite(c) => Good(s, x, NamedKeys(c))
  PROVE  Good(Run(s, c, t), x, {})
<1> DEFINE J == NamedKeys(c)
           l == Lookup(s, LookedUp(c), t)
           h == Handler(l, c, t)
           ran == IF Raises(l, c) THEN l ELSE h
<1>1. J \in SUBSET Keys /\ {} \in SUBSET Keys /\ LookedUp(c) \in SUBSET Keys
  BY NamedKeysType DEF LookedUp
<1>2. Run(s, c, t) = IF IsWrite(c) THEN Refresh(ran, J) ELSE ran
  BY DEF Run, Handled, Refreshed
<1>3. Good(l, x, {}) /\ (IsWrite(c) => Good(l, x, J))
  BY <1>1, LookupGood
<1> HIDE DEF l
<1>4. CASE IsWrite(c)
  <2>1. ~Raises(l, c) => Good(h, x, J)
    BY <1>3, <1>4, HandlerGood
  <2>2. Good(ran, x, J)
    BY <1>3, <1>4, <2>1
  <2> HIDE DEF J, h, ran
  <2>3. Good(Refresh(ran, J), x, {})
    BY <1>1, <2>2, RefreshGood
  <2> QED BY <1>2, <1>4, <2>3
<1>5. CASE ~IsWrite(c)
  <2>1. h = l
    BY <1>5 DEF IsWrite, Handler
  <2> QED BY <1>2, <1>3, <1>5, <2>1
<1> QED BY <1>4, <1>5

\* Replaying one record: the store stays well formed, or the start is aborted.
LEMMA ApplyGood ==
  ASSUME NEW s, NEW c \in Command, NEW t, Good(s, Loading, {})
  PROVE  \/ Good(Apply(s, c, t), Loading, {})
         \/ Apply(s, c, t) = [s EXCEPT !.failed = TRUE]
<1>1. Loading.start \in [Keys -> Slot] /\ Loading.job = "none"
  BY DEF Loading, Absent, Slot, NoTTL
<1>2. s.job = "none" /\ ~s.failed
  BY <1>1 DEF Good, Copying
<1>3. Good(s, Loading, NamedKeys(c))
  BY <1>2 DEF Good, Sized, Guarded
<1>4. Good(Run(s, c, t), Loading, {})
  BY <1>1, <1>3, RunGood
<1> QED BY <1>2, <1>4 DEF Apply
=============================================================================
