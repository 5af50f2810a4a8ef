------------------------------ MODULE Commands ------------------------------
(***************************************************************************)
(* The command handlers of engine/commands, over the store of module Store.*)
(*                                                                         *)
(* A command is a record.  The same handlers run a client's command on the *)
(* live store, where they propagate effects, and replay those effects from *)
(* the log into a loading store, where nothing expires and nothing is      *)
(* propagated (Engine._apply): an effect is itself a command.              *)
(*                                                                         *)
(* Handlers that differ only in the data they touch share one operator:    *)
(* RPUSH stands for the commands that create a collection or add to it     *)
(* (LPUSH, SADD, HSET, ZADD), LPOP for those that take from it (RPOP, SREM,*)
(* HDEL, ZREM), INCRBY for those that derive a string from the old one     *)
(* (APPEND, INCRBYFLOAT), GET for the reads.                               *)
(***************************************************************************)
EXTENDS Store

Command ==
       [cmd : {"GET", "INCRBY", "RPUSH", "LPOP", "GETDEL", "PERSIST"}, key : Keys]
  \cup [cmd : {"DEL"}, keys : SUBSET Keys]
  \cup [cmd : {"MSET"}, keys : SUBSET Keys, n : Nat]
  \cup [cmd : {"SET"}, key : Keys, n : Nat, cond : {"any", "NX", "XX"},
        keep_ttl : BOOLEAN, at : Nat]
  \cup [cmd : {"PEXPIREAT"}, key : Keys, at : Nat]
  \cup {c \in [cmd : {"RESTORE"}, key : Keys, kind : Kinds, n : Nat, at : Nat,
               replace : BOOLEAN] : c.kind = "list" => c.n > 0}
  \cup [cmd : {"FLUSHALL", "KEYS"}]

\* The keys the engine extracts from a command (CommandSpec.keys).
NamedKeys(c) ==
  CASE c.cmd \in {"DEL", "MSET"} -> c.keys
    [] c.cmd \in {"FLUSHALL", "KEYS"} -> {}
    [] OTHER -> {c.key}

IsWrite(c) == c.cmd \notin {"GET", "KEYS"}
DenyOom(c) == c.cmd \in {"SET", "MSET", "INCRBY", "RPUSH", "RESTORE"}

\* The kind of value a command insists on; any other raises WRONGTYPE.
Wants(c) ==
  CASE c.cmd \in {"GET", "GETDEL", "INCRBY"} -> "string"
    [] c.cmd \in {"RPUSH", "LPOP"} -> "list"
    [] OTHER -> "any"

\* Whether the handler raises, on a store in which its keys were looked up:
\* WRONGTYPE, or BUSYKEY for a RESTORE without REPLACE.  Both are raised before
\* the handler changes anything.
Raises(s, c) ==
  \/ Wants(c) # "any" /\ Present(s, c.key) /\ s.data[c.key].kind # Wants(c)
  \/ c.cmd = "RESTORE" /\ ~c.replace /\ Present(s, c.key)

\* The keys a handler looks up before it does anything else.  MSET overwrites its
\* keys unseen, KEYS goes through them all.
LookedUp(c) ==
  CASE c.cmd = "MSET" -> {}
    [] c.cmd = "KEYS" -> Keys
    [] OTHER -> NamedKeys(c)

(* The handlers, from the store s in which these keys were looked up.       *)

SetCommand(s, c, t) ==
  LET refused == \/ c.cond = "NX" /\ Present(s, c.key)
                 \/ c.cond = "XX" /\ ~Present(s, c.key)
      set == Propagate(IF c.keep_ttl THEN SetKeepTtl(s, {c.key}, "string", c.n, t)
                                     ELSE SetValue(s, {c.key}, "string", c.n),
                       [cmd |-> "SET", key |-> c.key, n |-> c.n, cond |-> "any",
                        keep_ttl |-> c.keep_ttl, at |-> NoTTL])
  IN  IF refused THEN s
      ELSE IF c.at = NoTTL THEN set
      ELSE Propagate(SetExpiry(set, c.key, c.at),
                     [cmd |-> "PEXPIREAT", key |-> c.key, at |-> c.at])

MSetCommand(s, c) == Propagate(SetValue(s, c.keys, "string", c.n), c)

IncrByCommand(s, c, t) ==
  Propagate(SetKeepTtl(s, {c.key}, "string", s.data[c.key].n + 1, t), c)

PushCommand(s, c) ==
  LET target == IF Present(s, c.key) THEN s ELSE SetValue(s, {c.key}, "list", 0)
  IN  Propagate(Mutate(target, c.key, target.data[c.key].n + 1), c)

\* Variant: a pop does not check that the key exists.
PopUnchecked(s, c) == Propagate(Mutate(s, c.key, s.data[c.key].n - 1), c)

PopCommand(s, c) ==
  IF ~Present(s, c.key) THEN s
  ELSE Propagate(Mutate(s, c.key, s.data[c.key].n - 1), c)

\* Expired keys were reclaimed one by one, the live ones are logged together.
DelCommand(s, c) ==
  LET deleted == {k \in c.keys : Present(s, k)}
  IN  IF deleted = {} THEN s
      ELSE Propagate(RemoveKeys(s, deleted), [cmd |-> "DEL", keys |-> deleted])

GetDelCommand(s, c) == DelCommand(s, [cmd |-> "DEL", keys |-> {c.key}])

\* expire_at_ms: a deadline that has passed deletes the key, except while loading.
ExpireAtCommand(s, c, t) ==
  IF ~Present(s, c.key) THEN s
  ELSE IF c.at <= t /\ ~s.loading
    THEN Propagate(RemoveKeys(s, {c.key}), [cmd |-> "DEL", keys |-> {c.key}])
    ELSE Propagate(SetExpiry(s, c.key, c.at), c)

PersistCommand(s, c) ==
  IF ~Present(s, c.key) \/ s.data[c.key].expires_at = NoTTL THEN s
  ELSE Propagate(SetExpiry(s, c.key, NoTTL), c)

\* RESTORE key at payload [REPLACE] ABSTTL; it deletes the key before it loads it.
LoadPayload(s, c, t) ==
  LET loaded == SetValue(s, {c.key}, c.kind, c.n)
  IN  IF c.at # NoTTL /\ c.at <= t /\ ~s.loading
        THEN Propagate(s, [cmd |-> "DEL", keys |-> {c.key}])
        ELSE Propagate(IF c.at = NoTTL THEN loaded ELSE SetExpiry(loaded, c.key, c.at),
                       [c EXCEPT !.replace = TRUE])

RestoreCommand(s, c, t) ==
  LoadPayload(RemoveKeys(s, {c.key} \cap KeysOf(s)), c, t)

FlushAllCommand(s, c) == Propagate(Clear(s), c)

Handler(s, c, t) ==
  CASE c.cmd = "SET"       -> SetCommand(s, c, t)
    [] c.cmd = "MSET"      -> MSetCommand(s, c)
    [] c.cmd = "INCRBY"    -> IncrByCommand(s, c, t)
    [] c.cmd = "RPUSH"     -> PushCommand(s, c)
    [] c.cmd = "LPOP"      -> PopCommand(s, c)
    [] c.cmd = "DEL"       -> DelCommand(s, c)
    [] c.cmd = "GETDEL"    -> GetDelCommand(s, c)
    [] c.cmd = "PEXPIREAT" -> ExpireAtCommand(s, c, t)
    [] c.cmd = "PERSIST"   -> PersistCommand(s, c)
    [] c.cmd = "RESTORE"   -> RestoreCommand(s, c, t)
    [] c.cmd = "FLUSHALL"  -> FlushAllCommand(s, c)
    [] OTHER               -> s

\* _run: the handler, then refresh of a write's keys, even if it raised.
Handled(s, c, t) == IF Raises(s, c) THEN s ELSE Handler(s, c, t)
Refreshed(s, c) == IF IsWrite(c) THEN Refresh(s, NamedKeys(c)) ELSE s

Run(s, c, t) == Refreshed(Handled(Lookup(s, LookedUp(c), t), c, t), c)

\* _apply: replay one record of the log.  An error aborts the start.
Apply(s, c, t) ==
  IF s.failed \/ Raises(s, c) THEN [s EXCEPT !.failed = TRUE] ELSE Run(s, c, t)

\* The type of a store record.
Stores ==
  [data : [Keys -> Slot], volatile : SUBSET Keys, tracked : SUBSET Keys, used : Int,
   epoch : Nat, job : Consumers \cup {"none"}, pending : SUBSET Keys,
   records : [Keys -> Seq(Record)], started_at : Nat, loading : BOOLEAN,
   failed : BOOLEAN, out : Seq(Command)]

StoreType(s) == s \in Stores
=============================================================================
