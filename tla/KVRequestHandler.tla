-------------------------- MODULE KVRequestHandler --------------------------
(***************************************************************************)
(* mockgo/kvstore/requestHandler.go and the template functions of          *)
(* storage.go: the http API and the templates of mock responses on top of  *)
(* the in-memory storage or the redis storage of the server.               *)
(***************************************************************************)
EXTENDS InmemoryStorage, RedisStorage, HttpUtil

VARIABLES backend,   \* the storage the server was built with
          refused    \* [Clients -> the status the http request was refused with]

vars == <<calls, memory, hash, backend, refused>>

Init ==
    /\ CallsInit /\ MemoryInit /\ RedisInit
    /\ backend \in {"memory", "redis"}
    /\ refused = [c \in Clients |-> Pass]

\* Http requests, as far as their handlers tell them apart.  A key may be called
\* health.
Requests == [health : BOOLEAN, auth : BOOLEAN, contentType : {JSON, "text/plain"},
             accept : {JSON, "*/*"}, vars : {[store |-> "s", key |-> "k"]},
             body : {"unreadable", "invalid", "null", "value"}]

\* The routes and the checks their handlers are wrapped in.
AddRoutes(op, r) ==
    Chain(<<BasicAuthMiddleware(r)>> \o
          (CASE op = "Put" -> <<JSONContentTypeRequest(r)>>
             [] op \in {"Get", "GetAll"} -> <<JSONAcceptRequest(r)>>
             [] op = "Remove" -> <<>>) \o
          <<PathParamRequest(r)>>)

\* handlePutKVStore before it calls the storage.
parseBody(r) == CASE r.body = "unreadable" -> "InternalServerError"
                  [] r.body = "invalid" -> "BadRequest"
                  [] OTHER -> Pass

refusal(op, r) == IF op = "Put" THEN Chain(<<AddRoutes(op, r), parseBody(r)>>) ELSE AddRoutes(op, r)

HttpOps == {"Get", "GetAll", "Put", "Remove"}

\* What the requests for an operation come to: a status they are refused with, or
\* the kind of value they put.
Refusals == (UNION {{refusal(op, r) : r \in Requests} : op \in HttpOps}) \ {Pass}
AcceptedKinds(op) ==
    {IF op = "Remove" \/ r.body = "null" THEN "nil" ELSE "json" :
        r \in {q \in Requests : refusal(op, q) = Pass}}
Accepted == [op \in HttpOps |-> AcceptedKinds(op)]

\* What a handler makes of what the storage returned; the value of put n is
\* written to the response unless it cannot be encoded.
Encodable(val) == \A k \in DOMAIN val : val[k] = 0 \/ kind[val[k]] # "odd"

handleGetKVStore(r) ==
    IF r.err THEN "InternalServerError" ELSE
    IF r.isNil THEN "NotFound" ELSE WriteEntity(Encodable(r.val))

handleGetAllKVStore(r) ==
    IF r.err THEN "InternalServerError" ELSE
    IF r.isNil THEN "NotFound" ELSE WriteEntity(Encodable(r.val))

handlePutKVStore(r) == IF r.err THEN "InternalServerError" ELSE "NoContent"

handleRemoveKVStore(r) == IF r.err THEN "InternalServerError" ELSE "NoContent"

\* kvStoreGet, kvStoreGetAll, kvStoreHasKey, kvStorePut, kvStoreRemove: an error
\* becomes the text of the error, or FALSE.
KVStoreTemplateFuncMap(op, r) ==
    CASE op \in {"Get", "GetAll"} -> IF r.err THEN "error" ELSE "value"
      [] op = "HasKey" -> IF ~r.err /\ ~r.isNil THEN "true" ELSE "false"
      [] op \in Writes -> IF r.err THEN "error" ELSE ""

Answer(c) ==
    LET r == result[c] IN
    IF refused[c] # Pass THEN refused[c] ELSE
    IF c \in TemplateClients THEN KVStoreTemplateFuncMap(call[c].op, r) ELSE
    CASE call[c].op = "Get" -> handleGetKVStore(r)
      [] call[c].op = "GetAll" -> handleGetAllKVStore(r)
      [] call[c].op = "Put" -> handlePutKVStore(r)
      [] call[c].op = "Remove" -> handleRemoveKVStore(r)

-----------------------------------------------------------------------------
AnyKey == CHOOSE k \in Keys : TRUE   \* GetAll has no key
Enter == IF backend = "memory" THEN "lookup" ELSE "send"

\* An http request whose checks pass calls the storage.
Request(c) ==
    /\ ~crashed /\ c \in HttpClients
    /\ \E s \in Slots :
          \/ BeginRead(c, "Get", s, Enter)
          \/ s[2] = AnyKey /\ BeginRead(c, "GetAll", s, Enter)
          \/ \E op \in HttpOps \cap Writes : \E k \in Accepted[op] :
                BeginPut(c, op, s, k, Enter)
    /\ UNCHANGED <<memory, hash, backend, refused>>

Refuse(c) ==
    /\ ~crashed /\ c \in HttpClients /\ pc[c] = "idle"
    /\ \E status \in Refusals : refused' = [refused EXCEPT ![c] = status]
    /\ pc' = [pc EXCEPT ![c] = "done"]
    /\ UNCHANGED <<call, kind, result, cand, before, fits, memory, hash, backend>>

\* A template that is rendered calls one of its functions.
Render(c) ==
    /\ ~crashed /\ c \in TemplateClients
    /\ \E s \in Slots :
          \/ \E op \in {"Get", "HasKey"} : BeginRead(c, op, s, Enter)
          \/ s[2] = AnyKey /\ BeginRead(c, "GetAll", s, Enter)
          \/ \E k \in {"json", "odd"} : BeginPut(c, "Put", s, k, Enter)
          \/ BeginPut(c, "Remove", s, "nil", Enter)
    /\ UNCHANGED <<memory, hash, backend, refused>>

Respond(c) ==
    /\ ~crashed
    /\ Forget(c)
    /\ refused' = [refused EXCEPT ![c] = Pass]
    /\ st' = [st EXCEPT ![c] = Nil]
    /\ UNCHANGED <<store, content, used, crashed, hash, backend>>

\* A response commutes with the steps of other clients, so it is taken at once.
Next ==
    \/ \E c \in Clients : Respond(c)
    \/ /\ \A c \in Clients : pc[c] # "done"
       /\ \/ \E c \in Clients :
                \/ Request(c) \/ Refuse(c) \/ Render(c)
                \/ MemoryStep(c) /\ UNCHANGED <<hash, backend, refused>>
                \/ RedisStep(c) /\ UNCHANGED <<memory, backend, refused>>
          \/ ConcurrentMapAccess /\ UNCHANGED <<hash, backend, refused>>

Spec == Init /\ [][Next]_vars

-----------------------------------------------------------------------------
\* Type correctness; a put never reaches the nil map of a store that is missing,
\* and every call is answered, a request with a status and a template with a text.
TypeOK ==
    /\ CallsTypeOK /\ MemoryTypeOK
    /\ hash \in [Stores -> [Keys -> Values]]
    /\ \A c \in Clients : pc[c] = "done" =>
          Answer(c) \in IF c \in TemplateClients THEN {"value", "true", "false", "error", ""} ELSE Statuses

Returned(ops) == {c \in Clients : pc[c] = "done" /\ refused[c] = Pass /\ call[c].op \in ops}

\* What is read of a key, by http or by a template, however calls of other
\* clients interleave with the unlocked statements or with retried commands, is
\* a value that no put which ended before has replaced.  200 carries it, 404 and
\* kvStoreHasKey = false say that it is nil, and in memory only a value without
\* JSON text is answered with 500.  (Only the loss of a map that is created twice
\* excuses a missing value; redis answers a missing key with an error.)
ReadsAnswerPuts ==
    \A c \in Returned({"Get", "HasKey"}) :
        LET may == fits[c][call[c].slot]
            nil == \E v \in may : IsNil(v)
            body == result[c].val
            a == Answer(c)
        IN  /\ a = "OK" => body[KeyOf(c)] \in may /\ kind[body[KeyOf(c)]] = "json"
            /\ a = "NotFound" => nil
            /\ a = "value" => nil \/ body[KeyOf(c)] \in may
            /\ a = "true" => \E v \in may : ~IsNil(v)
            /\ a = "false" => nil \/ backend = "redis"
            /\ a = "InternalServerError" =>
                  backend = "redis" \/ \E v \in may : v # 0 /\ kind[v] = "odd"

\* A listing of a store, encoded key by key from the live map, has for every key
\* a value the key had while the listing was made: no value that an ended put had
\* replaced, and no key missing that was put before, removed keys included.
ListingAnswersPuts ==
    \A c \in Returned({"GetAll"}) :
        \A k \in Keys :
            LET may == fits[c][<<StoreOf(c), k>>]
                listed == result[c].val
            IN  ~result[c].err =>
                    IF k \in DOMAIN listed THEN listed[k] \in may \ {0} ELSE 0 \in may
=============================================================================
