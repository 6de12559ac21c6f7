------------------------------ MODULE Options ------------------------------
(***************************************************************************)
(* How handlers and servers are set up: NewHandler and NewServer apply     *)
(* options one by one, With applies more of them to a server, Start and    *)
(* BroadcastData register the default serializer.  An option is a value    *)
(* the application may keep and apply again, also to another handler; that *)
(* of a serializer holds a pointer, so they share it.  A server owns a     *)
(* handler: one owner stands for both.                                     *)
(***************************************************************************)
EXTENDS Integers, FiniteSets

CONSTANTS
  Handler,      \* handlers made by NewHandler
  Server,       \* servers made by NewServer
  Prepared,     \* the option values of WithSerializer, each with its serializer
  EncodingOf,   \* the encoding each of them is for
  MadeWith,     \* the SerializationConfig it was made with
  Numbers,      \* the numbers options are tried with
  Periods,      \* and those WithPingPong and WithMaxDepth are
  Chosen,       \* the encodings WithEncoding is tried with
  NoSerializer,
  MaxOptions    \* bound: options applied

KindName == {"func", "chan", "unsafe.Pointer"}    \* the names DisallowedTypes is tried with

\* SerializationConfig, as far as the options and DefaultSerializerConfig make it:
\* every limit is positive, and none of them sets MaxStringLength.
Positive == Nat \ {0}
Limits ==
  [MaxDepth : Positive, MaxKeys : Positive, MaxElements : Positive, MaxStringLength : Positive,
   MaxBinarySize : Positive, DisallowedTypes : SUBSET KindName, EnableStrict : BOOLEAN]

Encoding == {"JSON", "Protobuf", "MessagePack", "CBOR", "Raw"}
Owner == Handler \cup Server
Default(s) == s    \* the serializer Start and BroadcastData make for server s
Serializer == Prepared \cup {Default(s) : s \in Server}

ASSUME OptionsAssumption ==
  /\ Handler \cap Server = {} /\ Prepared \cap Server = {} /\ NoSerializer \notin Serializer
  /\ EncodingOf \in [Prepared -> Encoding] /\ MadeWith \in [Prepared -> Limits]
  /\ Numbers \subseteq Int /\ Periods \subseteq Int /\ Chosen \subseteq Encoding /\ MaxOptions \in Nat

VARIABLES
  phase,        \* of each owner
  config,       \* its HandlerConfig and ServerConfig
  serializers,  \* its serializers, by encoding
  limits,       \* of each serializer: the SerializationConfig it was given last
  uses,         \* history: how often each prepared option was applied
  applied

vars == <<phase, config, serializers, limits, uses, applied>>

DefaultSerializerConfig ==
  [MaxDepth |-> 10, MaxKeys |-> 100, MaxElements |-> 1000,
   MaxStringLength |-> 1024 * 1024, MaxBinarySize |-> 10 * 1024 * 1024,
   DisallowedTypes |-> KindName, EnableStrict |-> TRUE]

\* What a serializer enforces before anyone configures it.
Original(o) == IF o \in Prepared THEN MadeWith[o] ELSE DefaultSerializerConfig

\* Durations in seconds; the path as what it begins with.
DefaultConfig ==
  [MaxConnections |-> 1000, MessageSize |-> 512 * 1024, MessageChanBufSize |-> 256,
   ReadTimeout |-> 60, WriteTimeout |-> 10, PingPeriod |-> 54, PongWait |-> 60,
   DefaultEncoding |-> "JSON", Serialization |-> DefaultSerializerConfig,
   Port |-> 8080, Path |-> "slash", EnableSSL |-> "off", Files |-> {}]

Init ==
  /\ phase = [x \in Owner |-> "none"]
  /\ config = [x \in Owner |-> DefaultConfig]
  /\ serializers = [x \in Owner |-> [e \in Encoding |-> NoSerializer]]
  /\ limits = [o \in Serializer |-> Original(o)]
  /\ uses = [o \in Prepared |-> 0]
  /\ applied = 0
-----------------------------------------------------------------------------
(* The options: the configuration each makes of c, as a set with one        *)
(* element, or none when it returns an error.                              *)

Refused == {}

WithMaxConnections(c, n) == IF n <= 0 THEN Refused ELSE {[c EXCEPT !.MaxConnections = n]}

WithMessageSize(c, n) == IF n <= 0 THEN Refused ELSE {[c EXCEPT !.MessageSize = n]}

WithTimeout(c, read, write) ==
  IF read <= 0 \/ write <= 0 THEN Refused
  ELSE {[c EXCEPT !.ReadTimeout = read, !.WriteTimeout = write]}

\* A pong wait equal to the ping period is accepted.
WithPingPong(c, ping, pong) ==
  IF ping <= 0 \/ pong <= 0 \/ ping > pong THEN Refused
  ELSE {[c EXCEPT !.PingPeriod = ping, !.PongWait = pong]}

WithEncoding(c, e) == {[c EXCEPT !.DefaultEncoding = e]}

WithMessageBufferSize(c, n) == {[c EXCEPT !.MessageChanBufSize = n]}    \* not checked

HandlerOption(c) ==
  (UNION {{WithMaxConnections(c, n), WithMessageSize(c, n), WithMessageBufferSize(c, n)} : n \in Numbers})
  \cup (UNION {{WithTimeout(c, m, n) : m \in Numbers} : n \in Numbers})
  \cup (UNION {{WithPingPong(c, m, n) : m \in Periods} : n \in Periods}) \cup {WithEncoding(c, e) : e \in Chosen}

WithPort(c, n) == IF n <= 0 \/ n > 65535 THEN Refused ELSE {[c EXCEPT !.Port = n]}

\* A path is what it begins with: nothing, a slash, or something else.
WithPath(c, path) == {[c EXCEPT !.Path = IF path = "slash" THEN path ELSE "slash"]}

WithSSL(c, files) ==
  IF files # {"cert", "key"} THEN Refused ELSE {[c EXCEPT !.EnableSSL = "on", !.Files = files]}

Ports == {0, 65535, 65536}
Paths == {"none", "slash", "other"}
CertFiles == SUBSET {"cert", "key"}

ServerOption(c) ==
  {WithPort(c, n) : n \in Ports} \cup {WithPath(c, p) : p \in Paths}
  \cup {WithSSL(c, f) : f \in CertFiles}
-----------------------------------------------------------------------------
(* Their application                                                       *)

Registered(x) == {serializers[x][e] : e \in Encoding} \ {NoSerializer}

New(x) ==
  /\ phase[x] = "none"
  /\ phase' = [phase EXCEPT ![x] = "building"]
  /\ UNCHANGED <<config, serializers, limits, uses, applied>>

\* All options of NewHandler or NewServer have been applied.
Built(x) ==
  /\ phase[x] = "building"
  /\ phase' = [phase EXCEPT ![x] = "ready"]
  /\ UNCHANGED <<config, serializers, limits, uses, applied>>

\* NewHandler and NewServer take options, and so does With, for a server.
MayApply(x) ==
  /\ phase[x] = "building" \/ (x \in Server /\ phase[x] \in {"ready", "started"})
  /\ applied < MaxOptions
  /\ applied' = applied + 1

\* A failed option ends NewHandler and NewServer, and With, where the options
\* before it stay applied.
Fail(x) ==
  /\ phase' = [phase EXCEPT ![x] = IF @ = "building" THEN "failed" ELSE @]
  /\ UNCHANGED <<config, serializers, limits, uses>>

ApplyOption(x) ==
  /\ MayApply(x)
  /\ \E option \in HandlerOption(config[x]) \cup (IF x \in Server THEN ServerOption(config[x]) ELSE {Refused}) :
       \/ option = Refused /\ Fail(x)
       \/ /\ \E c \in option : config' = [config EXCEPT ![x] = c]
          /\ UNCHANGED <<phase, serializers, limits, uses>>

\* The loop over handler.serializers: each is given the whole configuration, the
\* limit just assigned included.
Configure(x) ==
  limits' = [o \in Serializer |-> IF o \in Registered(x) THEN config'[x].Serialization ELSE limits[o]]

\* Each option of serialization assigns its own field and has its own loop.
WithMaxDepth(x, depth) ==
  IF depth < 1 THEN Fail(x)
  ELSE /\ config' = [config EXCEPT ![x].Serialization.MaxDepth = depth]
       /\ Configure(x)
       /\ UNCHANGED <<phase, serializers, uses>>

\* mutant: the loop is missing, the limit is for serializers still to come
WithMaxKeysOnly(x, keys) ==
  IF keys < 1 THEN Fail(x)
  ELSE /\ config' = [config EXCEPT ![x].Serialization.MaxKeys = keys]
       /\ UNCHANGED <<phase, serializers, limits, uses>>

WithMaxKeys(x, keys) ==
  IF keys < 1 THEN Fail(x)
  ELSE /\ config' = [config EXCEPT ![x].Serialization.MaxKeys = keys]
       /\ Configure(x)
       /\ UNCHANGED <<phase, serializers, uses>>

WithMaxElements(x, elements) ==
  IF elements < 1 THEN Fail(x)
  ELSE /\ config' = [config EXCEPT ![x].Serialization.MaxElements = elements]
       /\ Configure(x)
       /\ UNCHANGED <<phase, serializers, uses>>

WithDisallowedTypes(x, types) ==
  /\ config' = [config EXCEPT ![x].Serialization.DisallowedTypes = types]
  /\ Configure(x)
  /\ UNCHANGED <<phase, serializers, uses>>

WithStrictSerialization(x, enabled) ==
  /\ config' = [config EXCEPT ![x].Serialization.EnableStrict = enabled]
  /\ Configure(x)
  /\ UNCHANGED <<phase, serializers, uses>>

WithMaxBinarySize(x, size) ==
  IF size <= 0 THEN Fail(x)
  ELSE /\ config' = [config EXCEPT ![x].Serialization.MaxBinarySize = size]
       /\ Configure(x)
       /\ UNCHANGED <<phase, serializers, uses>>

ApplyLimit(x) ==
  /\ MayApply(x)
  /\ \/ \E n \in Numbers : WithMaxKeys(x, n) \/ WithMaxElements(x, n) \/ WithMaxBinarySize(x, n)
     \/ \E n \in Periods : WithMaxDepth(x, n)
     \/ WithDisallowedTypes(x, {})
     \/ WithStrictSerialization(x, FALSE)

\* The serializer is registered as it is, configured by whoever configured it last.
WithSerializer(x, o) ==
  /\ MayApply(x)
  /\ serializers' = [serializers EXCEPT ![x][EncodingOf[o]] = o]
  /\ uses' = [uses EXCEPT ![o] = @ + 1]
  /\ UNCHANGED <<phase, config, limits>>

\* AddSerializer(JSON, CreateSerializer(JSON, DefaultSerializerConfig()))
AddDefaultSerializer(s) ==
  /\ serializers' = [serializers EXCEPT ![s]["JSON"] = Default(s)]
  /\ limits' = [limits EXCEPT ![Default(s)] = DefaultSerializerConfig]

NeverNone(s) == FALSE    \* mutant: len(...) < 0
NoneRegistered(s) == Registered(s) = {}

Start(s) ==
  /\ phase[s] = "ready"
  /\ phase' = [phase EXCEPT ![s] = "started"]
  /\ IF NoneRegistered(s) THEN AddDefaultSerializer(s) ELSE UNCHANGED <<serializers, limits>>
  /\ UNCHANGED <<config, uses, applied>>

\* BroadcastData without a serializer for the default encoding, which replaces
\* the one for JSON on every call.
BroadcastFallback(s) ==
  /\ phase[s] \in {"ready", "started"}
  /\ serializers[s][config[s].DefaultEncoding] = NoSerializer
  /\ AddDefaultSerializer(s)
  /\ UNCHANGED <<phase, config, uses, applied>>

Next ==
  \/ \E x \in Owner : New(x) \/ Built(x) \/ ApplyOption(x) \/ ApplyLimit(x)
  \/ \E x \in Owner, o \in Prepared : WithSerializer(x, o)
  \/ \E s \in Server : Start(s) \/ BroadcastFallback(s)

Spec == Init /\ [][Next]_vars
-----------------------------------------------------------------------------
(* Properties                                                              *)

PortNumber == {n \in Nat : 0 < n /\ n <= 65535}

Config ==
  [MaxConnections : Positive, MessageSize : Positive, MessageChanBufSize : Int,
   ReadTimeout : Positive, WriteTimeout : Positive, PingPeriod : Positive, PongWait : Positive,
   DefaultEncoding : Encoding, Serialization : Limits,
   Port : PortNumber, Path : {"slash"}, EnableSSL : {"on", "off"}, Files : SUBSET {"cert", "key"}]

\* Every variable has its type, whichever options are applied and fail (nothing
\* bounds MessageChanBufSize), and a started server has a serializer.
TypeOK ==
  /\ phase \in [Owner -> {"none", "building", "failed", "ready", "started"}]
  /\ config \in [Owner -> Config]
  /\ serializers \in [Owner -> [Encoding -> Serializer \cup {NoSerializer}]]
  /\ limits \in [Serializer -> Limits]
  /\ uses \in [Prepared -> 0 .. MaxOptions] /\ applied \in 0 .. MaxOptions
  /\ \A s \in Server : phase[s] = "started" => Registered(s) # {}

\* A serializer whose option was applied once enforces the limits of its owner,
\* all of them, or those it was made with, never a mixture of the two or limits
\* that have been replaced: the loop of every option reaches it, also when it
\* was another option, Start or BroadcastData that registered it.
LimitsKnown ==
  \A x \in Owner : \A o \in Registered(x) :
    (o \in Prepared => uses[o] = 1) => limits[o] \in {config[x].Serialization, Original(o)}
=============================================================================
