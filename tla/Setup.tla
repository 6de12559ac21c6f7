------------------------------- MODULE Setup -------------------------------
(***************************************************************************)
(* Options and Serializers together: what the broadcasts of data of a      *)
(* server let through, under every configuration its options can lead to.  *)
(***************************************************************************)
EXTENDS Options, Serializers

CONSTANT Datum    \* what is broadcast: [type, value, encodable]

ASSUME DatumAssumption == \A d \in Datum : d.type \in Type \cup {NoType} /\ d.value \in Value

\* The kind of a serializer is that of the encoding it was made for.
MadeFor(o) == IF o \in Prepared THEN KindOf(EncodingOf[o]) ELSE "JSON"

Accepts(o, d) == Marshal(MadeFor(o), limits[o], d)

FallbackUnlimited(d) == d.encodable    \* mutant: json.Marshal, as for a room
FallbackAccepts(d) == Marshal("JSON", DefaultSerializerConfig, d)

BroadcastData(s, d) ==
  LET o == serializers[s][config[s].DefaultEncoding] IN
    IF o = NoSerializer THEN FallbackAccepts(d) ELSE Accepts(o, d)

BroadcastDataWithEncoding(s, d, e) ==
  LET o == serializers[s][e] IN o # NoSerializer /\ Accepts(o, d)

BroadcastJSON(s, d) == BroadcastDataWithEncoding(s, d, "JSON")

\* Without a serializer the data goes to json.Marshal, as BroadcastToRoomJSON's
\* always does: no limit applies.
BroadcastToRoomData(s, d) ==
  LET o == serializers[s][config[s].DefaultEncoding] IN
    IF o = NoSerializer THEN d.encodable ELSE Accepts(o, d)
-----------------------------------------------------------------------------
(* Properties                                                              *)

\* The configurations of the serializers in use.
Configs == {limits[o] : o \in UNION {Registered(x) : x \in Owner}}

\* The recursive checks accept what the reference does, exactly: at the depth
\* and size limits themselves, and for types that refer to themselves.
ValidationExact ==
  \A z \in Configs, d \in Datum :
    /\ ValidateValue(z, d.value, 0) <=> ValueWithin(z, d.value)
    /\ ValidateType(z, d.type, 0) <=> TypeWithin(z, d.type)

\* No broadcast of data lets through what exceeds the limits of the server, the
\* defaults and those its serializers were made with, a broadcast to a room
\* included when there is a serializer for the default encoding.  Left out are
\* servers that share a serializer with another owner, and servers with a Raw
\* serializer, which checks nothing but the length.
BroadcastsLimited ==
  \A s \in Server, d \in Datum :
    /\ phase[s] \in {"ready", "started"}
    /\ \A o \in Registered(s) \cap Prepared : uses[o] = 1
    /\ \A o \in Registered(s) : MadeFor(o) # "Raw"
    /\ \/ BroadcastData(s, d)
       \/ BroadcastJSON(s, d)
       \/ \E e \in Encoding \ {"JSON"} : BroadcastDataWithEncoding(s, d, e)
       \/ BroadcastToRoomData(s, d) /\ serializers[s][config[s].DefaultEncoding] # NoSerializer
    => \E z \in {config[s].Serialization, DefaultSerializerConfig} \cup {Original(o) : o \in Registered(s)} :
         ValueWithin(z, d.value) /\ TypeWithin(z, d.type)
=============================================================================
