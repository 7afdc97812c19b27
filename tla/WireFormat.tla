----------------------------- MODULE WireFormat -----------------------------
(***************************************************************************)
(* The wire format of the system: the messages of protocol/im.proto, built *)
(* by accessors, serialised, parsed, copied and passed on by the generated *)
(* code (protocol/generated/im.pb.cc, im.pb.h) as the servers and          *)
(* client_core drive it.                                                   *)
(*                                                                         *)
(* A message object is its slots, its has bits and its unknown fields.     *)
(* The generated functions trust the has bits and not the slots: a slot    *)
(* whose bit is wrong is not written, not counted, not copied or not       *)
(* cleared.  The wire is a sequence of items, each with a field number, a  *)
(* wire type, a value and the number of bytes of the value.  Integers are  *)
(* themselves, a text is a member of Text with a length and a verdict on   *)
(* its UTF-8.                                                              *)
(***************************************************************************)
EXTENDS ImMessages, SequencesExt

CONSTANTS
    Number,       \* values the handlers give to integer fields, 0 among them
    Text,         \* values of string and bytes fields, "" among them
    TextLen,      \* number of bytes of a text
    Utf8,         \* the texts that are valid UTF-8
    ForeignNumber,  \* field numbers a peer of another version may add
    MaxCalls,     \* bound: accessor calls on the sender's message
    MaxHops       \* bound: messages put on the wire

ASSUME WireAssumption ==
    /\ 0 \in Number /\ Number \subseteq Int
    /\ "" \in Text /\ TextLen \in [Text -> Nat] /\ TextLen[""] = 0
    /\ Utf8 \subseteq Text /\ "" \in Utf8
    /\ ForeignNumber \subseteq Nat \ {0} /\ MaxCalls \in Nat /\ MaxHops \in Nat

VARIABLES
    type,       \* the message the exchange is about
    mine,       \* the sender's object
    theirs,     \* the receiver's object; parsing reuses it
    wire,       \* the items in flight
    verdict,    \* "none", "flying", "ok", "refused": the last parse
    sent,       \* history: the record that was put on the wire last
    calls,      \* accessor calls so far
    hops        \* serialisations so far

vars == <<type, mine, theirs, wire, verdict, sent, calls, hops>>

Types == DOMAIN ParseTable
FieldsOf(t) == DOMAIN ParseTable[t]
Kind(t, f) == ParseTable[t][f][2]
Repeated(t, f) == Kind(t, f) \in {"strings", "messages"}
Sub(t, f) == ParseTable[t][f][4]

(***************************************************************************)
(* Objects.                                                                *)
(***************************************************************************)
Default(t, f) ==
    IF Repeated(t, f) THEN << >> ELSE IF Kind(t, f) \in {"string", "bytes"} THEN "" ELSE 0

New(t) == [slot |-> [f \in FieldsOf(t) |-> Default(t, f)], has |-> {}, unknown |-> << >>]

\* Clear(): the slots whose bits are set, then all bits and the unknown fields.
ClearMessage(t, m) ==
    [slot    |-> [f \in FieldsOf(t) |->
                     IF Clear[t][f] = Always \/ Clear[t][f] \cap m.has # {}
                     THEN Default(t, f) ELSE m.slot[f]],
     has     |-> {},
     unknown |-> << >>]

\* set_f(v), and add_f(v) of a repeated field.
SetField(t, m, f, v) ==
    [m EXCEPT !.slot[f] = IF Repeated(t, f) THEN Append(@, v) ELSE v,
              !.has = @ \cup {Accessors[t][f]}]

ClearField(t, m, f) ==
    [m EXCEPT !.slot[f] = Default(t, f), !.has = @ \ {Accessors[t][f]}]

\* MergeFrom(): only what the other message's bits announce, and no default values.
MergeMessage(t, m, from) ==
    LET Merged(f) ==
            LET rule == MergeImpl[t][f][1]
                v == from.slot[f]
            IN  IF MergeImpl[t][f][2] \notin from.has THEN m.slot[f]
                ELSE IF rule = "append" THEN m.slot[f] \o v
                ELSE IF v = Default(t, f) THEN m.slot[f] ELSE v
    IN  [slot    |-> [f \in FieldsOf(t) |-> Merged(f)],
         has     |-> m.has \cup from.has,
         unknown |-> m.unknown \o from.unknown]

\* CopyFrom() and copy construction.
CopyMessage(t, m, from) == MergeMessage(t, ClearMessage(t, m), from)

(***************************************************************************)
(* Bytes.                                                                  *)
(***************************************************************************)
\* A negative int32 or enum is sign-extended to 64 bits: ten bytes.
VarintSize(v) == IF v < 0 THEN 10 ELSE IF v < 128 THEN 1 ELSE IF v < 16384 THEN 2 ELSE 3

LengthDelimited == {"string", "bytes", "strings", "messages"}

ItemSize(it) ==
    VarintSize(it.num * 8) + it.len + (IF it.wt = "len" THEN VarintSize(it.len) ELSE 0)

Total(ns) == FoldLeft(LAMBDA a, b : a + b, 0, ns)

ItemsSize(items) == Total([i \in DOMAIN items |-> ItemSize(items[i])])

IntItem(n, v) == [num |-> n, wt |-> "varint", val |-> v, len |-> VarintSize(v)]
TextItem(n, v) == [num |-> n, wt |-> "len", val |-> v, len |-> TextLen[v]]
MessageItem(n, items) == [num |-> n, wt |-> "len", val |-> items, len |-> ItemsSize(items)]

\* _InternalSerialize(): the fields whose bit is set, in the order of their
\* numbers; the default value of a singular field is not written; then the
\* unknown fields.  Write(t, v) writes an embedded message.
WriteMessage(t, m, Write(_, _)) ==
    LET Items(e) ==
            LET f == e[1]
                n == e[2]
                v == m.slot[f]
            IN  CASE e[4] \notin m.has -> << >>
                  [] e[3] = "messages" ->
                         [i \in DOMAIN v |-> MessageItem(n, Write(Sub(t, f), v[i]))]
                  [] e[3] = "strings" -> [i \in DOMAIN v |-> TextItem(n, v[i])]
                  [] e[3] \in {"string", "bytes"} -> IF v = "" THEN << >> ELSE <<TextItem(n, v)>>
                  [] OTHER -> IF v = 0 THEN << >> ELSE <<IntItem(n, v)>>
        es == InternalSerialize[t]
    IN  FlattenSeq([i \in DOMAIN es |-> Items(es[i])]) \o m.unknown

SerializeFlat(t, m) == WriteMessage(t, m, LAMBDA s, e : << >>)
Serialize(t, m) == WriteMessage(t, m, SerializeFlat)

\* ByteSizeLong(): counted from the bits and the slots, before a byte is written.
SizeMessage(t, m, Size(_, _)) ==
    LET TextSize(v) == VarintSize(TextLen[v]) + TextLen[v]
        FieldSize(f) ==
            LET k == ByteSizeLong[t][f][1]
                v == m.slot[f]
                Element(e) == IF k = "strings" THEN TextSize(e)
                              ELSE VarintSize(Size(Sub(t, f), e)) + Size(Sub(t, f), e)
            IN  CASE ByteSizeLong[t][f][2] \notin m.has -> 0
                  [] k \in {"strings", "messages"} ->
                         Len(v) + Total([i \in DOMAIN v |-> Element(v[i])])
                  [] k \in {"string", "bytes"} -> IF v = "" THEN 0 ELSE 1 + TextSize(v)
                  [] k = "bool" -> IF v = 0 THEN 0 ELSE 2
                  [] OTHER -> IF v = 0 THEN 0 ELSE 1 + VarintSize(v)
    IN  MapThenSumSet(FieldSize, FieldsOf(t)) + ItemsSize(m.unknown)

SizeFlat(t, m) == SizeMessage(t, m, LAMBDA s, e : 0)
ByteSize(t, m) == SizeMessage(t, m, SizeFlat)

(***************************************************************************)
(* Parsing.                                                                *)
(***************************************************************************)
\* The parse loop of TcParser driven by the message's table.  An item whose
\* number is not in the table, or not with this wire type, is kept as an
\* unknown field; a singular field that comes twice keeps the last value; a
\* string that is not UTF-8, here or in an embedded message, fails the parse.
ReadItem(t, r, it, Read(_, _)) ==
    LET known == {f \in FieldsOf(t) :
                     /\ ParseTable[t][f][1] = it.num
                     /\ (it.wt = "len") <=> (Kind(t, f) \in LengthDelimited)}
        f == CHOOSE g \in known : TRUE
        element == Read(Sub(t, f), it.val)
        Store(v) == [r EXCEPT !.msg.slot[f] = IF Repeated(t, f) THEN Append(@, v) ELSE v,
                              !.msg.has = @ \cup {ParseTable[t][f][3]}]
    IN  CASE ~r.ok -> r
          [] known = {} -> [r EXCEPT !.msg.unknown = Append(@, it)]
          [] Kind(t, f) = "messages" ->
                 IF element.ok THEN Store(element.msg) ELSE [r EXCEPT !.ok = FALSE]
          [] Kind(t, f) \in {"string", "strings"} ->
                 IF it.val \in Utf8 THEN Store(it.val) ELSE [r EXCEPT !.ok = FALSE]
          [] OTHER -> Store(it.val)

ParseFlat(t, items) ==
    FoldLeft(LAMBDA r, it : ReadItem(t, r, it, LAMBDA s, e : r), [ok |-> TRUE, msg |-> New(t)], items)

\* ParseFromArray(): the object is cleared first.
Parse(t, m, items) ==
    FoldLeft(LAMBDA r, it : ReadItem(t, r, it, ParseFlat),
             [ok |-> TRUE, msg |-> ClearMessage(t, m)], items)

(***************************************************************************)
(* Records: what the getters return.                                       *)
(***************************************************************************)
Record(t, m) ==
    [type    |-> t,
     field   |-> [f \in FieldsOf(t) |->
                     IF Kind(t, f) = "messages"
                     THEN [i \in DOMAIN m.slot[f] |->
                              <<m.slot[f][i].slot, m.slot[f][i].unknown>>]
                     ELSE m.slot[f]],
     unknown |-> m.unknown]

Scalars(t, f) ==
    CASE Kind(t, f) \in {"string", "bytes", "strings"} -> Text
      [] Kind(t, f) = "bool" -> {0, 1}
      [] Kind(t, f) \in {"uint32", "uint64"} -> Number \cap Nat
      [] OTHER -> Number

\* What a handler hands to set_f or add_f; an embedded message with one field set.
Values(t, f) ==
    IF Kind(t, f) = "messages"
    THEN UNION {{SetField(Sub(t, f), New(Sub(t, f)), g, v) : v \in Scalars(Sub(t, f), g)} :
                    g \in FieldsOf(Sub(t, f))}
    ELSE Scalars(t, f)

(***************************************************************************)
(* The exchange.                                                           *)
(***************************************************************************)
Init ==
    /\ type \in Types
    /\ mine = New(type) /\ theirs = New(type)
    /\ wire = << >> /\ verdict = "none" /\ sent = Record(type, New(type))
    /\ calls = 0 /\ hops = 0

\* Calls on the sender's object do not touch the wire or the other object, so
\* it is enough to take them while nothing is in flight.
Call(m) ==
    /\ verdict # "flying"
    /\ calls < MaxCalls
    /\ calls' = calls + 1
    /\ mine' = m
    /\ UNCHANGED <<type, theirs, wire, verdict, sent, hops>>

Set == \E f \in FieldsOf(type) : \E v \in Values(type, f) : Call(SetField(type, mine, f, v))

ClearOne == \E f \in FieldsOf(type) : Call(ClearField(type, mine, f))

\* The legacy server fills one FriendInfo object again and again with Clear().
Reuse == mine # New(type) /\ Call(ClearMessage(type, mine))

PutOnWire(m, extra) ==
    /\ verdict # "flying"
    /\ hops < MaxHops
    /\ hops' = hops + 1
    /\ wire' = Serialize(type, m) \o extra
    /\ sent' = [Record(type, m) EXCEPT !.unknown = @ \o extra]
    /\ verdict' = "flying"
    /\ UNCHANGED <<type, mine, theirs, calls>>

Send == PutOnWire(mine, << >>)

\* A peer built from another im.proto adds a field this one does not have, has
\* reserved, or has with another type.
Foreign(t) ==
    LET Taken(n) == \E f \in FieldsOf(t) :
                        ParseTable[t][f][1] = n /\ Kind(t, f) \notin LengthDelimited
    IN  {IF Taken(n) THEN TextItem(n, "") ELSE IntItem(n, 1) : n \in ForeignNumber}

SendForeign == \E it \in Foreign(type) : PutOnWire(mine, <<it>>)

\* parsePayload: the handler's object takes what parses.
Receive ==
    LET r == Parse(type, theirs, wire)
    IN  /\ verdict = "flying"
        /\ verdict' = IF r.ok THEN "ok" ELSE "refused"
        /\ theirs' = r.msg
        /\ wire' = << >>
        /\ UNCHANGED <<type, mine, sent, calls, hops>>

\* The server passes on the message it parsed (chat, friend requests and answers).
PassOn == verdict = "ok" /\ PutOnWire(theirs, << >>)

\* CopyFrom() into an object in use: every class offers it, no handler calls it yet.
Copy ==
    /\ verdict = "ok"
    /\ mine' = CopyMessage(type, mine, theirs)
    /\ UNCHANGED <<type, theirs, wire, verdict, sent, calls, hops>>

Next == Set \/ ClearOne \/ Reuse \/ Send \/ SendForeign \/ Receive \/ PassOn \/ Copy

Spec == Init /\ [][Next]_vars

-----------------------------------------------------------------------------
\* The texts of a record, those of its embedded messages included, are UTF-8.
Proper(r) ==
    LET Flat(t, field) == \A f \in FieldsOf(t) : Kind(t, f) = "string" => field[f] \in Utf8
    IN  /\ Flat(r.type, r.field)
        /\ \A f \in FieldsOf(r.type) :
              CASE Kind(r.type, f) = "strings" -> \A i \in DOMAIN r.field[f] : r.field[f][i] \in Utf8
                [] Kind(r.type, f) = "messages" ->
                       \A i \in DOMAIN r.field[f] : Flat(Sub(r.type, f), r.field[f][i][1])
                [] OTHER -> TRUE

Blank(t) == Record(t, New(t))

Exchange ==
    INSTANCE RecordExchange WITH
        draft <- Record(type, mine), flight <- sent, read <- Record(type, theirs),
        verdict <- verdict, Blank <- Blank, Proper <- Proper

\* Refinement: through accessors, serialisation, parsing into a reused object,
\* copying and passing on, the generated code treats each of the 32 messages as
\* a record: fields nobody touched keep their values, what is read is what was
\* sent (fields of another version of im.proto included), and only a text that
\* is not UTF-8 makes a parse fail.
ImplementsRecords == Exchange!Spec

\* The size announced by ByteSizeLong is the number of bytes _InternalSerialize
\* writes, for a message in any state it can be in: the output buffer is
\* allocated from the one and filled by the other.
SizeIsExact ==
    \A m \in {mine, theirs} : ByteSize(type, m) = ItemsSize(Serialize(type, m))

\* What CheckHasBitConsistency asserts in hardened builds: a slot that does not
\* hold its default value has its bit set, so that no function skips it.
HasBitConsistency ==
    \A m \in {mine, theirs} : \A f \in FieldsOf(type) :
        m.slot[f] # Default(type, f) => ParseTable[type][f][3] \in m.has
=============================================================================
