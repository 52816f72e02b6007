---------------------------- MODULE HpackTables ----------------------------
(***************************************************************************)
(* HPACK's shared state: the dynamic table of a connection's decoder       *)
(* (src/src/hpack.c), driven by the header blocks h2_finish_headers        *)
(* (src/src/h2.c) gives it, next to the table of the client's encoder.     *)
(* The client is a legal one: it keeps its table as RFC 7541 says and      *)
(* refers only to entries it has.                                          *)
(*                                                                         *)
(* A field is a name or value the properties need not look into; "wide" is *)
(* one that is larger than any table.  An entry's cost is 1.               *)
(***************************************************************************)
EXTENDS Integers, Sequences, SequencesExt

CONSTANTS
  Fields,        \* the fields a client sends
  TableMax,      \* ZHP_DEC_TABLE_MAX, in entries
  MaxHeaders,    \* max_headers, the cap zhs_hdrs_add_ applies to a request
  MaxList,       \* max_header_bytes, in fields
  MaxBlock       \* bound on the representations in one block

VARIABLES
  enc, encmax,   \* the client's table, oldest first, and its size limit
  block,         \* the header block under way
  phase,         \* "write", "decode" or, after a connection error, "dead"
  refuse,        \* the stream is refused (hdr_refuse)
  max, e,        \* the decoder: its size limit and entries, oldest first
  pos, decoded,  \* zhp_decode_'s position, and the fields it has emitted
  headers        \* the fields the request has taken

client == <<enc, encmax, block>>
decoder == <<max, e>>
vars == <<client, decoder, phase, refuse, pos, decoded, headers>>

Cost(f) == IF f = "wide" THEN TableMax + 1 ELSE 1

\* dec_set_max: the oldest entries go until the rest fits.
Fit(t, room) == IF Len(t) <= room THEN t ELSE SubSeq(t, Len(t) - room + 1, Len(t))

\* dec_add: an entry larger than the table empties it and is not stored.
Add(t, f, room) ==
  IF Cost(f) > room THEN <<>> ELSE Append(Fit(t, room - Cost(f)), f)

\* hpack_resolve, for the dynamic part: index 1 is the newest entry.
Resolve(t, i) == t[Len(t) + 1 - i]

Init ==
  /\ enc = <<>> /\ encmax = TableMax /\ block = <<>> /\ phase = "write"
  /\ refuse \in BOOLEAN
  /\ max = TableMax /\ e = <<>> /\ pos = 1 /\ decoded = 0 /\ headers = 0

-----------------------------------------------------------------------------
(* The client's encoder.                                                   *)

Put(rep) == /\ phase = "write" /\ Len(block) < MaxBlock
            /\ block' = Append(block, rep)

PutIndexed ==
  /\ \E i \in 1..Len(enc) : Put([op |-> "indexed", i |-> i, f |-> Resolve(enc, i)])
  /\ UNCHANGED <<enc, encmax, decoder, phase, refuse, pos, decoded, headers>>

PutLiteral(f) ==
  /\ \/ Put([op |-> "insert", i |-> 0, f |-> f]) /\ enc' = Add(enc, f, encmax)
     \/ Put([op |-> "literal", i |-> 0, f |-> f]) /\ enc' = enc
  /\ UNCHANGED <<encmax, decoder, phase, refuse, pos, decoded, headers>>

\* Only before the first field of a block.
PutSizeUpdate(m) ==
  /\ \A k \in DOMAIN block : block[k].op = "resize"
  /\ Put([op |-> "resize", i |-> m, f |-> "none"])
  /\ encmax' = m /\ enc' = Fit(enc, m)
  /\ UNCHANGED <<decoder, phase, refuse, pos, decoded, headers>>

\* END_HEADERS: the block is whole.
Send ==
  /\ phase = "write" /\ block # <<>>
  /\ phase' = "decode"
  /\ UNCHANGED <<client, decoder, refuse, pos, decoded, headers>>

-----------------------------------------------------------------------------
(* The server.                                                             *)

\* The end of h2_finish_headers: the next block may begin, on a stream that
\* is refused or not.
NextBlock ==
  /\ phase' = "write" /\ block' = <<>> /\ pos' = 1 /\ decoded' = 0 /\ headers' = 0
  /\ refuse' \in BOOLEAN /\ UNCHANGED <<enc, encmax>>

\* COMPRESSION_ERROR: an HPACK failure that does not come from h2_emit; or no
\* memory.  Either ends the connection.
ConnError ==
  /\ phase' = "dead"
  /\ UNCHANGED <<client, decoder, refuse, pos, decoded, headers>>

\* What zhp_decode_ refuses by itself in the representation at pos.
BadRep(rep) ==
  \/ rep.op = "indexed" /\ rep.i > Len(e)
  \/ rep.op = "resize" /\ (decoded > 0 \/ rep.i > TableMax)
  \/ rep.op # "resize" /\ decoded >= MaxList

\* h2_emit refuses a field past the request's cap (or a malformed one, which
\* a legal client does not send).
EmitRefuses == headers >= MaxHeaders

\* One turn of zhp_decode_'s loop.
Decode ==
  /\ phase = "decode" /\ pos <= Len(block)
  /\ LET rep == block[pos]
     IN  \/ ConnError                        \* BadRep, or no memory
         \/ /\ ~BadRep(rep) /\ rep.op = "resize"
            /\ max' = rep.i /\ e' = Fit(e, rep.i) /\ pos' = pos + 1
            /\ UNCHANGED <<client, phase, refuse, decoded, headers>>
         \/ \* the decode stops here; only the stream is reset
            /\ ~BadRep(rep) /\ rep.op # "resize" /\ EmitRefuses
            /\ NextBlock /\ UNCHANGED decoder
         \/ /\ ~BadRep(rep) /\ rep.op # "resize" /\ ~EmitRefuses
            /\ e' = IF rep.op = "insert" THEN Add(e, rep.f, max) ELSE e
            /\ pos' = pos + 1 /\ decoded' = decoded + 1 /\ headers' = headers + 1
            /\ UNCHANGED <<client, max, phase, refuse>>

\* The whole block is decoded; the stream is refused, or its request goes on.
Finish ==
  /\ phase = "decode" /\ pos > Len(block)
  /\ NextBlock /\ UNCHANGED decoder

Next ==
  \/ PutIndexed \/ \E f \in Fields : PutLiteral(f)
  \/ \E m \in 0..TableMax : PutSizeUpdate(m)
  \/ Send \/ Decode \/ Finish

Spec == Init /\ [][Next]_vars

-----------------------------------------------------------------------------
(* Between two blocks the decoder's dynamic table is the encoder's: what   *)
(* the comment in h2_on_headers says is the reason to decode even a        *)
(* refused stream's block.                                                 *)
TablesAgree == phase = "write" /\ block = <<>> => e = enc /\ max = encmax
=============================================================================
