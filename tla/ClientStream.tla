----------------------------- MODULE ClientStream -----------------------------
(***************************************************************************)
(* A BufferedWriter and the network stream its reader thread writes to:    *)
(* net_stream_write of lib/client/net_stream.c over socket_sendto of       *)
(* lib/ocomm/socket.c.  A socket that has noticed a disconnection connects *)
(* again when it is next used, and the stream must then send the protocol  *)
(* headers before anything else: the server knows nothing of the client,   *)
(* nor of the schemas declared through MS 0.                               *)
(*                                                                         *)
(* Data abstraction.  What the socket takes of a row is all of it, or a    *)
(* first part, its "head", and later the rest, its "tail".  The wire holds *)
(* what the socket has taken since it last connected, of which the server  *)
(* may lose the end with the connection, and a mark for each sendto that   *)
(* failed and left the connection in place: "fail" if net_stream_write     *)
(* failed with it, "noheader" if it did not.  Headers are sent whole or    *)
(* not at all, as net_stream_write assumes.                                *)
(***************************************************************************)
EXTENDS BufferedWriter

CONSTANTS
  SendErrors,  \* how sendto may fail: "closed", "interrupted", "other"
  MaxWire      \* bound: items on the wire when the stream sends more

ASSUME StreamAssumption ==
  /\ SendErrors \subseteq {"closed", "interrupted", "other"}
  /\ MaxWire \in Nat

VARIABLES
  is_disconnected,  \* 1 once the socket has noticed; a new socket is
  header_written,   \* the stream's flag: headers sent on this connection
  step,             \* "call" net_stream_write, or "data" after the headers
  part,             \* 1 when the head of row sent + 1 was sent
  peer,             \* the server's end of the connection
  wire              \* <<kind, content>> of what was sent on this connection

streamVars == <<is_disconnected, header_written, step, part, peer, wire>>
allVars == <<vars, streamVars>>

StreamInit ==
  /\ Init
  /\ is_disconnected = 1
  /\ header_written = 0
  /\ step = "call"
  /\ part = 0
  /\ peer = "closed"
  /\ wire = << >>

-----------------------------------------------------------------------------
(* The call that processChunk makes.                                       *)

InCall == rpc = "send" /\ sent < Len(buf[chunk]) /\ Len(wire) < MaxWire

(* Mutant of NeedsHeader: nobody looks at the state of the socket.         *)
HeaderOnce == header_written = 0

(* net_stream_write forgets that it sent the headers when the socket has   *)
(* noticed a disconnection.                                                *)
NeedsHeader == is_disconnected = 1 \/ header_written = 0

WritesHeader == InCall /\ step = "call" /\ NeedsHeader

WritesData == InCall /\ (step = "data" \/ (step = "call" /\ ~NeedsHeader))

(* socket_sendto gets to sendto: on the connection it has, if recv does    *)
(* not tell that it is closed, or on a new one.                            *)
Reaches(onWire) ==
  \/ /\ is_disconnected = 1
     /\ is_disconnected' = 0
     /\ peer' = "open"
     /\ wire' = onWire
  \/ /\ is_disconnected = 0
     /\ peer = "open"
     /\ wire' = wire \o onWire
     /\ UNCHANGED <<is_disconnected, peer>>

(* socket_sendto returns 0 and the socket is disconnected: connect fails,  *)
(* recv tells that the server closed, or sendto does.                      *)
FindsClosed ==
  /\ "closed" \in SendErrors
  /\ is_disconnected' = 1
  /\ peer' = "closed"
  /\ UNCHANGED wire

SendHeader ==
  /\ WritesHeader
  /\ Reaches(<< <<"header", meta>> >>)
  /\ header_written' = 1
  /\ step' = "data"
  /\ UNCHANGED <<vars, part>>

(* socket_sendto returns 0 for the headers, and so does net_stream_write.  *)
FailHeader ==
  /\ WritesHeader
  /\ \/ FindsClosed
     \/ /\ "interrupted" \in SendErrors
        /\ Reaches(<< <<"fail", 0>> >>)
  /\ header_written' = 0
  /\ WriteFail
  /\ UNCHANGED <<step, part>>

(* sendto fails otherwise: socket_write returns -1, as a size_t not less   *)
(* than header_length, and the headers pass for written.                   *)
LoseHeader ==
  /\ WritesHeader
  /\ "other" \in SendErrors
  /\ Reaches(<< <<"noheader", 0>> >>)
  /\ header_written' = 1
  /\ step' = "data"
  /\ UNCHANGED <<vars, part>>

(* The socket takes the rest of the row under way and others, n in all,    *)
(* and with k = 1 the head of one more.                                    *)
SendData(n, k) ==
  LET row(i) == buf[chunk][sent + i]
      whole == [i \in 1..n |-> <<IF i = 1 /\ part = 1 THEN "tail" ELSE "row", row(i)>>]
      head == IF k = 1 /\ ~(n = 0 /\ part = 1) THEN << <<"head", row(n + 1)>> >> ELSE << >>
  IN
  /\ WritesData
  /\ n + k > 0
  /\ sent + n + k <= Len(buf[chunk])
  /\ Reaches(whole \o head)
  /\ WriteOk(n)
  /\ part' = k
  /\ step' = "call"
  /\ UNCHANGED header_written

(* net_stream_write returns 0 or -1: processChunk gives up the chunk.      *)
FailData ==
  /\ WritesData
  /\ \/ FindsClosed
     \/ /\ SendErrors \cap {"interrupted", "other"} # {}
        /\ Reaches(<< <<"fail", 0>> >>)
  /\ WriteFail
  /\ part' = 0
  /\ step' = "call"
  /\ UNCHANGED header_written

(* The server closes the connection; the client has yet to notice.         *)
PeerCloses ==
  /\ peer = "open"
  /\ "closed" \in SendErrors
  /\ peer' = "closed"
  /\ UNCHANGED <<vars, is_disconnected, header_written, step, part, wire>>

StreamNext ==
  \/ Elsewhere /\ UNCHANGED streamVars
  \/ SendHeader \/ FailHeader \/ LoseHeader
  \/ \E n \in 0..TargetBufSize, k \in {0, 1} : SendData(n, k)
  \/ FailData
  \/ PeerCloses

StreamSpec == StreamInit /\ [][StreamNext]_allVars

-----------------------------------------------------------------------------
(* Properties.                                                             *)

Kind(i) == wire[i][1]

RowAt(i) == wire[i][2]

IsRow(i) == Kind(i) \in {"row", "head", "tail"}

(* "If the connection needs to be re-established, header is sent first,    *)
(* then buffer": whatever was under way when the connection was lost, no   *)
(* row goes before the headers on a new one.  The code does not hold to it *)
(* when sendto fails in a way that socket_sendto reports as -1.            *)
HeaderFirst ==
  \A j \in 1..Len(wire) : IsRow(j) => \E i \in 1..(j - 1) : Kind(i) = "header"

(* No other failure makes net_stream_write skip the headers.               *)
HeaderFirstUnlessError ==
  HeaderFirst \/ \E i \in 1..Len(wire) : Kind(i) = "noheader"

(* Between failures the rows on a connection are whole, in order and not   *)
(* repeated: the connection is where processChunk believes it to be, and   *)
(* after a failure it sends from the beginning of a row.                   *)
RowsWholeAndInOrder ==
  \A j \in 1..Len(wire) : IsRow(j) =>
    /\ Kind(j) = "tail" => j > 1 /\ wire[j - 1] = <<"head", RowAt(j)>>
    /\ j > 1 /\ Kind(j - 1) = "head" => wire[j] = <<"tail", RowAt(j - 1)>>
    /\ \A i \in 1..(j - 1) : IsRow(i) /\ (\A k \in i..j : Kind(k) # "fail") =>
         RowAt(i) < RowAt(j) \/ (i = j - 1 /\ Kind(j) = "tail")

Declared(s, j) ==
  \E i \in 1..(j - 1) :
    \/ IsRow(i) /\ RowAt(i) = s
    \/ Kind(i) = "header" /\ \E k \in 1..Len(wire[i][2]) : wire[i][2][k] = s

(* Unless rows were dropped or the headers skipped, a row follows the      *)
(* schema rows accepted before it on the same connection, be it as rows or *)
(* replayed with the headers.                                              *)
SchemaBeforeRow ==
  lost = << >> /\ (\A i \in 1..Len(wire) : Kind(i) # "noheader") =>
    \A j \in 1..Len(wire) : IsRow(j) =>
      \A s \in SchemaRows : s < RowAt(j) => Declared(s, j)
===============================================================================
