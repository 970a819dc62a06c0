------------------------------- MODULE CBuffer -------------------------------
(***************************************************************************)
(* The chain of pages in which the proxy keeps the messages it has         *)
(* received (lib/shared/cbuf.c), as functions of its contents.             *)
(*                                                                         *)
(* A chain is [page, next, tail]: the pages in the order of their          *)
(* allocation, the ring that links them, and the page that is written.     *)
(* A cursor is [page, index]; an index counts the cells that precede it.   *)
(* Only what the proxy uses is modelled: `read`, the chain's own reading   *)
(* position, is not.                                                       *)
(***************************************************************************)
EXTENDS Integers, Sequences, SequencesExt

CONSTANTS
  PageSize,  \* cells in a page
  Outside    \* what is read beyond the end of a page

ASSUME CBufferAssumption == PageSize \in Nat \ {0}

(* cbuf_add_page: a page of its own, not yet linked.                       *)
EmptyPage == [empty |-> 1, fill |-> 0, buf |-> [k \in 1..PageSize |-> Outside]]

(* cbuf_create.                                                            *)
NewChain == [page |-> <<EmptyPage>>, next |-> <<1>>, tail |-> 1]

(* cbuf_add_page: a new page after the tail becomes the tail.              *)
AddPage(cbuf) ==
  LET new == Len(cbuf.page) + 1
  IN  [page |-> Append(cbuf.page, EmptyPage),
       next |-> Append([cbuf.next EXCEPT ![cbuf.tail] = new], cbuf.next[cbuf.tail]),
       tail |-> new]

(* cbuf_write, where it goes on to another page: the next one if it has    *)
(* been read to its end.                                                   *)
NextPage(cbuf) ==
  IF cbuf.page[cbuf.next[cbuf.tail]].empty = 1
    THEN [cbuf EXCEPT !.tail = cbuf.next[cbuf.tail]]
    ELSE AddPage(cbuf)

Room(cbuf) == IF cbuf.page[cbuf.tail].fill < PageSize THEN cbuf ELSE NextPage(cbuf)

WriteCell(cbuf, cell) ==
  LET c == Room(cbuf)
      k == c.page[c.tail].fill + 1
  IN  [c EXCEPT !.page[c.tail].empty = 0, !.page[c.tail].fill = k,
                !.page[c.tail].buf[k] = cell]

(* cbuf_write.                                                             *)
Write(cbuf, cells) == FoldLeft(WriteCell, cbuf, cells)

(* cbuf_write_cursor: where the next cell would go, unless the page is     *)
(* full: then the cursor is at its end, and the next cell is elsewhere.    *)
WriteCursor(cbuf) == [page |-> cbuf.tail, index |-> cbuf.page[cbuf.tail].fill]

(* cbuf_cursor_page_remaining.  A size_t: a cursor beyond the fill of its  *)
(* page has nearly 2^64 bytes before it, more than any message is long.    *)
PageRemaining(cbuf, cursor, length) ==
  LET fill == cbuf.page[cursor.page].fill
  IN  IF fill < cursor.index THEN length ELSE fill - cursor.index

(* cbuf_cursor_pointer, and the n cells that are read there.               *)
CellsAt(cbuf, cursor, n) ==
  [k \in 1..n |-> IF cursor.index + k <= PageSize
                    THEN cbuf.page[cursor.page].buf[cursor.index + k] ELSE Outside]

AtEnd(cbuf, cursor) == cursor.index = cbuf.page[cursor.page].fill

(* Mutant of Advanced: at the end of a page the cursor stays there.        *)
AdvancedInPage(cbuf, cursor, n) == [cursor EXCEPT !.index = @ + n]

(* cbuf_advance_cursor, for an n that does not leave the page.             *)
Advanced(cbuf, cursor, n) ==
  LET there == [cursor EXCEPT !.index = @ + n]
  IN  IF AtEnd(cbuf, there) THEN [page |-> cbuf.next[cursor.page], index |-> 0] ELSE there

(* cbuf_consume_cursor, where it leaves a page.                            *)
LeavePage(s) ==
  IF AtEnd(s.cbuf, s.cursor)
    THEN [cbuf |-> [s.cbuf EXCEPT !.page[s.cursor.page].empty = 1,
                                  !.page[s.cursor.page].fill = 0],
          cursor |-> [page |-> s.cbuf.next[s.cursor.page], index |-> 0]]
    ELSE s

ConsumeCell(s, k) ==
  LET at == LeavePage(s)
  IN  LeavePage([at EXCEPT !.cursor.index = @ + 1])

(* cbuf_consume_cursor: pages that are read to their end may be written    *)
(* again.                                                                  *)
Consumed(cbuf, cursor, n) ==
  FoldLeft(ConsumeCell, [cbuf |-> cbuf, cursor |-> cursor], [k \in 1..n |-> k]).cbuf
=============================================================================
