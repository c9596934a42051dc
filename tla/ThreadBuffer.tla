---------------------------- MODULE ThreadBuffer ----------------------------
(***************************************************************************)
(* class thread_buffer (include/config.h, src/config.cpp): an array of     *)
(* `capacity' entries and the number `next' of entries in use.  None of    *)
(* its operations compares next with the capacity; capacity is the size of *)
(* DOMAIN buffer.  malloc leaves the entries undefined: Uninit.            *)
(***************************************************************************)
EXTENDS Integers

CONSTANT Uninit   \* the content of an entry nobody has written

tb_init(capacity) == [buffer |-> [k \in 0 .. capacity - 1 |-> Uninit], next |-> 0]

\* (Mutant) next is not reset.
NotCleared(b) == b

tb_clear(b) == [b EXCEPT !.next = 0]

\* The store of push, buffer[k] = id; the increment is tb_set_next.
tb_store(b, k, id) == [b EXCEPT !.buffer[k] = id]

\* (Mutant) next++ is forgotten.
NextStays(b, n) == b

tb_set_next(b, n) == [b EXCEPT !.next = n]

\* src.transfer(dst), as seen by dst: fetch_add of next, then memcpy.
tb_receive(dst, src) ==
  [buffer |-> [k \in DOMAIN dst.buffer |->
                 IF k \in dst.next .. dst.next + src.next - 1
                   THEN src.buffer[k - dst.next] ELSE dst.buffer[k]],
   next   |-> dst.next + src.next]

\* The entries in use.
tb_contents(b) == {b.buffer[k] : k \in 0 .. b.next - 1}
=============================================================================
