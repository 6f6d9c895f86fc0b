------------------------------ MODULE Resources ------------------------------
(***************************************************************************)
(* How the C programs under samples/plain_doca acquire resources: calls in *)
(* a row, each of which may fail and then releases what came before it     *)
(* through goto labels.                                                    *)
(***************************************************************************)
EXTENDS Naturals, Sequences, FiniteSets, Functions

\* A row is one call: what it acquires, what it releases when it succeeds, what
\* is released (in this order) when it fails, and whether its caller looks at
\* the result.
Row(gets, drops, undo) == [gets |-> gets, drops |-> drops, undo |-> undo, checked |-> TRUE]

Gets(r) == <<Row({r}, {}, <<>>)>>

Calls(names) == [i \in DOMAIN names |-> Row({}, {}, <<>>)]

\* The goto label that the rows jump to releases these as well.
Under(rows, label) == [i \in DOMAIN rows |-> [rows[i] EXCEPT !.undo = @ \o label]]

Unchecked(rows) == [i \in DOMAIN rows |-> [rows[i] EXCEPT !.checked = FALSE]]

\* The usual shape of a function open_x: a create call, then calls that configure
\* or start the new object, and destroy it when they fail.
Opens(r, names) == Gets(r) \o Under(Calls(names), <<r>>)

\* The usual shape of open_device: the first matching entry of a list that can
\* be opened; the list is released either way.
Picks(r, list) == Gets(list) \o <<Row({r}, {list}, <<list>>)>>

\* What a resource was made from, and DOCA or the kernel needs for as long as
\* the resource is there (external).
Bases(r) ==
    CASE r = "pe" -> {"epoll"}
      [] r \in {"rep", "mmap", "mmap_in", "mmap_out", "local_mmap", "remote_mmap"} -> {"dev"}
      [] r \in {"client", "server", "compress", "dma", "consumer", "producer"} -> {"dev", "pe"}
      [] r \in {"buf_in", "buf_out"} ->
            {"inv", "mmap", "mmap_in", "mmap_out", "local_mmap", "remote_mmap"}
      [] r = "task" -> {"compress", "dma", "consumer", "producer"}
      [] r = "send" -> {"client", "server"}
      [] OTHER -> {}

Names(S) == {r[1] : r \in S}

\* The releases of seq that are wrong: of something not held (unless that is
\* a no-op), or of something that what is still held was made from.
Wrong(S, seq, optional) ==
    {seq[i] : i \in {j \in DOMAIN seq :
        LET before == S \ {seq[k] : k \in 1..(j - 1)}
            after == before \ {seq[j]}
        IN \/ seq[j] \notin before \cup optional
           \/ \E r \in after : seq[j] \in Bases(r)}}

\* What a sequence of calls may come to: all succeed but for some unchecked
\* ones, or the first checked one that fails is k.
Outcomes(rows, optional) ==
    LET unchecked == {i \in DOMAIN rows : ~rows[i].checked}
        Got(k, U) == UNION {rows[i].gets : i \in 1..(k - 1) \ U}
                        \ UNION {rows[i].drops : i \in 1..(k - 1) \ U}
    IN {[ok |-> TRUE, held |-> Got(Len(rows) + 1, U), bad |-> {}] : U \in SUBSET unchecked}
       \cup
       UNION {{[ok |-> FALSE, held |-> Got(k, U) \ Range(rows[k].undo),
                bad |-> Wrong(Got(k, U), rows[k].undo, optional)] : U \in SUBSET unchecked}
              : k \in DOMAIN rows \ unchecked}

\* The same resource of different blocks is told apart by a number.
Tag(names, num) == {<<r, num>> : r \in names}
=============================================================================
