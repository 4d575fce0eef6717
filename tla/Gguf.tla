---------------------------------- MODULE Gguf ----------------------------------
(***************************************************************************)
(* The model file and its way to the device: the bounded GGUF decoder      *)
(* (gguf.c), the page-aligned views (gguf_plan.c), and the catalog of      *)
(* weights that is described from the file and attached to the views       *)
(* (qwen38_weights.c).  Names are values, offsets and sizes numbers; a     *)
(* refusal that ends the process (die) is ok = FALSE.                      *)
(***************************************************************************)
EXTENDS Naturals, Sequences, SequencesExt, FiniteSets

CONSTANTS SizeMax,      \* the largest size_t
          HeaderMax,    \* how much of a file is mapped for its header, 128 MiB
          Table         \* the name of the disk-only table

Least(S) == CHOOSE x \in S : \A y \in S : x <= y
\* Rounding to a power of two, as the masks do.
Floor(n, unit) == n - (n % unit)
Ceiling(n, unit) == Floor(n + unit - 1, unit)

-----------------------------------------------------------------------------
(* Reading the descriptors.                                                 *)

\* Elements and bytes of a block.
gguf_format == [type \in {0, 1, 8, 10, 12, 16, 30, 39} |->
    CASE type = 0 -> <<1, 4>>     [] type \in {1, 30} -> <<1, 2>>
      [] type = 8 -> <<32, 34>>   [] type = 10 -> <<256, 84>>
      [] type = 12 -> <<256, 144>> [] type = 16 -> <<256, 66>>
      [] type = 39 -> <<32, 17>>]

Bytes(type, shape) ==
    FoldLeft(LAMBDA n, d : n * d, (shape[1] \div gguf_format[type][1]) * gguf_format[type][2],
             Tail(shape))

\* A tensor the decoder reads past: its offset is still relative.
readable(t, alignment) ==
    /\ Len(t.shape) \in 1 .. 4
    /\ \A d \in DOMAIN t.shape : t.shape[d] > 0
    /\ t.type \in DOMAIN gguf_format
    /\ t.shape[1] % gguf_format[t.type][1] = 0
    /\ t.at % alignment = 0
    /\ Bytes(t.type, t.shape) <= SizeMax

Distinct(s) == \A i, j \in DOMAIN s : s[i] = s[j] => i = j

\* Tensors in file order are behind the header and one another and inside the file.
in_order(g) ==
    \A i \in DOMAIN g.tensors :
        LET t == g.tensors[i]
            end == IF i = 1 THEN g.data_offset
                   ELSE g.tensors[i - 1].file_offset + g.tensors[i - 1].bytes IN
        /\ t.file_offset <= SizeMax
        /\ t.file_offset >= end
        /\ t.file_offset + t.bytes <= g.file_size

\* f: file size, end of the descriptors, alignment, architecture, metadata keys, tensors.
gguf_open(f) ==
    LET start == Ceiling(f.header, f.alignment)
        located(t) == [name |-> t.name, type |-> t.type, shape |-> t.shape,
                       file_offset |-> start + t.at, bytes |-> Bytes(t.type, t.shape)]
        g == [ok |-> TRUE, file_size |-> f.size, data_offset |-> start,
              tensors |-> SortSeq([i \in DOMAIN f.tensors |-> located(f.tensors[i])],
                                  LAMBDA a, b : a.file_offset < b.file_offset)]
        sound ==
            /\ f.size >= 24 /\ f.tensors # <<>>
            /\ Distinct(f.keys) /\ f.architecture
            /\ \A i \in DOMAIN f.tensors : readable(f.tensors[i], f.alignment)
            /\ start <= SizeMax /\ start <= Least({f.size, HeaderMax})
            /\ Distinct([i \in DOMAIN f.tensors |-> f.tensors[i].name])
    IN IF sound /\ in_order(g) THEN g ELSE [ok |-> FALSE]

-----------------------------------------------------------------------------
(* The views.                                                               *)

hits_table(disk, start, end) ==
    disk.bytes > 0 /\ start < disk.file_offset + disk.bytes /\ disk.file_offset < end

\* The disk-only table, on pages of its own.
disk_table(g) ==
    LET here == {i \in DOMAIN g.tensors : g.tensors[i].name = Table} IN
    IF here = {} THEN [file_offset |-> 0, bytes |-> 0] ELSE g.tensors[Least(here)]
table_admitted(g, page) ==
    \A i \in DOMAIN g.tensors :
        LET t == g.tensors[i] IN
        t.name = Table => /\ t.type = 30 /\ Len(t.shape) = 2
                          /\ t.file_offset % page = 0 /\ (t.file_offset + t.bytes) % page = 0

\* A view is left when the next tensor would make it too long or lead it over the table.
Breaks_table(p, end, limit) ==    \* mutant: a view may lead over the table
    p.views = <<>> \/ end - Last(p.views).file_offset > limit
Breaks(p, end, limit) ==
    \/ p.views = <<>>
    \/ end - Last(p.views).file_offset > limit
    \/ hits_table(p.disk, Last(p.views).file_offset, end)

\* One tensor of the second loop of gguf_plan.
Bound(p, t, page, limit) ==
    LET start == Floor(t.file_offset, page)
        end == Ceiling(t.file_offset + t.bytes, page)
        grown == IF Breaks(p, end, limit)
                 THEN Append(p.views, [file_offset |-> start, bytes |-> end - start])
                 ELSE [p.views EXCEPT ![Len(p.views)].bytes =
                          end - p.views[Len(p.views)].file_offset] IN
    IF \/ ~p.ok \/ t.file_offset + t.bytes + page - 1 > SizeMax
       \/ end - start > limit \/ hits_table(p.disk, start, end)
    THEN [p EXCEPT !.ok = FALSE]
    ELSE [p EXCEPT !.views = grown,
                   !.weights = Append(@, [tensor |-> t, buffer_id |-> Len(grown),
                                          offset |-> t.file_offset - Last(grown).file_offset])]

gguf_plan(g, page, limit) ==
    LET whole == Floor(limit, page)
        resident == SelectSeq(g.tensors, LAMBDA t : t.name # Table)
        empty == [ok |-> whole > 0 /\ table_admitted(g, page), views |-> <<>>, weights |-> <<>>,
                  disk |-> disk_table(g)]
        p == FoldLeft(LAMBDA q, t : Bound(q, t, page, whole), empty, resident)
    IN [p EXCEPT !.ok = @ /\ p.weights # <<>>]

-----------------------------------------------------------------------------
(* The catalog.                                                             *)

\* The one tensor of the file the ith role asks for, and why it is refused: it
\* may be missing or there twice, be another tensor, or have a role already.
record(g, roles, i) ==
    LET role == roles[i]
        here == SelectSeq(g.tensors, LAMBDA t : t.name = role.name)
        taken == \E j \in 1 .. (i - 1) : roles[j].name = role.name IN
    CASE here = <<>> -> "MISSING"
      [] Len(here) > 1 -> "FORMAT"
      [] OTHER -> IF here[1].type # role.type THEN "FORMAT"
                  ELSE IF here[1].shape # role.shape THEN "SHAPE"
                  ELSE IF role.shape[1] % gguf_format[role.type][1] # 0 THEN "SHAPE"
                  ELSE IF Bytes(role.type, role.shape) > SizeMax THEN "OVERFLOW"
                  ELSE IF Bytes(role.type, role.shape) # here[1].bytes \/ taken THEN "FORMAT"
                  ELSE "OK"

\* The roles in order, then every tensor of the file must have got one. Left out:
\* the 4 MiB budget of catalog and configuration (lines 148-152).
weights_describe(g, roles) ==
    LET bad == {i \in DOMAIN roles : record(g, roles, i) # "OK"} IN
    CASE ~in_order(g) -> "FORMAT"
      [] in_order(g) /\ bad # {} -> record(g, roles, Least(bad))
      [] OTHER -> IF {g.tensors[i].name : i \in DOMAIN g.tensors}
                          \subseteq {roles[i].name : i \in DOMAIN roles}
                  THEN "OK" ELSE "UNSUPPORTED"

spans(p, b, t) ==
    LET v == p.views[b.buffer_id] IN
    /\ b.offset + t.bytes <= v.bytes
    /\ v.file_offset <= t.file_offset /\ b.offset = t.file_offset - v.file_offset

\* The binding of one tensor of the catalog in the plan: none but one of the same tensor.
association(p, t) ==
    LET named == SelectSeq(p.weights, LAMBDA b : b.tensor.name = t.name) IN
    CASE named = <<>> -> "MISSING"
      [] Len(named) > 1 -> "FORMAT"
      [] OTHER -> IF named[1].tensor # t THEN "FORMAT"
                  ELSE IF named[1].buffer_id \notin DOMAIN p.views \/ ~spans(p, named[1], t)
                  THEN "RANGE" ELSE "OK"

\* Every association is checked before any is published. The catalog is the one
\* just described from g and not attached yet, and p a plan of g: the refusals of
\* another reader, a second call or a changed catalog (lines 191-195, 217, 230)
\* are left out.
weights_attach(g, p) ==
    LET resident == SelectSeq(g.tensors, LAMBDA t : t.name # Table)
        bad == {i \in DOMAIN resident : association(p, resident[i]) # "OK"}
        counts == Len(p.weights) = Len(g.tensors) - 1 /\ Len(p.views) \in 1 .. Len(p.weights)
        table == p.disk.bytes > 0 /\ p.disk = disk_table(g)
        apart == \A i \in DOMAIN p.views :
                    ~hits_table(p.disk, p.views[i].file_offset, p.views[i].file_offset + p.views[i].bytes)
    IN CASE ~counts -> "SHAPE"
         [] counts /\ ~table -> "FORMAT"
         [] counts /\ table /\ ~apart -> "RANGE"
         [] OTHER -> IF bad = {} THEN "OK" ELSE association(p, resident[Least(bad)])
===============================================================================
