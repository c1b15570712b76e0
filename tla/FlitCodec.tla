------------------------------- MODULE FlitCodec --------------------------------
(***************************************************************************)
(* tb/models/flit.py beside coh_pkg's flit_t: the testbench packs a list   *)
(* of flits into the vector it drives on a router's input ports and        *)
(* unpacks the vector of the output ports; the design reads and writes the *)
(* same vectors through a packed struct in a packed array.                 *)
(***************************************************************************)
EXTENDS Integers, FiniteSetsExt, SequencesExt

CONSTANTS NumPorts,     \* ports in a vector
          PayloadWidth  \* bits of payload

FlitCodecTypes == NumPorts \in Nat \ {0} /\ PayloadWidth \in Nat \ {0}

Width == [head |-> 1, tail |-> 1, vnet |-> 2, vc_id |-> 1, dst_x |-> 1, dst_y |-> 1,
          src_id |-> 2, payload |-> PayloadWidth]

Field == DOMAIN Width

Idle == [fld \in Field |-> 0]

Ones == [fld \in Field |-> IF fld = "vnet" THEN 2 ELSE 2 ^ Width[fld] - 1]

FieldValue(fld) == IF fld = "vnet" THEN 0 .. 2 ELSE 0 .. 2 ^ Width[fld] - 1

\* One field has any of its values, the others are all zeros or all ones.
Sample == UNION {{[rest EXCEPT ![fld] = v] : v \in FieldValue(fld)} :
                    fld \in Field, rest \in {Idle, Ones}}

Port == 0 .. NumPorts - 1

VARIABLES flits,    \* what each port is to carry
          word      \* the vector

vars == <<flits, word>>

Slice(w, lsb, width) == (w \div 2 ^ lsb) % 2 ^ width

---------------------------------------------------------------------------
(* The testbench *)

\* Faulty: the coordinates in the order of the declaration.
FieldsXFirst == <<"payload", "src_id", "dst_x", "dst_y", "vc_id", "vnet", "tail", "head">>

\* From the least significant bit.
Fields == <<"payload", "src_id", "dst_y", "dst_x", "vc_id", "vnet", "tail", "head">>

WidthOf(fields) == FoldLeft(LAMBDA sum, fld : sum + Width[fld], 0, fields)

Offset == [fld \in Field |->
    WidthOf(SubSeq(Fields, 1, (CHOOSE i \in DOMAIN Fields : Fields[i] = fld) - 1))]

FlitW == WidthOf(Fields)

pack(flit) == MapThenSumSet(LAMBDA fld : flit[fld] * 2 ^ Offset[fld], Field)

unpack(w) == [fld \in Field |-> Slice(w, Offset[fld], Width[fld])]

pack_ports(fs) == MapThenSumSet(LAMBDA p : pack(fs[p]) * 2 ^ (p * FlitW), Port)

\* Faulty: the offset of the port in fields, not in bits.
unpackPortNear(w, p) == unpack(Slice(w, p * Len(Fields), FlitW))

unpack_port(w, p) == unpack(Slice(w, p * FlitW, FlitW))

---------------------------------------------------------------------------
(* The design *)

\* The fields of flit_t as declared, the first in the most significant bits.
flit_t == <<"head", "tail", "vnet", "vc_id", "dst_x", "dst_y", "src_id", "payload">>

\* A packed struct is the concatenation of its fields, a packed array that of
\* its elements from the last to the first.
Struct(flit) == FoldLeft(LAMBDA w, fld : w * 2 ^ Width[fld] + flit[fld], 0, flit_t)

Vector(fs) ==
    FoldLeft(LAMBDA w, p : w * 2 ^ FlitW + Struct(fs[p]), 0, Reverse(SetToSortSeq(Port, <)))

---------------------------------------------------------------------------
(* One flit on a port, whatever its neighbours carry *)

AllIdle == [p \in Port |-> Idle]

Init == flits = AllIdle /\ word = 0

\* The ports of a cycle: one carries flit, the others are idle or all ones.
Cycle(p, flit, others) ==
    /\ flits = AllIdle
    /\ flits' = [q \in Port |-> IF q = p THEN flit ELSE others]

\* The harness drives the routers' inputs.
Drive(p, flit, others) == Cycle(p, flit, others) /\ word' = pack_ports(flits')

\* The design drives its outputs.
Observe(p, flit, others) == Cycle(p, flit, others) /\ word' = Vector(flits')

\* Nothing is sent in the cycle after.
Rest == flits # AllIdle /\ flits' = AllIdle /\ word' = pack_ports(flits')

Next ==
    \/ \E p \in Port, flit \in Sample, others \in {Idle, Ones} :
           Drive(p, flit, others) \/ Observe(p, flit, others)
    \/ Rest

Spec == Init /\ [][Next]_vars

---------------------------------------------------------------------------
(* Properties *)

\* Driven by the testbench, the vector is the design's vector of those flits:
\* the declaration order, the widths and the direction of the array agree.
SameWires == word = Vector(flits)

\* Whoever drove it, the testbench reads from the vector the flit of each port.
SameFlits == \A p \in Port : unpack_port(word, p) = flits[p]
=============================================================================
