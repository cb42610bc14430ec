----------------------------- MODULE LogHandlers -----------------------------
(* The log handlers of a Helm action (internal/action/log.go), which Helm    *)
(* derives from one another and uses from several goroutines: each carries   *)
(* slices of attributes and of group names, and a slice is a stretch of an   *)
(* array that others may share.                                              *)
EXTENDS Integers, Sequences

CONSTANTS
  AttrNames,        \* of attributes and groups alike
  MaxHandlers

ASSUME HandlersAssumption == AttrNames \subseteq STRING /\ MaxHandlers \in Nat

VARIABLES
  arrays,    \* the arrays of attributes: their capacity and what was written
  groups,    \* and those of group names
  handlers,  \* [attrs, group] : slices, by the order of their making
  meant,      \* ghost: the attributes each handler was made to carry
  line       \* the attributes of the latest line, and those it should have

handlerVars == <<arrays, groups, handlers, meant, line>>

(* -------------------------------- slices ------------------------------- *)

Nil == [at |-> 0, len |-> 0]
Elements(mem, s) ==
  IF s.at = 0 THEN << >> ELSE SubSeq(mem[s.at].cells, 1, s.len)

\* Mutant: append, which writes to the array of the slice while there is room.
ExtendedInPlace(mem, s, new) ==
  LET len == s.len + Len(new)
      cells == Elements(mem, s) \o new
  IN IF s.at # 0 /\ len <= mem[s.at].cap
     THEN [mem |-> [mem EXCEPT ![s.at].cells =
                      cells \o SubSeq(@, len + 1, Len(@))],
           slice |-> [at |-> s.at, len |-> len]]
     ELSE [mem |-> Append(mem, [cap |-> IF len > 2 * s.len THEN len ELSE 2 * s.len,
                                cells |-> cells]),
           slice |-> [at |-> Len(mem) + 1, len |-> len]]

\* make and append: the elements are copied to an array of their own.
Extended(mem, s, new) ==
  LET cells == Elements(mem, s) \o new
  IN [mem |-> Append(mem, [cap |-> Len(cells), cells |-> cells]),
      slice |-> [at |-> Len(mem) + 1, len |-> Len(cells)]]

(* ------------------------------- handlers ------------------------------ *)

\* An attribute refers to the slice of group names of its handler.  Its value
\* tells who made it.
Grouped(h, names, value) ==
  [i \in DOMAIN names |-> [group |-> h.group, key |-> names[i], value |-> value]]

withAttrs(h, names, value) == Extended(arrays, h.attrs, Grouped(h, names, value))

\* The nested map Handle builds: the last attribute of a path stays; a group
\* replaces an attribute of its name, and an attribute a group.
Within(path, outer) == Len(outer) <= Len(path) /\ SubSeq(path, 1, Len(outer)) = outer
Replaces(a, b) == Within(a.path, b.path) \/ Within(b.path, a.path)
NestedMap(attrs) ==
  {attrs[i] : i \in {i \in DOMAIN attrs :
                      \A j \in DOMAIN attrs : j > i => ~Replaces(attrs[j], attrs[i])}}

Path(mem, a) == [path |-> Append(Elements(mem, a.group), a.key), value |-> a.value]
Carried(mem, s) ==
  [i \in 1..s.len |-> Path(groups, Elements(mem, s)[i])]

Room == Len(handlers) < MaxHandlers
Value == Len(handlers) + 1

WithAttrs(h, names) ==
  /\ Room
  /\ LET new == withAttrs(handlers[h], names, Value)
     IN /\ arrays' = new.mem
        /\ handlers' = Append(handlers, [handlers[h] EXCEPT !.attrs = new.slice])
  /\ meant' = Append(meant, [meant[h] EXCEPT !.attrs = @ \o
                 [i \in DOMAIN names |-> [path |-> Append(meant[h].group, names[i]),
                                          value |-> Value]]])
  /\ UNCHANGED <<groups, line>>

WithGroup(h, name) ==
  /\ Room
  /\ LET new == Extended(groups, handlers[h].group, <<name>>)
     IN /\ groups' = new.mem
        /\ handlers' = Append(handlers, [handlers[h] EXCEPT !.group = new.slice])
  /\ meant' = Append(meant, [meant[h] EXCEPT !.group = Append(@, name)])
  /\ UNCHANGED <<arrays, line>>

\* A record with attributes of its own.  The array of the copy is garbage
\* once the line is written.
Handle(h, names) ==
  LET new == withAttrs(handlers[h], names, 0)
  IN /\ arrays' = SubSeq(new.mem, 1, Len(arrays))
     /\ line' = [shown |-> NestedMap(Carried(new.mem, new.slice)),
                 wanted |-> NestedMap(meant[h].attrs \o
                   [i \in DOMAIN names |-> [path |-> Append(meant[h].group, names[i]),
                                            value |-> 0]])]
     /\ UNCHANGED <<groups, handlers, meant>>

HandlersInit ==
  /\ arrays = << >> /\ groups = << >>
  /\ handlers = <<[attrs |-> Nil, group |-> Nil]>>
  /\ meant = <<[attrs |-> << >>, group |-> << >>]>>
  /\ line = [shown |-> {}, wanted |-> {}]

HandlersNext ==
  \E h \in DOMAIN handlers :
    \/ \E name \in AttrNames : WithGroup(h, name)
    \/ \E names \in [1..1 -> AttrNames] \cup [1..2 -> AttrNames] : WithAttrs(h, names)
    \/ \E name \in AttrNames : Handle(h, <<name>>)

(* ------------------------------ properties ----------------------------- *)

\* A line shows the attributes its handler was made with and those of its
\* record, whatever other handlers were derived from the same one and
\* whatever they logged: withAttrs and WithGroup copy the slices.
LinesShowOwnAttrs == line.shown = line.wanted
=============================================================================
