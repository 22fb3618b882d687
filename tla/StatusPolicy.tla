---------------------------- MODULE StatusPolicy ----------------------------
(***************************************************************************)
(* The status an option list determines for every code and reason.  By the *)
(* contract of mapper.New this is what the mapper built from the list      *)
(* answers, which is all that the edges know of it.                        *)
(***************************************************************************)
EXTENDS MapperOptions, FiniteSetsExt

\* The options of list o of one kind for one transport and code.
Chosen(o, kind, t, c) ==
  {i \in DOMAIN o : o[i].kind = kind /\ o[i].transport = t /\ o[i].code = c}

Prefix(o, i) == Normalize(o[i].prefix)

\* Prefix option i decides over j: a more specific prefix, or a later option
\* for the same one.
Decides(o, i, j) ==
  \/ Beats(Prefix(o, i), Prefix(o, j))
  \/ Prefix(o, i) = Prefix(o, j) /\ i > j

\* Override, then the deciding prefix rule, then the default given last, then
\* the library's, then the fallback.
Status(o, t, c, r) ==
  LET override == Chosen(o, "override", t, c)
      cover    == {i \in Chosen(o, "prefix", t, c) : Matches(Prefix(o, i), r)}
      default  == Chosen(o, "default", t, c)
  IN CASE override # {} -> Convert(t, o[Max(override)].val)
       [] override = {} /\ cover # {} ->
            LET i == CHOOSE i \in cover : \A j \in cover \ {i} : Decides(o, i, j)
            IN Convert(t, o[i].val)
       [] override \cup cover = {} /\ default # {} ->
            Convert(t, o[Max(default)].val)
       [] OTHER -> IF <<t, c>> \in DOMAIN Library THEN Library[<<t, c>>]
                                                   ELSE Fallback[t]

\* A list New can build a mapper from.
Buildable(o) == \A i \in DOMAIN o : o[i].kind = "prefix" => ValidPrefix(Prefix(o, i))
=============================================================================
