----------------------------- MODULE Delegates -----------------------------
(***************************************************************************)
(* Cluster::find_representative: the delegate of a cluster is a member     *)
(* whose attributes are the most common of the cluster in as many of the   *)
(* useful columns as possible.  Ties between attributes are broken by      *)
(* their addresses and ties between members by the order of the list; the  *)
(* model takes any of them.                                                *)
(***************************************************************************)
EXTENDS Naturals, FiniteSets

CONSTANTS
  Records,      \* the records
  Columns,      \* useful_columns
  AttributeOf   \* the attribute of each record in each of them

ASSUME DelegatesAssumption ==
  /\ Columns # {}
  /\ DOMAIN AttributeOf = Records

\* The attributes of the members in a column, and how many have each.
Values(ms, c) == {AttributeOf[x][c] : x \in ms}
Tracer(ms, c, v) == Cardinality({x \in ms : AttributeOf[x][c] = v})

\* The attributes find_representative may hold for the most common one.
MostCommon(ms, c) ==
  {v \in Values(ms, c) : \A w \in Values(ms, c) : Tracer(ms, c, w) <= Tracer(ms, c, v)}

\* The columns in which a member agrees with a choice of those.
Agreement(x, most) == Cardinality({c \in Columns : AttributeOf[x][c] = most[c]})

\* The members that may become the delegate of a cluster.
Representatives(ms) ==
  {x \in ms :
     \E most \in [Columns -> UNION {Values(ms, c) : c \in Columns}] :
        /\ \A c \in Columns : most[c] \in MostCommon(ms, c)
        /\ \A y \in ms : Agreement(y, most) <= Agreement(x, most)}
=============================================================================
