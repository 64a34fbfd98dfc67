--------------------------- MODULE MCConfigSearch ---------------------------
(* ConfigSearch over every configuration of a few sub-descriptors. *)
EXTENDS ConfigSearch, FiniteSets

(* The sizes stand for those of the standard: what matters is that they    *)
(* are not all the same, and that the last descriptor may be cut.          *)
SizeOf == [configuration |-> 3, keyboard |-> 3, interface |-> 3, other |-> 1]
Size(kind) == IF kind \in Endpoints THEN 2 ELSE SizeOf[kind]

Layout(kinds, size(_)) ==
  LET At[n \in 1..Len(kinds)] == IF n = 1 THEN 0 ELSE At[n - 1] + size(kinds[n - 1])
  IN  [n \in 1..Len(kinds) |-> [size |-> size(kinds[n]), at |-> At[n], kind |-> kinds[n]]]

Length(d) == d[Len(d)].at + d[Len(d)].size

(* Descriptors with each of these kinds behind a first one. *)
Lists(first, n, size(_)) ==
  {Layout(<<f>> \o s, size) : f \in first, s \in UNION {[1..m -> Kinds \ {"configuration"}] : m \in 0..n}}

Cut(d) == {[desc |-> d, total |-> t] :
             t \in {t \in {Length(d) - 1, Length(d)} : t > d[Len(d)].at}}

(* A descriptor that states the size 0 hides those behind it. *)
Zero(kind) == IF kind = "other" THEN 0 ELSE Size(kind)

MCConfigurations ==
  UNION {Cut(d) : d \in Lists({"configuration"}, 4, Size) \cup Lists({"other"}, 1, Size)}
    \cup {[desc |-> d, total |-> Length(d)] :
            d \in {d \in Lists({"configuration"}, 3, Zero) : d[Len(d)].size > 0}}

MCBufferSize == 14
MCBeyond     == {"other", "interrupt IN"}
=============================================================================
