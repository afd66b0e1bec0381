---------------------------- MODULE PrepareErrors ----------------------------
(* The stable error categories and the rules by which the composed processor  *)
(* picks one failure out of several.  An error is the category it reports and *)
(* the place (occurrence or request index) it is attached to.                 *)
EXTENDS Naturals, Sequences

OkVerdict == "Ok"

Categories ==
    { "InvalidRequest", "UnsupportedOption", "UnsupportedMedia",
      "ProfileMismatch", "MediaDecode", "MediaGeometry", "ResourceLimit",
      "ArithmeticOverflow", "DestinationTooSmall", "InternalInvariant" }

Verdicts == Categories \cup {OkVerdict}

Error(category, place) == [category |-> category, place |-> place]

Errors == [category : Categories, place : Nat]

PredecodeCategories == {"ArithmeticOverflow", "ResourceLimit"}

CategoryPrecedence(category) ==
    CASE category = "ArithmeticOverflow" -> 0
      [] category = "ResourceLimit" -> 1
      [] category \in {"UnsupportedMedia", "MediaDecode"} -> 2
      [] category = "MediaGeometry" -> 3
      [] category = "DestinationTooSmall" -> 4
      [] category = "InternalInvariant" -> 5
      [] OTHER -> 6

(* min_by_key over (precedence, occurrence): strictly smaller key.            *)
Beats(e, f) ==
    LET p == CategoryPrecedence(e.category)
        q == CategoryPrecedence(f.category)
    IN  p < q \/ (p = q /\ e.place < f.place)

(* The preferred member of a non-empty set of errors.                         *)
Preferred(errors) == CHOOSE e \in errors : \A f \in errors : ~Beats(f, e)

ErrorsIn(list) == {list[k] : k \in DOMAIN list}

SelectPreferredError(list) == Preferred(ErrorsIn(list))

PredecodeErrors(list) ==
    {e \in ErrorsIn(list) : e.category \in PredecodeCategories}

PreferredPredecodeError(list) == Preferred(PredecodeErrors(list))
==============================================================================
