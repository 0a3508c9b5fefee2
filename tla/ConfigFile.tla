----------------------------- MODULE ConfigFile -----------------------------
(***************************************************************************)
(* configuration/config_file.hpp: lookups in a parsed JSON file, and in a  *)
(* config_entry, which iterate_array makes of each element of an array.    *)
(*                                                                         *)
(* A JSON value is a scalar of a type, an object, which maps names to      *)
(* values, or an array.  find() on anything but an object finds nothing.   *)
(***************************************************************************)
EXTENDS Integers, Sequences

CONSTANTS
    Names,    \* names of categories and values
    Types     \* types a scalar has and a caller asks for

VARIABLES
    json,     \* json_ of the config_file
    answers   \* what the lookups answered last

configVars == <<json, answers>>

-----------------------------------------------------------------------------
Absent == [is |-> "absent"]
Scalar(type) == [is |-> "scalar", type |-> type]
Object(items) == [is |-> "object", items |-> items]
Array(elements) == [is |-> "array", elements |-> elements]

(* Files: an object of scalars, of objects of scalars, and of arrays of    *)
(* scalars and such objects.                                               *)
Scalars == {Scalar(type) : type \in Types}
Flat == {Object(items) : items \in [Names -> Scalars \cup {Absent}]}
Arrays == {Array(<<>>)} \cup {Array(<<e>>) : e \in Scalars \cup Flat}
Files == {Object(items) : items \in [Names -> {Absent} \cup Scalars \cup Flat \cup Arrays]}

Find(value, name) == IF value.is = "object" THEN value.items[name] ELSE Absent

(* What get<ReturnType>() of a value gives: a value, or an exception.      *)
Thrown == [is |-> "thrown"]
Default == [is |-> "default"]
Converted(value, type) == IF value = Scalar(type) THEN value ELSE Thrown

(* The five lookups are written out one by one in the code, and so they    *)
(* are here.  Each searches the category first, and the value alone only   *)
(* without it.  A category that is no object contains nothing.             *)

(* config_entry::get *)
EntryGet(place, category, value, type) ==
    LET itr == IF Find(place, category) # Absent THEN Find(Find(place, category), value)
               ELSE Find(place, value)
    IN  IF itr # Absent THEN Converted(itr, type) ELSE Thrown

(* config_entry::get_or_default: no default for a value of another type.   *)
EntryGetOrDefault(place, category, value, type) ==
    LET itr == IF Find(place, category) # Absent THEN Find(Find(place, category), value)
               ELSE Find(place, value)
    IN  IF itr # Absent THEN Converted(itr, type) ELSE Default

(* config_file::get *)
ConfigGet(place, category, value, type) ==
    LET itr == Find(place, category) IN
    IF itr = Absent
      THEN IF Find(place, value) = Absent THEN Thrown ELSE Converted(Find(place, value), type)
      ELSE IF Find(itr, value) = Absent THEN Thrown ELSE Converted(Find(itr, value), type)

ConfigGetOutside(place, category, value, type) ==    \* mutant: it looks outside the category too
    IF Find(Find(place, category), value) # Absent
      THEN Converted(Find(Find(place, category), value), type)
      ELSE IF Find(place, value) = Absent THEN Default ELSE Converted(Find(place, value), type)
(* config_file::get_or_default *)
ConfigGetOrDefault(place, category, value, type) ==
    LET itr == Find(place, category) IN
    IF itr = Absent
      THEN IF Find(place, value) = Absent THEN Default ELSE Converted(Find(place, value), type)
      ELSE IF Find(itr, value) = Absent THEN Default ELSE Converted(Find(itr, value), type)

(* config_file::iterate_array: one config_entry for each element of an     *)
(* array, and nothing for anything else.                                   *)
IterateArray(place, category, value) ==
    LET itr == Find(IF Find(place, category) # Absent THEN Find(place, category) ELSE place,
                    value)
    IN  IF itr.is = "array" THEN itr.elements ELSE <<>>

-----------------------------------------------------------------------------
ConfigInit == json = Absent /\ answers = <<>>

(* The constructor parses the file.  What it holds may be all an element   *)
(* of an array is.                                                         *)
Open == json = Absent /\ json' \in Files \cup Scalars /\ UNCHANGED answers

(* The lookups in a file, and those in a config_entry of the same content. *)
Look ==
    /\ json # Absent
    /\ \E category, value \in Names, type \in Types :
        answers' = [get |-> ConfigGet(json, category, value, type),
                    or_default |-> ConfigGetOrDefault(json, category, value, type),
                    entry_get |-> EntryGet(json, category, value, type),
                    entry_or_default |-> EntryGetOrDefault(json, category, value, type),
                    elements |-> IterateArray(json, category, value),
                    others |-> {other \in Types : ConfigGet(json, category, value, other) # Thrown}]
    /\ UNCHANGED json

ConfigNext == Open \/ Look
ConfigSpec == ConfigInit /\ [][ConfigNext]_configVars

-----------------------------------------------------------------------------
(* The lookups agree: a config_entry answers what a file of its content    *)
(* does; what get finds get_or_default gives too; and the default is given *)
(* only where neither get, asked for any type, nor iterate_array finds     *)
(* anything.  (It is not given wherever get throws: a value of another     *)
(* type makes both throw.)                                                 *)
LookupsAgree ==
    answers # <<>> =>
        /\ answers.entry_get = answers.get
        /\ answers.entry_or_default = answers.or_default
        /\ answers.get # Thrown => answers.or_default = answers.get
        /\ answers.or_default = Default => answers.others = {} /\ answers.elements = <<>>
=============================================================================
