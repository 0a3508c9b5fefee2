----------------------------- MODULE KeycapEnum -----------------------------
(***************************************************************************)
(* utility/enum.hpp: keycap_enum and keycap_enum_flags give an enumeration *)
(* names at run time by reading the text of its declaration once more,     *)
(* beside the compiler.                                                    *)
(*                                                                         *)
(* An entry of a declaration is an automatic one, one with a literal, or   *)
(* an alias of an earlier entry; the k-th entry is named k.  A literal has *)
(* the value the compiler gives it, and the one a stream reads at the      *)
(* beginning of its text, as in 0x10 or 1 << 3.  Values have EnumBits bits,   *)
(* -1 being the greatest.  Variables of the type are flags in value_.      *)
(***************************************************************************)
EXTENDS Integers, Sequences

CONSTANTS
    MaxEntries,  \* bound: entries of a declaration
    Literals,    \* the literals: [meant, read : Nat]
    EnumBits     \* bits of a value (32)

ASSUME EnumAssumption ==
    /\ EnumBits \in Nat /\ 2^EnumBits \in Nat \ {0}
    /\ Literals \subseteq [meant : Nat, read : Nat]

Values == 0..(2^EnumBits - 1)
NoName == 0

VARIABLES
    declaration,      \* the entries, in order
    built,            \* whether the maps have been initialised
    value_name_map,   \* the name each value has; NoName is the empty string
    value_            \* value_ of a variable

enumVars == <<declaration, built, value_name_map, value_>>

EnumInit ==
    /\ declaration = << >> /\ built = FALSE
    /\ value_name_map = << >> /\ value_ = 0

-----------------------------------------------------------------------------
(* The values the compiler gives to the entries of a declaration.          *)
Compiled(entries) ==
    LET value[i \in DOMAIN entries] ==
            CASE entries[i].form = "auto"    -> IF i = 1 THEN 0 ELSE (value[i - 1] + 1) % 2^EnumBits
              [] entries[i].form = "literal" -> entries[i].literal.meant
              [] entries[i].form = "alias"   -> value[entries[i].of]
    IN  value

(* doForEachEntry, for which fix is always FALSE: an alias is skipped, and *)
(* the count goes on as if it was not there.                               *)
DoForEachCounted(entries) ==    \* mutant: an alias counts
    LET after[i \in 0..Len(entries)] ==
            IF i = 0 THEN [currentValue |-> 0, called |-> << >>]
            ELSE LET entry == entries[i]
                     value == IF entry.form = "literal" THEN entry.literal.read
                              ELSE after[i - 1].currentValue
                 IN  [currentValue |-> (value + 1) % 2^EnumBits,
                      called |-> IF entry.form = "alias" THEN after[i - 1].called
                                 ELSE Append(after[i - 1].called, [name |-> i, value |-> value])]
    IN  after[Len(entries)].called
DoForEachEntry(entries) ==
    LET after[i \in 0..Len(entries)] ==
            IF i = 0 THEN [currentValue |-> 0, called |-> << >>]
            ELSE IF entries[i].form = "alias" THEN after[i - 1]
            ELSE LET value == IF entries[i].form = "literal" THEN entries[i].literal.read
                              ELSE after[i - 1].currentValue
                 IN  [currentValue |-> (value + 1) % 2^EnumBits,
                      called |-> Append(after[i - 1].called, [name |-> i, value |-> value])]
    IN  after[Len(entries)].called

(* The first that has a value gives it its name.                           *)
First(called, value) ==
    CHOOSE i \in DOMAIN called :
        called[i].value = value /\ \A j \in 1..(i - 1) : called[j].value # value

MakeValueNameMap(entries) ==
    LET called == DoForEachEntry(entries)
    IN  [value \in {called[i].value : i \in DOMAIN called} |-> called[First(called, value)].name]

(* to_vector: every value once, where it comes first.                      *)
MakeVector(entries) ==
    LET called == DoForEachEntry(entries)
        add[i \in 0..Len(called)] ==
            IF i = 0 THEN << >>
            ELSE IF First(called, called[i].value) = i THEN Append(add[i - 1], called[i].value)
            ELSE add[i - 1]
    IN  add[Len(called)]

-----------------------------------------------------------------------------
Declare ==
    /\ ~built /\ Len(declaration) < MaxEntries
    /\ \E entry \in [form : {"auto"}] \cup [form : {"literal"}, literal : Literals]
                    \cup [form : {"alias"}, of : DOMAIN declaration] :
            declaration' = Append(declaration, entry)
    /\ UNCHANGED <<built, value_name_map, value_>>

(* Static initialisation.                                                  *)
Build ==
    /\ ~built /\ declaration # << >>
    /\ built' = TRUE
    /\ value_name_map' = MakeValueNameMap(declaration)
    /\ UNCHANGED <<declaration, value_>>

(* set, and the operations on flags: the bits of a value.                  *)
Flags(value) == {bit \in 0..(EnumBits - 1) : (value \div 2^bit) % 2 = 1}
Apply(operation, which) ==
    LET flags == Flags(value_)
        changed == CASE operation = "set"         -> Flags(which)
                     [] operation = "set_flag"    -> flags \cup Flags(which)
                     [] operation = "clear_flag"  -> flags \ Flags(which)
                     [] operation = "toggle_flag" -> (flags \ Flags(which)) \cup (Flags(which) \ flags)
    IN  CHOOSE value \in Values : Flags(value) = changed
Change ==
    /\ built
    /\ \/ \E which \in DOMAIN declaration,
             operation \in {"set", "set_flag", "clear_flag", "toggle_flag"} :
                value_' = Apply(operation, Compiled(declaration)[which])
       \/ value_' \in {0, 2^EnumBits - 1}    \* clear_all_flags, set_all_flags
    /\ UNCHANGED <<declaration, built, value_name_map>>

(* to_string: operator[] gives a value that has no name the empty one.     *)
ToString ==
    /\ built
    /\ value_name_map' = [value \in DOMAIN value_name_map \cup {value_} |->
            IF value \in DOMAIN value_name_map THEN value_name_map[value] ELSE NoName]
    /\ UNCHANGED <<declaration, built, value_>>

EnumNext == Declare \/ Build \/ Change \/ ToString
EnumSpec == EnumInit /\ [][EnumNext]_enumVars

-----------------------------------------------------------------------------
(* Where the text misleads doForEachEntry: a literal it reads only the     *)
(* beginning of, and an alias of another value than the last one counted.  *)
Misleading(entries, i) ==
    \/ entries[i].form = "literal" /\ entries[i].literal.read # entries[i].literal.meant
    \/ /\ entries[i].form = "alias"
       /\ i > 1 => Compiled(entries)[i] # Compiled(entries)[i - 1]

(* What the test of keycap_enum says: to_vector() has the values of the    *)
(* declaration in order, skipping aliases, and to_string() the names they  *)
(* were given, the first one of a value that has several; a value made of  *)
(* several flags has no name, and asking for it harms no other.  It holds  *)
(* for every declaration without a misleading entry.                       *)
NamedAsDeclared ==
    LET values == Compiled(declaration)
        named == {i \in DOMAIN declaration : declaration[i].form # "alias"}
        listed == MakeVector(declaration)
    IN  built /\ (\A i \in DOMAIN declaration : ~Misleading(declaration, i)) =>
            /\ {listed[j] : j \in DOMAIN listed} = {values[i] : i \in named}
            /\ \A i \in named : LET name == value_name_map[values[i]]
                                IN  name \in named /\ name <= i /\ values[name] = values[i]
            /\ \A j, k \in DOMAIN listed : j < k =>
                   value_name_map[listed[j]] < value_name_map[listed[k]]
            /\ \A value \in DOMAIN value_name_map :
                   value_name_map[value] = NoName <=> value \notin {values[i] : i \in named}
=============================================================================
