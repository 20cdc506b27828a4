------------------------------- MODULE MCBoot -------------------------------
(* Small boot informations and archives: up to three tags before the end,  *)
(* archives of up to three members behind the directory, names of one to  *)
(* three characters, blocks of eight bytes.                                *)
EXTENDS Boot

Letters == {"t", "a", "r", "i"}

Wanted == <<"t", "a">>

Sequences(S, n) == UNION {[1 .. k -> S] : k \in 0 .. n}

Tag(type, size) == [type |-> type, size |-> size, entry_size |-> 0]

(* A memory map whose entries do not fill its tag. *)
Map(size, entry_size) == [type |-> "mmap", size |-> size, entry_size |-> entry_size]

Tags ==
  {Tag("module", 17), Tag("module", 24), Tag("text", 31), Tag("rgb", 38),
   Tag("indexed", 34), Tag("other", 12), Map(11, 3)}

TagLists == {Append(t, Tag("end", 8)) : t \in Sequences(Tags, 3)}

Member(name, size) == [name |-> name, size |-> size]

(* A prefix of the wanted name, the wanted name, a longer one and another  *)
(* one of the full length; sizes around one and two blocks, and one that   *)
(* needs a second digit.                                                   *)
Members ==
  {Member(n, s) : n \in {<<"t">>, Wanted, <<"t", "a", "r">>}, s \in {0, 1, 8, 9, 16, 17}}

Archives == {<<Member(<<"i">>, 0)>> \o m : m \in Sequences(Members, 2)}
              \union {<<Member(<<"i">>, 0), Member(<<"t">>, s), Member(<<"t", "a", "r">>, t), e>> :
                        s \in {0, 9}, t \in {8, 17}, e \in Members}

MCBoots ==
  [magic : {TRUE}, aligned : {TRUE}, tags : TagLists, archive : {<<Member(<<"i">>, 0), Member(Wanted, 9)>>}]
    \union [magic : {TRUE}, aligned : {TRUE},
            tags : {<<Tag("module", 17), Tag("end", 8)>>}, archive : Archives]
    \union {b \in [magic : BOOLEAN, aligned : BOOLEAN,
                   tags : {<<Tag("module", 17), Tag("end", 8)>>},
                   archive : {<<Member(<<"i">>, 0)>>}] : ~ (b.magic /\ b.aligned)}

=============================================================================
