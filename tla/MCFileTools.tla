---------------------------- MODULE MCFileTools -----------------------------
(* An instance of FileTools for TLC: one file over two strings, the patterns of
   String.replace, "$" and zero bytes. *)
EXTENDS FileTools

CONSTANTS a, b, c1, c2

MCCalls  == {c1, c2}

MCTokens == {a, b, Match, Ahead, Behind, Escape, Dollar, Nul}

(* "$" ahead of "$" is "$$". *)
MCMeet == [p \in {<<Dollar, Dollar>>} |-> [front |-> <<>>, pattern |-> Escape, rear |-> <<>>]]

ChangeA  == [old |-> a, new |-> b, all |-> TRUE]
ChangeB  == [old |-> b, new |-> a, all |-> FALSE]
Marks    == [old |-> a, new |-> Match, all |-> TRUE]
Expands  == [old |-> b, new |-> Ahead, all |-> FALSE]

MCFiles == {NoFile, Text(<<a, b>>), Text(<<Dollar, a>>)}

MCOps == {[kind |-> "edit", edits |-> <<ChangeA, ChangeB>>],
          [kind |-> "edit", edits |-> <<Marks, Expands>>],
          [kind |-> "insert", anchor |-> a, new |-> b, before |-> TRUE],
          [kind |-> "insert", anchor |-> Dollar, new |-> Dollar, before |-> FALSE],
          [kind |-> "insert", anchor |-> NoAnchor, new |-> b, before |-> FALSE],
          [kind |-> "write", text |-> <<a, a, b>>, overwrite |-> FALSE],
          [kind |-> "write", text |-> <<b>>, overwrite |-> TRUE],
          [kind |-> "look"],
          [kind |-> "search"],
          [kind |-> "bash", leaves |-> NoFile, anew |-> FALSE],
          [kind |-> "bash", leaves |-> Text(<<b>>), anew |-> TRUE]}

=============================================================================
