---------------------------- MODULE WorkflowTree ----------------------------
(***************************************************************************)
(* The tree of a workflow or of the steps of a block: a sequence of nodes   *)
(* that are plain ("block") or control nodes whose branches hold sequences  *)
(* of nodes again.  A loop has one branch, a choice its branches and, last, *)
(* the nodes of its "else".                                                 *)
(*                                                                          *)
(* A node is [id, kind, content, kids]; a kid is [id, blocks], its id 0 for  *)
(* the branches that have no identifier (the body of a loop, "else").  The  *)
(* JSON of a tree has the same shape with 0 for the identifiers of nodes    *)
(* and 1 for those of choice branches: identifiers are never written.       *)
(***************************************************************************)
EXTENDS Naturals, SequencesExt

Plain(content) == [id |-> 0, kind |-> "block", content |-> content, kids |-> <<>>]
Kid(id, blocks) == [id |-> id, blocks |-> blocks]

\* What a node of each kind is created with.
NewNode(kind, content) ==
  [Plain(content) EXCEPT
     !.kind = kind,
     !.kids = CASE kind = "loop" -> <<Kid(0, <<>>)>>
                [] kind = "choice" -> <<Kid(1, <<>>), Kid(0, <<>>)>>
                [] OTHER -> <<>>]

\* All the nodes of a tree, its own and those of their branches.
RECURSIVE Nodes(_)
Nodes(blocks) ==
  UNION {{node} \cup UNION {Nodes(kid.blocks) : kid \in ToSet(node.kids)} : node \in ToSet(blocks)}

BranchIds(block) == {kid.id : kid \in ToSet(block.kids)} \ {0}
BlockIds(blocks) == {block.id : block \in Nodes(blocks)}
AllIds(blocks) == UNION {{block.id} \cup BranchIds(block) : block \in Nodes(blocks)}

\* The identifiers a tree takes when it is given new ones: one for each node and
\* one for each branch of a choice.
RECURSIVE Weight(_)
Weight(blocks) ==
  LET OfNode(node) == 1 + FoldLeft(+, 0, [b \in DOMAIN node.kids |->
        (IF node.kids[b].id = 0 THEN 0 ELSE 1) + Weight(node.kids[b].blocks)])
  IN IF blocks = <<>> THEN 0 ELSE OfNode(Head(blocks)) + Weight(Tail(blocks))

\* The tree with new identifiers for all its nodes and branches, in their order.
RECURSIVE Numbered(_, _)
Numbered(blocks, from) ==
  IF blocks = <<>> THEN <<>>
  ELSE LET node == Head(blocks)
           own(b) == IF node.kids[b].id = 0 THEN 0 ELSE 1
           Before(b) == Weight(<<[node EXCEPT !.kids = SubSeq(@, 1, b - 1)]>>)
           kid(b) == Kid(own(b) * (from + Before(b)),
                         Numbered(node.kids[b].blocks, from + Before(b) + own(b)))
       IN <<[node EXCEPT !.id = from, !.kids = [b \in DOMAIN @ |-> kid(b)]]>>
            \o Numbered(Tail(blocks), from + Weight(<<node>>))

\* The tree as JSON.
RECURSIVE Written(_)
Written(blocks) ==
  [n \in DOMAIN blocks |->
    [blocks[n] EXCEPT
       !.id = 0,
       !.kids = [b \in DOMAIN @ |->
         Kid(IF @[b].id = 0 THEN 0 ELSE 1, Written(@[b].blocks))]]]

-----------------------------------------------------------------------------
\* The scopes of a tree are its sequences of nodes: <<0, 0>> is the tree itself,
\* <<p, k>> the branch k of the node p.  A place is a scope, an index in it and the
\* node that is there.
Root == <<0, 0>>
RECURSIVE Places(_, _)
Places(blocks, scope) ==
  UNION {{<<scope, n, blocks[n]>>} \cup
           UNION {Places(kid.blocks, <<blocks[n].id, kid.id>>) : kid \in ToSet(blocks[n].kids)} :
         n \in DOMAIN blocks}

Place(blocks, id) == CHOOSE place \in Places(blocks, Root) : place[3].id = id
Has(blocks, id) == id \in BlockIds(blocks)
Node(blocks, id) == Place(blocks, id)[3]

KidOf(node, branch) == node.kids[SelectInSeq(node.kids, LAMBDA kid : kid.id = branch)]
Scope(blocks, scope) ==
  IF scope = Root THEN blocks ELSE KidOf(Node(blocks, scope[1]), scope[2]).blocks
Scopes(blocks) ==
  {Root} \cup UNION {{<<node.id, kid.id>> : kid \in ToSet(node.kids)} : node \in Nodes(blocks)}

\* The tree with another node in the place of the one with an identifier.
RECURSIVE ReplaceNode(_, _, _)
ReplaceNode(blocks, id, node) ==
  [n \in DOMAIN blocks |->
    IF blocks[n].id = id THEN node
    ELSE [blocks[n] EXCEPT
            !.kids = [b \in DOMAIN @ |-> Kid(@[b].id, ReplaceNode(@[b].blocks, id, node))]]]

ReplaceKids(node, branch, blocks) ==
  [node EXCEPT !.kids = [b \in DOMAIN @ |->
                           IF @[b].id = branch THEN Kid(branch, blocks) ELSE @[b]]]

\* The tree with another sequence of nodes in one of its scopes.
ReplaceScope(blocks, scope, next) ==
  IF scope = Root THEN next
  ELSE ReplaceNode(blocks, scope[1], ReplaceKids(Node(blocks, scope[1]), scope[2], next))

-----------------------------------------------------------------------------
\* The operations on one scope.
Inserted(blocks, index, node) == InsertAt(blocks, index, node)
Moved(blocks, index, target) == InsertAt(RemoveAt(blocks, index), target, blocks[index])
Removed(blocks, index) == RemoveAt(blocks, index)

\* A copy gets new identifiers for itself, its branches and all that is in them.
DuplicatedAsIs(blocks, index, from) ==
  InsertAt(blocks, index + 1, [blocks[index] EXCEPT !.id = from])
Duplicated(blocks, index, from) ==
  InsertAt(blocks, index + 1, Numbered(<<blocks[index]>>, from)[1])

\* The operations on the branches of a choice; "else" is its last kid.
AddChoiceBranch(choice, id) ==
  [choice EXCEPT !.kids = InsertAt(@, Len(@), Kid(id, <<>>))]
MoveChoiceBranch(choice, index, offset) ==
  IF index + offset \in 1 .. Len(choice.kids) - 1
  THEN [choice EXCEPT !.kids = [@ EXCEPT ![index] = choice.kids[index + offset],
                                         ![index + offset] = choice.kids[index]]]
  ELSE choice
RemoveChoiceBranch(choice, index) ==
  IF Len(choice.kids) <= 2 THEN choice
  ELSE [choice EXCEPT !.kids = RemoveAt(@, index)]
=============================================================================
