----------------------------- MODULE MCControl ------------------------------
(***************************************************************************)
(* One instance of each of the components of the control plane, for TLC.   *)
(* They share no state, so a behaviour is one of a single component, the   *)
(* focus, and the others stay as they begin.                               *)
(***************************************************************************)
EXTENDS Access, Ownership, Entities, Receipts, Structure, Migrations,
        SourceCapture, Algorithms, Shortcuts, TLC

VARIABLE focus  \* the component of this behaviour

vars == <<focus, accessVars, ownershipVars, entityVars, receiptVars,
          structureVars, migrationVars, sourceVars, patchVars, relatingVars,
          shortcutVars>>

Init ==
    /\ focus \in {"access", "ownership", "entities", "receipts", "structure",
                  "migrations", "source", "patch", "relations", "shortcuts"}
    /\ AccessInit
    /\ OwnershipInit
    /\ EntitiesInit
    /\ ReceiptsInit
    /\ StructureInit
    /\ MigrationsInit
    /\ SourceInit /\ (focus = "source" \/ readable)
    /\ PatchInit
    /\ NeighbourhoodInit
    /\ ShortcutsInit

OnlyAccess ==
    /\ focus = "access" /\ AccessNext
    /\ UNCHANGED <<focus, ownershipVars, entityVars, receiptVars,
                    structureVars, migrationVars, sourceVars, patchVars,
                    relatingVars, shortcutVars>>

OnlyOwnership ==
    /\ focus = "ownership" /\ OwnershipNext
    /\ UNCHANGED <<focus, accessVars, entityVars, receiptVars, structureVars,
                    migrationVars, sourceVars, patchVars, relatingVars, shortcutVars>>

OnlyEntities ==
    /\ focus = "entities" /\ EntitiesNext
    /\ UNCHANGED <<focus, accessVars, ownershipVars, receiptVars,
                    structureVars, migrationVars, sourceVars, patchVars,
                    relatingVars, shortcutVars>>

OnlyReceipts ==
    /\ focus = "receipts" /\ ReceiptsNext
    /\ UNCHANGED <<focus, accessVars, ownershipVars, entityVars,
                    structureVars, migrationVars, sourceVars, patchVars,
                    relatingVars, shortcutVars>>

OnlyStructure ==
    /\ focus = "structure" /\ StructureNext
    /\ UNCHANGED <<focus, accessVars, ownershipVars, entityVars, receiptVars,
                    migrationVars, sourceVars, patchVars, relatingVars, shortcutVars>>

OnlyMigrations ==
    /\ focus = "migrations" /\ MigrationsNext
    /\ UNCHANGED <<focus, accessVars, ownershipVars, entityVars, receiptVars,
                    structureVars, sourceVars, patchVars, relatingVars, shortcutVars>>

OnlySource ==
    /\ focus = "source" /\ SourceNext
    /\ UNCHANGED <<focus, accessVars, ownershipVars, entityVars, receiptVars,
                    structureVars, migrationVars, patchVars, relatingVars, shortcutVars>>

OnlyPatch ==
    /\ focus = "patch" /\ PatchNext
    /\ UNCHANGED <<focus, accessVars, ownershipVars, entityVars, receiptVars,
                    structureVars, migrationVars, sourceVars, relatingVars, shortcutVars>>

OnlyNeighbourhood ==
    /\ focus = "relations" /\ NeighbourhoodNext
    /\ UNCHANGED <<focus, accessVars, ownershipVars, entityVars, receiptVars,
                    structureVars, migrationVars, sourceVars, patchVars, shortcutVars>>

OnlyShortcuts ==
    /\ focus = "shortcuts" /\ ShortcutsNext
    /\ UNCHANGED <<focus, accessVars, ownershipVars, entityVars, receiptVars,
                    structureVars, migrationVars, sourceVars, patchVars,
                    relatingVars>>

Next ==
    \/ OnlyAccess
    \/ OnlyOwnership
    \/ OnlyEntities
    \/ OnlyReceipts
    \/ OnlyStructure
    \/ OnlyMigrations
    \/ OnlySource
    \/ OnlyPatch
    \/ OnlyNeighbourhood
    \/ OnlyShortcuts

Spec == Init /\ [][Next]_vars

\* The agents, the automata, the payloads and the documents are the same values.
Symmetry == Permutations(Handlers) \cup Permutations(Automata)

MCContracts == {Automata}
MCCorrectionPage == [c \in Corrections |-> CHOOSE p \in CheckPages : TRUE]
MCImages == {<<1, 2>>, <<1, 2, 3>>, <<1, 4>>, <<1>>}

Words(n) == UNION {[1..m -> {"a", "b"}] : m \in 1..n}
MCContents == Words(4)
MCEdits == [old : Words(2), new : {<<>>, <<"b", "a">>}, expected : 1..2]
MCForeignKeys == {<<1, 2>>, <<3, 1>>, <<2, 4>>, <<4, 5>>, <<5, 3>>, <<3, 3>>, <<2, 3>>}
=============================================================================
