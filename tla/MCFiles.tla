------------------------------- MODULE MCFiles -------------------------------
(* The two models of files in one run: the output file of a job, with      *)
(* records that have none, one or two of three fields, empty and long      *)
(* values, and two fields that are one element of an xml; and the file of  *)
(* the server's state.  They share nothing, so each runs while the other   *)
(* is in its first state.                                                  *)
EXTENDS RecordFiles, DurableFile, TLC

MCShapes ==
    {<<>>, 1 :> "short", 1 :> "empty" @@ 2 :> "short", 2 :> "short" @@ 3 :> "short",
     1 :> "long", 2 :> "huge"}
MCOutputFields == {<<>>, <<2, 1>>}
MCExcluded == {{}, {2}}
MCXMLName(f) == IF f = 3 THEN 2 ELSE f

FilesInit == Init /\ SFInit

OutputStep == SFInit /\ Next /\ UNCHANGED SFvars

AtFirst == format = "csv" /\ outputFields = <<>> /\ Init

StateStep == AtFirst /\ SFNext /\ UNCHANGED vars

FilesNext == OutputStep \/ StateStep

FilesSpec == FilesInit /\ [][FilesNext]_<<vars, SFvars>>
=============================================================================
