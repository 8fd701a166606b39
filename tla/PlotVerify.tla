----------------------------- MODULE PlotVerify -----------------------------
(***************************************************************************)
(* plotter::run_plot_verify (src/src/plotter.cpp:387-469), over the file   *)
(* that PlotWriter leaves, finished or not; the disk may have damaged a    *)
(* finished one.  It plots batches of nonces again and compares their      *)
(* scoops with the file; from one batch to the next it skips --step        *)
(* nonces.                                                                 *)
(*                                                                         *)
(* The plots of the device are the right ones here: steps with which they  *)
(* are not (HashSchedule) are left out, and so are negative ones.          *)
(***************************************************************************)
EXTENDS PlotWriter

CONSTANTS
  Verifications,    \* bound: the records of "gws" and "step" it is called with
  DamagePlaces,     \* bound: the places of a file that may lose their contents
  MaxDamage         \* bound: how many of them do

ASSUME VerificationsAssumption ==
  /\ Verifications \subseteq [gws : Nat \ {0}, step : Nat]
  /\ \A v \in Verifications : v.gws % NoncesVector = 0
  /\ DamagePlaces \subseteq Nat
  /\ MaxDamage \in Nat

VARIABLES
  damage,           \* how many places of the file were damaged
  vpc,              \* where the verification is, or what it reported
  args,             \* its arguments
  i,                \* how far it is
  vscoop

verifyVars == <<damage, vpc, args, i, vscoop>>

VerifyInit ==
  /\ Init
  /\ damage = 0
  /\ vpc = "idle"
  /\ args = [gws |-> 0, step |-> 0]
  /\ i = 0
  /\ vscoop = 0

\* The writer is gone; the name, be it the final one or not, has three parts.
Left == pc = "ended" /\ exists

\* A file that is not finished is wrong without it.
Damage ==
  /\ Left /\ renamed
  /\ vpc = "idle"
  /\ damage < MaxDamage
  /\ \E p \in DamagePlaces \cap DOMAIN data : data' = [data EXCEPT ![p] = Blank]
  /\ damage' = damage + 1
  /\ UNCHANGED <<writerVars, handle, pos, exists, faults, vpc, args, i, vscoop>>

\* How many whole nonces the file has room for.
FileNonces == size \div Scoops

\* Bug: "& 7 != nonces" means what it looks like.
Acceptable_Small(n) == n % Sector = n

\* nonces & 7 != nonces is nonces & (7 != nonces).
Acceptable(n) == n = Sector - 1 \/ n % 2 = 0

\* open without creation, and the tests of the size against the name.
Check ==
  /\ Left
  /\ vpc = "idle"
  /\ args' \in Verifications
  /\ open(FALSE, FALSE)
  /\ vpc' = IF handle' = "closed" THEN "unopened"
            ELSE IF /\ FileNonces = init_nonces
                    /\ Acceptable(FileNonces)
                    /\ FileNonces * Scoops = size
                 THEN "batch"
                 ELSE "invalid"
  /\ UNCHANGED <<writerVars, damage, i, vscoop>>

\* The first nonce of the batch, in the file; batches go from its end down.
off == Larger(0, FileNonces - i - args.gws)

\* Its nonces.
n == Smaller(FileNonces - i, args.gws)

\* The test of the loop, and gplot.plot.
Batch ==
  /\ vpc = "batch"
  /\ IF i < FileNonces
     THEN vpc' = "compare" /\ vscoop' = 0
     ELSE vpc' = "good" /\ UNCHANGED vscoop
  /\ UNCHANGED <<writerVars, fileVars, damage, args, i>>

\* Bug: the next batch is the one after the next.
NextBatch_Twice == i + 2 * args.gws + args.step

NextBatch == i + args.gws + args.step

\* One scoop: seek, read, transposition out of the plot, memcmp.
CompareScoop ==
  /\ vpc = "compare"
  /\ LET hasher_cache ==
           transposition(Plotted(EmptyBlock(args.gws), StartNonce + off, n),
                         vscoop, 0, n)
         at == off + vscoop * FileNonces
         last == vscoop + 1 = Scoops
     IN \/ /\ seek(at)
           /\ IF hasher_cache = Stored(at, n)
              THEN /\ vscoop' = vscoop + 1
                   /\ vpc' = IF last THEN "batch" ELSE "compare"
                   /\ i' = IF last THEN NextBatch ELSE i
              ELSE /\ vpc' = "bad"
                   /\ UNCHANGED <<i, vscoop>>
        \/ /\ fails
           /\ vpc' = "unread"
           /\ UNCHANGED <<i, vscoop>>
  /\ UNCHANGED <<writerVars, damage, args>>

Verify == Check \/ Batch \/ CompareScoop

\* Nobody plots a file that is being verified.
Next ==
  \/ vpc = "idle" /\ WriterNext /\ UNCHANGED verifyVars
  \/ Damage
  \/ Verify

Spec == VerifyInit /\ [][Next]_<<vars, verifyVars>>

-----------------------------------------------------------------------------
VerifyTypeOK ==
  /\ TypeOK
  /\ damage \in 0 .. MaxDamage
  /\ vpc \in {"idle", "unopened", "invalid", "batch", "compare", "unread",
              "bad", "good"}
  /\ vpc # "idle" => Left
  /\ vpc # "idle" => args \in Verifications
  /\ i \in Nat
  /\ vscoop \in 0 .. Scoops

\* The nonces that the loop compares if nothing stops it.
Compared ==
  LET stride == args.gws + args.step
      at(j) == Larger(0, FileNonces - j * stride - args.gws)
      len(j) == Smaller(FileNonces - j * stride, args.gws)
  IN UNION {at(j) .. at(j) + len(j) - 1 :
              j \in {k \in 0 .. FileNonces : k * stride < FileNonces}}

\* The batches that the verification plots have their addresses in range: no
\* int of Address overflows for them.
VerificationsInRange ==
  \A u \in Uses, v \in Verifications : InRange(v, Smaller(u.nonces, v.gws))

(***************************************************************************)
(* VerdictIsRight: "GOOD!" means that all nonces the loop compares are     *)
(* those of the CPU, in their places; "error at nonce" that one of those   *)
(* named is not, so a file that the writer finished and no disk damaged is *)
(* never found wrong (plotter.cpp:442-464).                                *)
(***************************************************************************)
VerdictIsRight ==
  /\ vpc = "good" => Compared \subseteq Whole
  /\ vpc = "bad"  => ~(off .. off + n - 1 \subseteq Whole)

(***************************************************************************)
(* AcceptsPlots: "plot file invalide" is never said of a file that the     *)
(* plan made and the writer filled (plotter.cpp:151 and 420).              *)
(***************************************************************************)
AcceptsPlots ==
  vpc = "invalid" => init_nonces % Sector # 0 \/ size < init_nonces * Scoops

(***************************************************************************)
(* GoodIsWhole: "Verified 100%, GOOD!" means that all nonces of the file   *)
(* are right (plotter.cpp:464).                                            *)
(***************************************************************************)
GoodIsWhole == vpc = "good" => Whole = 0 .. init_nonces - 1
=============================================================================
