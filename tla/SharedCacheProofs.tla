--------------------------- MODULE SharedCacheProofs ---------------------------
(***************************************************************************)
(* SharedOpens and ForgetSticks for any number of devices and keys.        *)
(*                                                                         *)
(* SharedOpens is not inductive: what a daemon writes depends on the copy  *)
(* it holds and on its key.  OpensInv adds that the copy in memory opens   *)
(* too, and that a key held with a copy is the one its payload is sealed   *)
(* with; as long as no reload and no late dialog has put the two together  *)
(* unseen, every handler keeps that.  ForgetInv adds that a forgotten      *)
(* device has neither a session nor a platform slot of its own, and that   *)
(* no shared file carries a slot of a device other than Home.              *)
(***************************************************************************)
EXTENDS SharedCache, TLAPS

Fits(d) == Present(mem[d]) /\ lck[d] # 0 => lck[d] = mem[d].seal

OpensInv == clash \/ \A d \in Devices : Opens(disk[d]) /\ Opens(mem[d]) /\ Fits(d)

\* No slot of a device other than Home comes with a file.
Plain(f) == f.slot.dev \in {Home, NoDevice}

ForgetInv == \A d \in Devices :
    /\ Plain(disk[d]) /\ Plain(mem[d])
    /\ forgotten[d] /\ d # Home => ~keys[d] /\ ~session[d] /\ slots[d].dev # d

SharedInv == SharedTypeOK /\ OpensInv /\ ForgetInv

-----------------------------------------------------------------------------
\* What the operations on files and slots return (cache.rs).
LEMMA FileTypes ==
    /\ NoSlot \in Slots /\ NoFile \in Caches /\ 0 \in Gens
    /\ \A g \in Gens, d \in Devices : [dev |-> d, gen |-> g] \in Slots
    /\ \A g \in Gens : Written(g) \in Caches
    /\ \A f \in Caches : f.pin \in Gens /\ f.seal \in Gens /\ f.slot \in Slots
    /\ \A f \in Caches, g \in Gens : Refreshed(f, g) \in Caches /\ Migrated(f, g) \in Caches
<1>1. 0 \in Gens
  BY SharedAssumption DEF Gens
<1>2. NoSlot \in Slots
  BY <1>1 DEF NoSlot, Slots
<1>. QED
  BY <1>1, <1>2 DEF Slots, NoFile, Caches, Written, Refreshed, Migrated

LEMMA SlotTypes ==
    /\ \A s \in Slots, f \in Caches : Seeded(s, f) \in Slots
    /\ \A s \in Slots, d \in Devices, g \in Gens : Enrolled(s, d, g) \in Slots
BY FileTypes DEF Seeded, Enrolled

\* The files the operations return open with their PIN.
LEMMA FileOpens ==
    /\ Opens(NoFile) /\ Plain(NoFile) /\ ~Present(NoFile)
    /\ \A g \in Gens : /\ Opens(Written(g)) /\ Plain(Written(g)) /\ Written(g).seal = g
    /\ \A f \in Caches, g \in Gens :
          /\ Plain(Refreshed(f, g)) /\ Refreshed(f, g).seal = g
          /\ Opens(f) /\ g = f.seal => Opens(Refreshed(f, g))
          /\ Plain(f) => Plain(Migrated(f, g))
          /\ Migrated(f, g).seal = f.seal
          /\ Opens(f) /\ g = f.pin => Opens(Migrated(f, g))
BY SharedAssumption DEF Opens, Plain, Present, NoFile, NoSlot, Written, Refreshed, Migrated, Caches

\* A device other than Home gets no slot of its own from a file.
LEMMA SlotOwners ==
    ASSUME NEW s \in Slots, NEW f \in Caches, NEW d \in Devices, Plain(f), d # Home, s.dev # d
    PROVE  Seeded(s, f).dev # d
BY SharedAssumption DEF Seeded, Plain

\* The reload returns a file, one that opens and has a plain slot if all had.
LEMMA ReloadTypes ==
    ASSUME SharedTypeOK, NEW d \in Devices
    PROVE  /\ Reloaded(d) \in Caches /\ ReloadedSlot(d) \in Slots
           /\ Opens(disk[d]) /\ Opens(mem[d]) => Opens(Reloaded(d))
           /\ Plain(disk[d]) /\ Plain(mem[d]) => Plain(Reloaded(d))
           /\ Plain(disk[d]) /\ d # Home /\ slots[d].dev # d => ReloadedSlot(d).dev # d
<1>1. disk[d] \in Caches /\ mem[d] \in Caches /\ slots[d] \in Slots
  BY DEF SharedTypeOK, Of
<1>. QED
  BY <1>1, SlotTypes, SlotOwners DEF Reloaded, ReloadedSlot

-----------------------------------------------------------------------------
(* A step changes the state of one device.  Moved collects what it did to   *)
(* the rest of the state, Wrote what it did to the two copies of the file.  *)

\* Device d holds f, or what a sync under key g made of it, in memory and
\* perhaps on disk.
Wrote(d, f, g) ==
    /\ disk' \in Of(Caches) /\ mem' \in Of(Caches)
    /\ \A e \in Devices : e # d => disk'[e] = disk[e] /\ mem'[e] = mem[e]
    /\ Plain(disk[d]) => Plain(disk'[d])
    /\ Plain(mem'[d])
    /\ Opens(disk[d]) /\ Opens(f) /\ ~Misfit(f, g) =>
          Opens(disk'[d]) /\ Opens(mem'[d]) /\ ~Misfit(mem'[d], g)

Moved(d) ==
    /\ vault_locked' \in Of(BOOLEAN) /\ keys' \in Of(BOOLEAN) /\ session' \in Of(BOOLEAN)
    /\ forgotten' \in Of(BOOLEAN) /\ dialog' \in Of(Gens)
    /\ syncing' \in Of({"no", "pin", "fetch"})
    /\ \A e \in Devices : e # d =>
          keys'[e] = keys[e] /\ session'[e] = session[e] /\ forgotten'[e] = forgotten[e]

\* The local state of a device.
LEMMA LocalTypes ==
    ASSUME SharedTypeOK, NEW d \in Devices
    PROVE  /\ disk[d] \in Caches /\ mem[d] \in Caches /\ slots[d] \in Slots
           /\ lck[d] \in Gens /\ dialog[d] \in Gens
           /\ mem[d].pin \in Gens /\ mem[d].seal \in Gens
           /\ Reloaded(d).pin \in Gens /\ Reloaded(d).seal \in Gens
           /\ Reloaded(d) \in Caches /\ ReloadedSlot(d) \in Slots
<1>1. disk[d] \in Caches /\ mem[d] \in Caches
  BY DEF SharedTypeOK, Of
<1>2. slots[d] \in Slots /\ lck[d] \in Gens /\ dialog[d] \in Gens
  BY DEF SharedTypeOK, Of
<1>. QED
  BY <1>1, <1>2, FileTypes, ReloadTypes

\* A file that is only put in memory.
LEMMA HoldWrites ==
    ASSUME SharedTypeOK, NEW d \in Devices, NEW f \in Caches, NEW g \in Gens, Plain(f),
           mem' = [mem EXCEPT ![d] = f], UNCHANGED disk
    PROVE  Wrote(d, f, g)
BY DEF SharedTypeOK, Of, Wrote

\* A file that stays as it was.
LEMMA KeepWrites ==
    ASSUME SharedTypeOK, NEW d \in Devices, NEW g \in Gens, Plain(mem[d]), UNCHANGED <<disk, mem>>
    PROVE  Wrote(d, mem[d], g)
BY DEF SharedTypeOK, Of, Wrote

\* A file that is put in memory and saved.
LEMMA SaveWrites ==
    ASSUME SharedTypeOK, NEW d \in Devices, NEW f \in Caches, NEW g \in Gens, Plain(f), Save(d, f)
    PROVE  Wrote(d, f, g)
BY DEF SharedTypeOK, Of, Wrote, Save

\* reconcile_synced_key_state refreshes a file, or leaves it.
LEMMA ReconcileWrites ==
    ASSUME SharedTypeOK, NEW d \in Devices, NEW f \in Caches, NEW g \in Gens, Plain(f),
           Reconcile(d, f, g)
    PROVE  Wrote(d, f, g)
<1>1. CASE Present(f) /\ g # 0
  <2>1. Save(d, Refreshed(f, g)) /\ Refreshed(f, g) \in Caches
    BY <1>1, FileTypes DEF Reconcile
  <2>2. Wrote(d, Refreshed(f, g), g)
    BY <2>1, SaveWrites, FileOpens
  <2>3. Opens(f) /\ ~Misfit(f, g) => Opens(Refreshed(f, g)) /\ ~Misfit(Refreshed(f, g), g)
    BY <1>1, FileOpens DEF Misfit
  <2>. QED
    BY <2>2, <2>3 DEF Wrote
<1>2. CASE ~(Present(f) /\ g # 0)
  BY <1>2, HoldWrites DEF Reconcile
<1>. QED
  BY <1>1, <1>2

LEMMA ResolveWrites ==
    ASSUME SharedTypeOK, NEW d \in Devices, NEW f \in Caches, NEW g \in Gens, Plain(f),
           ResolvePending(d, f, g)
    PROVE  Wrote(d, f, g)
BY HoldWrites, ReconcileWrites DEF ResolvePending

\* A step of device d that writes a fitting file keeps the invariant.
LEMMA StepKeeps ==
    ASSUME SharedInv, NEW d \in Devices, NEW f \in Caches, NEW g \in Gens, NEW s \in Slots,
           Wrote(d, f, g), Moved(d),
           slots' = [slots EXCEPT ![d] = s], lck' = [lck EXCEPT ![d] = g],
           made' \in Gens, clash' \in BOOLEAN, clash => clash',
           ~clash' /\ Opens(disk[d]) /\ Opens(mem[d]) /\ Fits(d) => Opens(f) /\ ~Misfit(f, g),
           forgotten'[d] /\ d # Home => ~keys'[d] /\ ~session'[d] /\ s.dev # d
    PROVE  SharedInv'
<1>1. SharedTypeOK'
  BY DEF SharedInv, SharedTypeOK, Of, Wrote, Moved
<1>2. OpensInv'
  <2>1. SUFFICES ASSUME ~clash', NEW e \in Devices
                 PROVE  (Opens(disk[e]) /\ Opens(mem[e]) /\ Fits(e))'
    BY DEF OpensInv
  <2>2. \A x \in Devices : Opens(disk[x]) /\ Opens(mem[x]) /\ Fits(x)
    BY <2>1 DEF SharedInv, OpensInv
  <2>3. CASE e = d
    <3>1. lck'[d] = g
      BY DEF SharedInv, SharedTypeOK, Of
    <3>2. Opens(disk'[d]) /\ Opens(mem'[d]) /\ ~Misfit(mem'[d], g)
      BY <2>1, <2>2 DEF Wrote
    <3>. QED
      BY <2>3, <3>1, <3>2 DEF Fits, Misfit, Opens, Present
  <2>4. CASE e # d
    <3>1. lck'[e] = lck[e] /\ disk'[e] = disk[e] /\ mem'[e] = mem[e]
      BY <2>4 DEF SharedInv, SharedTypeOK, Of, Wrote
    <3>. QED
      BY <2>2, <3>1 DEF Fits, Opens, Present
  <2>. QED
    BY <2>3, <2>4
<1>3. ForgetInv'
  <2>1. SUFFICES ASSUME NEW e \in Devices
                 PROVE  /\ Plain(disk'[e]) /\ Plain(mem'[e])
                        /\ forgotten'[e] /\ e # Home =>
                              ~keys'[e] /\ ~session'[e] /\ slots'[e].dev # e
    BY DEF ForgetInv, Plain
  <2>2. CASE e = d
    <3>1. slots'[d] = s
      BY DEF SharedInv, SharedTypeOK, Of
    <3>. QED
      BY <2>2, <3>1 DEF SharedInv, ForgetInv, Wrote
  <2>3. CASE e # d
    <3>1. slots'[e] = slots[e] /\ disk'[e] = disk[e] /\ mem'[e] = mem[e]
      BY <2>3 DEF SharedInv, SharedTypeOK, Of, Wrote
    <3>. QED
      BY <2>3, <3>1 DEF SharedInv, ForgetInv, Moved
  <2>. QED
    BY <2>2, <2>3
<1>. QED
  BY <1>1, <1>2, <1>3 DEF SharedInv

\* An unlock command that only reloads keeps the invariant.
LEMMA UnlockInVainKeeps ==
    ASSUME SharedInv, NEW d \in Devices, UnlockInVain(d)
    PROVE  SharedInv'
<1>0. SharedTypeOK /\ Plain(disk[d]) /\ Plain(mem[d]) /\ Plain(Reloaded(d))
  BY ReloadTypes DEF SharedInv, ForgetInv
<1>1. Wrote(d, Reloaded(d), lck[d])
  BY <1>0, LocalTypes, FileTypes, FileOpens, HoldWrites DEF UnlockInVain, Reload, waiting
<1>2. Moved(d)
  BY <1>0, LocalTypes, FileTypes DEF SharedTypeOK, Of, Moved, UnlockInVain, Reload, waiting
<1>3. slots' = [slots EXCEPT ![d] = ReloadedSlot(d)] /\ lck' = [lck EXCEPT ![d] = lck[d]]
  BY <1>0 DEF SharedTypeOK, Of, UnlockInVain, Reload, waiting
<1>4. made' \in Gens /\ clash' \in BOOLEAN /\ (clash => clash')
  BY <1>0 DEF SharedTypeOK, UnlockInVain, Reload, waiting
<1>5. ~clash' /\ Opens(disk[d]) /\ Opens(mem[d]) /\ Fits(d) => Opens(Reloaded(d)) /\ ~Misfit(Reloaded(d), lck[d])
  BY <1>0, ReloadTypes, LocalTypes, FileOpens DEF Fits, Misfit, Opens, UnlockInVain, Reload, waiting
<1>6. forgotten'[d] /\ d # Home => ~keys'[d] /\ ~session'[d] /\ (ReloadedSlot(d)).dev # d
  BY <1>0, ReloadTypes, SharedAssumption DEF SharedInv, ForgetInv, SharedTypeOK, Of, NoSlot, UnlockInVain, Reload, waiting
<1>7. (Reloaded(d)) \in Caches /\ (lck[d]) \in Gens /\ (ReloadedSlot(d)) \in Slots
  BY <1>0, LocalTypes, FileTypes, SlotTypes DEF UnlockInVain, Reload, waiting
<1>. QED
  BY <1>1, <1>2, <1>3, <1>4, <1>5, <1>6, <1>7, StepKeeps

\* An unlock by the platform slot keeps the invariant.
LEMMA UnlockSlotKeeps ==
    ASSUME SharedInv, NEW d \in Devices, UnlockSlot(d)
    PROVE  SharedInv'
<1>0. SharedTypeOK /\ Plain(disk[d]) /\ Plain(mem[d]) /\ Plain(Reloaded(d))
  BY ReloadTypes DEF SharedInv, ForgetInv
<1>1. Wrote(d, Reloaded(d), Reloaded(d).seal)
  BY <1>0, LocalTypes, FileTypes, FileOpens, ResolveWrites DEF UnlockSlot, Reload, Unlocked, SlotOpens, waiting
<1>2. Moved(d)
  BY <1>0, LocalTypes, FileTypes DEF SharedTypeOK, Of, Moved, UnlockSlot, Reload, Unlocked, SlotOpens, waiting
<1>3. slots' = [slots EXCEPT ![d] = ReloadedSlot(d)] /\ lck' = [lck EXCEPT ![d] = Reloaded(d).seal]
  BY <1>0 DEF SharedTypeOK, Of, UnlockSlot, Reload, Unlocked, SlotOpens, waiting
<1>4. made' \in Gens /\ clash' \in BOOLEAN /\ (clash => clash')
  BY <1>0 DEF SharedTypeOK, UnlockSlot, Reload, Unlocked, SlotOpens, waiting
<1>5. ~clash' /\ Opens(disk[d]) /\ Opens(mem[d]) /\ Fits(d) => Opens(Reloaded(d)) /\ ~Misfit(Reloaded(d), Reloaded(d).seal)
  BY <1>0, ReloadTypes, LocalTypes, FileOpens DEF Fits, Misfit, Opens, UnlockSlot, Reload, Unlocked, SlotOpens, waiting
<1>6. forgotten'[d] /\ d # Home => ~keys'[d] /\ ~session'[d] /\ (ReloadedSlot(d)).dev # d
  BY <1>0, ReloadTypes, SharedAssumption DEF SharedInv, ForgetInv, SharedTypeOK, Of, NoSlot, UnlockSlot, Reload, Unlocked, SlotOpens, waiting
<1>7. (Reloaded(d)) \in Caches /\ (Reloaded(d).seal) \in Gens /\ (ReloadedSlot(d)) \in Slots
  BY <1>0, LocalTypes, FileTypes, SlotTypes DEF UnlockSlot, Reload, Unlocked, SlotOpens, waiting
<1>. QED
  BY <1>1, <1>2, <1>3, <1>4, <1>5, <1>6, <1>7, StepKeeps

\* An unlock by the PIN dialog keeps the invariant.
LEMMA UnlockDialogKeeps ==
    ASSUME SharedInv, NEW d \in Devices, UnlockDialog(d)
    PROVE  SharedInv'
<1>0. SharedTypeOK /\ Plain(disk[d]) /\ Plain(mem[d]) /\ Plain(Reloaded(d))
  BY ReloadTypes DEF SharedInv, ForgetInv
<1>1. Wrote(d, Reloaded(d), Reloaded(d).pin)
  BY <1>0, LocalTypes, FileTypes, FileOpens, ResolveWrites DEF UnlockDialog, Reload, Unlocked, waiting
<1>2. Moved(d)
  BY <1>0, LocalTypes, FileTypes DEF SharedTypeOK, Of, Moved, UnlockDialog, Reload, Unlocked, waiting
<1>3. slots' = [slots EXCEPT ![d] = ReloadedSlot(d)] /\ lck' = [lck EXCEPT ![d] = Reloaded(d).pin]
  BY <1>0 DEF SharedTypeOK, Of, UnlockDialog, Reload, Unlocked, waiting
<1>4. made' \in Gens /\ clash' \in BOOLEAN /\ (clash => clash')
  BY <1>0 DEF SharedTypeOK, UnlockDialog, Reload, Unlocked, waiting
<1>5. ~clash' /\ Opens(disk[d]) /\ Opens(mem[d]) /\ Fits(d) => Opens(Reloaded(d)) /\ ~Misfit(Reloaded(d), Reloaded(d).pin)
  BY <1>0, ReloadTypes, LocalTypes, FileOpens DEF Fits, Misfit, Opens, UnlockDialog, Reload, Unlocked, waiting
<1>6. forgotten'[d] /\ d # Home => ~keys'[d] /\ ~session'[d] /\ (ReloadedSlot(d)).dev # d
  BY <1>0, ReloadTypes, SharedAssumption DEF SharedInv, ForgetInv, SharedTypeOK, Of, NoSlot, UnlockDialog, Reload, Unlocked, waiting
<1>7. (Reloaded(d)) \in Caches /\ (Reloaded(d).pin) \in Gens /\ (ReloadedSlot(d)) \in Slots
  BY <1>0, LocalTypes, FileTypes, SlotTypes DEF UnlockDialog, Reload, Unlocked, waiting
<1>. QED
  BY <1>1, <1>2, <1>3, <1>4, <1>5, <1>6, <1>7, StepKeeps

\* unlock-pin keeps the invariant.
LEMMA UnlockPinKeeps ==
    ASSUME SharedInv, NEW d \in Devices, UnlockPin(d)
    PROVE  SharedInv'
<1>0. SharedTypeOK /\ Plain(disk[d]) /\ Plain(mem[d]) /\ Plain(Reloaded(d))
  BY ReloadTypes DEF SharedInv, ForgetInv
<1>1. CASE ResolvePending(d, Reloaded(d), Reloaded(d).pin)
  <2>1. Wrote(d, Reloaded(d), Reloaded(d).pin)
    BY <1>0, <1>1, LocalTypes, FileTypes, FileOpens, ResolveWrites DEF UnlockPin, Unlocked, waiting
  <2>2. Moved(d)
    BY <1>0, <1>1, LocalTypes, FileTypes DEF SharedTypeOK, Of, Moved, UnlockPin, Unlocked, waiting
  <2>3. slots' = [slots EXCEPT ![d] = Enrolled(ReloadedSlot(d), d, Reloaded(d).pin)] /\ lck' = [lck EXCEPT ![d] = Reloaded(d).pin]
    BY <1>0, <1>1 DEF SharedTypeOK, Of, UnlockPin, Unlocked, waiting
  <2>4. made' \in Gens /\ clash' \in BOOLEAN /\ (clash => clash')
    BY <1>0, <1>1 DEF SharedTypeOK, UnlockPin, Unlocked, waiting
  <2>5. ~clash' /\ Opens(disk[d]) /\ Opens(mem[d]) /\ Fits(d) => Opens(Reloaded(d)) /\ ~Misfit(Reloaded(d), Reloaded(d).pin)
    BY <1>0, <1>1, ReloadTypes, LocalTypes, FileOpens DEF Fits, Misfit, Opens, UnlockPin, Unlocked, waiting
  <2>6. forgotten'[d] /\ d # Home => ~keys'[d] /\ ~session'[d] /\ (Enrolled(ReloadedSlot(d), d, Reloaded(d).pin)).dev # d
    BY <1>0, <1>1, ReloadTypes, SharedAssumption DEF SharedInv, ForgetInv, SharedTypeOK, Of, NoSlot, UnlockPin, Unlocked, waiting
  <2>7. (Reloaded(d)) \in Caches /\ (Reloaded(d).pin) \in Gens /\ (Enrolled(ReloadedSlot(d), d, Reloaded(d).pin)) \in Slots
    BY <1>0, <1>1, LocalTypes, FileTypes, SlotTypes DEF UnlockPin, Unlocked, waiting
  <2>. QED
    BY <2>1, <2>2, <2>3, <2>4, <2>5, <2>6, <2>7, StepKeeps
<1>2. CASE Save(d, Migrated(Reloaded(d), Reloaded(d).pin))
  <2>1. Wrote(d, Migrated(Reloaded(d), Reloaded(d).pin), Reloaded(d).pin)
    BY <1>0, <1>2, LocalTypes, FileTypes, FileOpens, SaveWrites DEF UnlockPin, Unlocked, waiting
  <2>2. Moved(d)
    BY <1>0, <1>2, LocalTypes, FileTypes DEF SharedTypeOK, Of, Moved, UnlockPin, Unlocked, waiting
  <2>3. slots' = [slots EXCEPT ![d] = Enrolled(ReloadedSlot(d), d, Reloaded(d).pin)] /\ lck' = [lck EXCEPT ![d] = Reloaded(d).pin]
    BY <1>0, <1>2 DEF SharedTypeOK, Of, UnlockPin, Unlocked, waiting
  <2>4. made' \in Gens /\ clash' \in BOOLEAN /\ (clash => clash')
    BY <1>0, <1>2 DEF SharedTypeOK, UnlockPin, Unlocked, waiting
  <2>5. ~clash' /\ Opens(disk[d]) /\ Opens(mem[d]) /\ Fits(d) => Opens(Migrated(Reloaded(d), Reloaded(d).pin)) /\ ~Misfit(Migrated(Reloaded(d), Reloaded(d).pin), Reloaded(d).pin)
    BY <1>0, <1>2, ReloadTypes, LocalTypes, FileOpens DEF Fits, Misfit, Opens, UnlockPin, Unlocked, waiting
  <2>6. forgotten'[d] /\ d # Home => ~keys'[d] /\ ~session'[d] /\ (Enrolled(ReloadedSlot(d), d, Reloaded(d).pin)).dev # d
    BY <1>0, <1>2, ReloadTypes, SharedAssumption DEF SharedInv, ForgetInv, SharedTypeOK, Of, NoSlot, UnlockPin, Unlocked, waiting
  <2>7. (Migrated(Reloaded(d), Reloaded(d).pin)) \in Caches /\ (Reloaded(d).pin) \in Gens /\ (Enrolled(ReloadedSlot(d), d, Reloaded(d).pin)) \in Slots
    BY <1>0, <1>2, LocalTypes, FileTypes, SlotTypes DEF UnlockPin, Unlocked, waiting
  <2>. QED
    BY <2>1, <2>2, <2>3, <2>4, <2>5, <2>6, <2>7, StepKeeps
<1>. QED
  BY <1>1, <1>2 DEF UnlockPin

\* lock keeps the invariant.
LEMMA LockKeeps ==
    ASSUME SharedInv, NEW d \in Devices, Lock(d)
    PROVE  SharedInv'
<1>0. SharedTypeOK /\ Plain(disk[d]) /\ Plain(mem[d]) /\ Plain(Reloaded(d))
  BY ReloadTypes DEF SharedInv, ForgetInv
<1>1. Wrote(d, mem[d], 0)
  BY <1>0, LocalTypes, FileTypes, FileOpens, KeepWrites DEF Lock, Wiped, files, waiting
<1>2. Moved(d)
  BY <1>0, LocalTypes, FileTypes DEF SharedTypeOK, Of, Moved, Lock, Wiped, files, waiting
<1>3. slots' = [slots EXCEPT ![d] = slots[d]] /\ lck' = [lck EXCEPT ![d] = 0]
  BY <1>0 DEF SharedTypeOK, Of, Lock, Wiped, files, waiting
<1>4. made' \in Gens /\ clash' \in BOOLEAN /\ (clash => clash')
  BY <1>0 DEF SharedTypeOK, Lock, Wiped, files, waiting
<1>5. ~clash' /\ Opens(disk[d]) /\ Opens(mem[d]) /\ Fits(d) => Opens(mem[d]) /\ ~Misfit(mem[d], 0)
  BY <1>0, ReloadTypes, LocalTypes, FileOpens DEF Fits, Misfit, Opens, Lock, Wiped, files, waiting
<1>6. forgotten'[d] /\ d # Home => ~keys'[d] /\ ~session'[d] /\ (slots[d]).dev # d
  BY <1>0, ReloadTypes, SharedAssumption DEF SharedInv, ForgetInv, SharedTypeOK, Of, NoSlot, Lock, Wiped, files, waiting
<1>7. (mem[d]) \in Caches /\ (0) \in Gens /\ (slots[d]) \in Slots
  BY <1>0, LocalTypes, FileTypes, SlotTypes DEF Lock, Wiped, files, waiting
<1>. QED
  BY <1>1, <1>2, <1>3, <1>4, <1>5, <1>6, <1>7, StepKeeps

\* login keeps the invariant.
LEMMA LoginKeeps ==
    ASSUME SharedInv, NEW d \in Devices, Login(d)
    PROVE  SharedInv'
<1>0. SharedTypeOK /\ Plain(disk[d]) /\ Plain(mem[d]) /\ Plain(Reloaded(d))
  BY ReloadTypes DEF SharedInv, ForgetInv
<1>1. Wrote(d, mem[d], lck[d])
  BY <1>0, LocalTypes, FileTypes, FileOpens, ReconcileWrites DEF Login, Unlocked, waiting
<1>2. Moved(d)
  BY <1>0, LocalTypes, FileTypes DEF SharedTypeOK, Of, Moved, Login, Unlocked, waiting
<1>3. slots' = [slots EXCEPT ![d] = slots[d]] /\ lck' = [lck EXCEPT ![d] = lck[d]]
  BY <1>0 DEF SharedTypeOK, Of, Login, Unlocked, waiting
<1>4. made' \in Gens /\ clash' \in BOOLEAN /\ (clash => clash')
  BY <1>0 DEF SharedTypeOK, Login, Unlocked, waiting
<1>5. ~clash' /\ Opens(disk[d]) /\ Opens(mem[d]) /\ Fits(d) => Opens(mem[d]) /\ ~Misfit(mem[d], lck[d])
  BY <1>0, ReloadTypes, LocalTypes, FileOpens DEF Fits, Misfit, Opens, Login, Unlocked, waiting
<1>6. forgotten'[d] /\ d # Home => ~keys'[d] /\ ~session'[d] /\ (slots[d]).dev # d
  BY <1>0, ReloadTypes, SharedAssumption DEF SharedInv, ForgetInv, SharedTypeOK, Of, NoSlot, Login, Unlocked, waiting
<1>7. (mem[d]) \in Caches /\ (lck[d]) \in Gens /\ (slots[d]) \in Slots
  BY <1>0, LocalTypes, FileTypes, SlotTypes DEF Login, Unlocked, waiting
<1>. QED
  BY <1>1, <1>2, <1>3, <1>4, <1>5, <1>6, <1>7, StepKeeps

\* set-pin keeps the invariant.
LEMMA SetPinKeeps ==
    ASSUME SharedInv, NEW d \in Devices, SetPin(d)
    PROVE  SharedInv'
<1>0. SharedTypeOK /\ Plain(disk[d]) /\ Plain(mem[d]) /\ Plain(Reloaded(d))
  BY ReloadTypes DEF SharedInv, ForgetInv
<1>a. lck[d] = 0 => made + 1 \in Gens
  BY <1>0, SharedAssumption DEF SharedTypeOK, Of, Gens, SetPin
<1>1. CASE lck[d] # 0
  <2>1. Wrote(d, Written(lck[d]), lck[d])
    BY <1>0, <1>a, <1>1, LocalTypes, FileTypes, FileOpens, SaveWrites DEF SetPin, waiting
  <2>2. Moved(d)
    BY <1>0, <1>a, <1>1, LocalTypes, FileTypes DEF SharedTypeOK, Of, Moved, SetPin, waiting
  <2>3. slots' = [slots EXCEPT ![d] = [dev |-> d, gen |-> lck[d]]] /\ lck' = [lck EXCEPT ![d] = lck[d]]
    BY <1>0, <1>a, <1>1 DEF SharedTypeOK, Of, SetPin, waiting
  <2>4. made' \in Gens /\ clash' \in BOOLEAN /\ (clash => clash')
    BY <1>0, <1>a, <1>1 DEF SharedTypeOK, SetPin, waiting
  <2>5. ~clash' /\ Opens(disk[d]) /\ Opens(mem[d]) /\ Fits(d) => Opens(Written(lck[d])) /\ ~Misfit(Written(lck[d]), lck[d])
    BY <1>0, <1>a, <1>1, ReloadTypes, LocalTypes, FileOpens DEF Fits, Misfit, Opens, SetPin, waiting
  <2>6. forgotten'[d] /\ d # Home => ~keys'[d] /\ ~session'[d] /\ ([dev |-> d, gen |-> lck[d]]).dev # d
    BY <1>0, <1>a, <1>1, ReloadTypes, SharedAssumption DEF SharedInv, ForgetInv, SharedTypeOK, Of, NoSlot, SetPin, waiting
  <2>7. (Written(lck[d])) \in Caches /\ (lck[d]) \in Gens /\ ([dev |-> d, gen |-> lck[d]]) \in Slots
    BY <1>0, <1>a, <1>1, LocalTypes, FileTypes, SlotTypes DEF SetPin, waiting
  <2>. QED
    BY <2>1, <2>2, <2>3, <2>4, <2>5, <2>6, <2>7, StepKeeps
<1>2. CASE lck[d] = 0
  <2>1. Wrote(d, Written(made + 1), made + 1)
    BY <1>0, <1>a, <1>2, LocalTypes, FileTypes, FileOpens, SaveWrites DEF SetPin, waiting
  <2>2. Moved(d)
    BY <1>0, <1>a, <1>2, LocalTypes, FileTypes DEF SharedTypeOK, Of, Moved, SetPin, waiting
  <2>3. slots' = [slots EXCEPT ![d] = [dev |-> d, gen |-> made + 1]] /\ lck' = [lck EXCEPT ![d] = made + 1]
    BY <1>0, <1>a, <1>2 DEF SharedTypeOK, Of, SetPin, waiting
  <2>4. made' \in Gens /\ clash' \in BOOLEAN /\ (clash => clash')
    BY <1>0, <1>a, <1>2 DEF SharedTypeOK, SetPin, waiting
  <2>5. ~clash' /\ Opens(disk[d]) /\ Opens(mem[d]) /\ Fits(d) => Opens(Written(made + 1)) /\ ~Misfit(Written(made + 1), made + 1)
    BY <1>0, <1>a, <1>2, ReloadTypes, LocalTypes, FileOpens DEF Fits, Misfit, Opens, SetPin, waiting
  <2>6. forgotten'[d] /\ d # Home => ~keys'[d] /\ ~session'[d] /\ ([dev |-> d, gen |-> made + 1]).dev # d
    BY <1>0, <1>a, <1>2, ReloadTypes, SharedAssumption DEF SharedInv, ForgetInv, SharedTypeOK, Of, NoSlot, SetPin, waiting
  <2>7. (Written(made + 1)) \in Caches /\ (made + 1) \in Gens /\ ([dev |-> d, gen |-> made + 1]) \in Slots
    BY <1>0, <1>a, <1>2, LocalTypes, FileTypes, SlotTypes DEF SetPin, waiting
  <2>. QED
    BY <2>1, <2>2, <2>3, <2>4, <2>5, <2>6, <2>7, StepKeeps
<1>. QED
  BY <1>1, <1>2

\* forget keeps the invariant.
LEMMA ForgetDeviceKeeps ==
    ASSUME SharedInv, NEW d \in Devices, ForgetDevice(d)
    PROVE  SharedInv'
<1>0. SharedTypeOK /\ Plain(disk[d]) /\ Plain(mem[d]) /\ Plain(Reloaded(d))
  BY ReloadTypes DEF SharedInv, ForgetInv
<1>1. Wrote(d, disk[d], 0)
  BY <1>0, LocalTypes, FileTypes, FileOpens, HoldWrites DEF ForgetDevice, Wiped, ForgottenSlot, waiting
<1>2. Moved(d)
  BY <1>0, LocalTypes, FileTypes DEF SharedTypeOK, Of, Moved, ForgetDevice, Wiped, ForgottenSlot, waiting
<1>3. slots' = [slots EXCEPT ![d] = NoSlot] /\ lck' = [lck EXCEPT ![d] = 0]
  BY <1>0 DEF SharedTypeOK, Of, ForgetDevice, Wiped, ForgottenSlot, waiting
<1>4. made' \in Gens /\ clash' \in BOOLEAN /\ (clash => clash')
  BY <1>0 DEF SharedTypeOK, ForgetDevice, Wiped, ForgottenSlot, waiting
<1>5. ~clash' /\ Opens(disk[d]) /\ Opens(mem[d]) /\ Fits(d) => Opens(disk[d]) /\ ~Misfit(disk[d], 0)
  BY <1>0, ReloadTypes, LocalTypes, FileOpens DEF Fits, Misfit, Opens, ForgetDevice, Wiped, ForgottenSlot, waiting
<1>6. forgotten'[d] /\ d # Home => ~keys'[d] /\ ~session'[d] /\ (NoSlot).dev # d
  BY <1>0, ReloadTypes, SharedAssumption DEF SharedInv, ForgetInv, SharedTypeOK, Of, NoSlot, ForgetDevice, Wiped, ForgottenSlot, waiting
<1>7. (disk[d]) \in Caches /\ (0) \in Gens /\ (NoSlot) \in Slots
  BY <1>0, LocalTypes, FileTypes, SlotTypes DEF ForgetDevice, Wiped, ForgottenSlot, waiting
<1>. QED
  BY <1>1, <1>2, <1>3, <1>4, <1>5, <1>6, <1>7, StepKeeps

\* forget --shared-cache keeps the invariant.
LEMMA ForgetSharedKeeps ==
    ASSUME SharedInv, NEW d \in Devices, ForgetShared(d)
    PROVE  SharedInv'
<1>0. SharedTypeOK /\ Plain(disk[d]) /\ Plain(mem[d]) /\ Plain(Reloaded(d))
  BY ReloadTypes DEF SharedInv, ForgetInv
<1>1. Wrote(d, NoFile, 0)
  BY <1>0, LocalTypes, FileTypes, FileOpens, SaveWrites DEF ForgetShared, Wiped, ForgottenSlot, waiting
<1>2. Moved(d)
  BY <1>0, LocalTypes, FileTypes DEF SharedTypeOK, Of, Moved, ForgetShared, Wiped, ForgottenSlot, waiting
<1>3. slots' = [slots EXCEPT ![d] = NoSlot] /\ lck' = [lck EXCEPT ![d] = 0]
  BY <1>0 DEF SharedTypeOK, Of, ForgetShared, Wiped, ForgottenSlot, waiting
<1>4. made' \in Gens /\ clash' \in BOOLEAN /\ (clash => clash')
  BY <1>0 DEF SharedTypeOK, ForgetShared, Wiped, ForgottenSlot, waiting
<1>5. ~clash' /\ Opens(disk[d]) /\ Opens(mem[d]) /\ Fits(d) => Opens(NoFile) /\ ~Misfit(NoFile, 0)
  BY <1>0, ReloadTypes, LocalTypes, FileOpens DEF Fits, Misfit, Opens, ForgetShared, Wiped, ForgottenSlot, waiting
<1>6. forgotten'[d] /\ d # Home => ~keys'[d] /\ ~session'[d] /\ (NoSlot).dev # d
  BY <1>0, ReloadTypes, SharedAssumption DEF SharedInv, ForgetInv, SharedTypeOK, Of, NoSlot, ForgetShared, Wiped, ForgottenSlot, waiting
<1>7. (NoFile) \in Caches /\ (0) \in Gens /\ (NoSlot) \in Slots
  BY <1>0, LocalTypes, FileTypes, SlotTypes DEF ForgetShared, Wiped, ForgottenSlot, waiting
<1>. QED
  BY <1>1, <1>2, <1>3, <1>4, <1>5, <1>6, <1>7, StepKeeps

\* sync while locked keeps the invariant.
LEMMA SyncLockedKeeps ==
    ASSUME SharedInv, NEW d \in Devices, SyncLocked(d)
    PROVE  SharedInv'
<1>0. SharedTypeOK /\ Plain(disk[d]) /\ Plain(mem[d]) /\ Plain(Reloaded(d))
  BY ReloadTypes DEF SharedInv, ForgetInv
<1>1. Wrote(d, Reloaded(d), lck[d])
  BY <1>0, LocalTypes, FileTypes, FileOpens, HoldWrites, ReconcileWrites DEF SyncLocked, Reload, waiting
<1>2. Moved(d)
  BY <1>0, LocalTypes, FileTypes DEF SharedTypeOK, Of, Moved, SyncLocked, Reload, waiting
<1>3. slots' = [slots EXCEPT ![d] = ReloadedSlot(d)] /\ lck' = [lck EXCEPT ![d] = lck[d]]
  BY <1>0 DEF SharedTypeOK, Of, SyncLocked, Reload, waiting
<1>4. made' \in Gens /\ clash' \in BOOLEAN /\ (clash => clash')
  BY <1>0 DEF SharedTypeOK, SyncLocked, Reload, waiting
<1>5. ~clash' /\ Opens(disk[d]) /\ Opens(mem[d]) /\ Fits(d) => Opens(Reloaded(d)) /\ ~Misfit(Reloaded(d), lck[d])
  BY <1>0, ReloadTypes, LocalTypes, FileOpens DEF Fits, Misfit, Opens, SyncLocked, Reload, waiting
<1>6. forgotten'[d] /\ d # Home => ~keys'[d] /\ ~session'[d] /\ (ReloadedSlot(d)).dev # d
  BY <1>0, ReloadTypes, SharedAssumption DEF SharedInv, ForgetInv, SharedTypeOK, Of, NoSlot, SyncLocked, Reload, waiting
<1>7. (Reloaded(d)) \in Caches /\ (lck[d]) \in Gens /\ (ReloadedSlot(d)) \in Slots
  BY <1>0, LocalTypes, FileTypes, SlotTypes DEF SyncLocked, Reload, waiting
<1>. QED
  BY <1>1, <1>2, <1>3, <1>4, <1>5, <1>6, <1>7, StepKeeps

\* The start of a manual sync keeps the invariant.
LEMMA SyncStartKeeps ==
    ASSUME SharedInv, NEW d \in Devices, SyncStart(d)
    PROVE  SharedInv'
<1>0. SharedTypeOK /\ Plain(disk[d]) /\ Plain(mem[d]) /\ Plain(Reloaded(d))
  BY ReloadTypes DEF SharedInv, ForgetInv
<1>1. CASE ~Present(Reloaded(d)) \/ KeyFits(Reloaded(d), lck[d])
  <2>1. Wrote(d, Reloaded(d), lck[d])
    BY <1>0, <1>1, LocalTypes, FileTypes, FileOpens, HoldWrites DEF SyncStart, waiting, Reload, KeyFits
  <2>2. Moved(d)
    BY <1>0, <1>1, LocalTypes, FileTypes DEF SharedTypeOK, Of, Moved, SyncStart, waiting, Reload, KeyFits
  <2>3. slots' = [slots EXCEPT ![d] = ReloadedSlot(d)] /\ lck' = [lck EXCEPT ![d] = lck[d]]
    BY <1>0, <1>1 DEF SharedTypeOK, Of, SyncStart, waiting, Reload, KeyFits
  <2>4. made' \in Gens /\ clash' \in BOOLEAN /\ (clash => clash')
    BY <1>0, <1>1 DEF SharedTypeOK, SyncStart, waiting, Reload, KeyFits
  <2>5. ~clash' /\ Opens(disk[d]) /\ Opens(mem[d]) /\ Fits(d) => Opens(Reloaded(d)) /\ ~Misfit(Reloaded(d), lck[d])
    BY <1>0, <1>1, ReloadTypes, LocalTypes, FileOpens DEF Fits, Misfit, Opens, SyncStart, waiting, Reload, KeyFits
  <2>6. forgotten'[d] /\ d # Home => ~keys'[d] /\ ~session'[d] /\ (ReloadedSlot(d)).dev # d
    BY <1>0, <1>1, ReloadTypes, SharedAssumption DEF SharedInv, ForgetInv, SharedTypeOK, Of, NoSlot, SyncStart, waiting, Reload, KeyFits
  <2>7. (Reloaded(d)) \in Caches /\ (lck[d]) \in Gens /\ (ReloadedSlot(d)) \in Slots
    BY <1>0, <1>1, LocalTypes, FileTypes, SlotTypes DEF SyncStart, waiting, Reload, KeyFits
  <2>. QED
    BY <2>1, <2>2, <2>3, <2>4, <2>5, <2>6, <2>7, StepKeeps
<1>2. CASE ~(~Present(Reloaded(d)) \/ KeyFits(Reloaded(d), lck[d]))
  <2>1. Wrote(d, Reloaded(d), 0)
    BY <1>0, <1>2, LocalTypes, FileTypes, FileOpens, HoldWrites DEF SyncStart, waiting, Reload, KeyFits
  <2>2. Moved(d)
    BY <1>0, <1>2, LocalTypes, FileTypes DEF SharedTypeOK, Of, Moved, SyncStart, waiting, Reload, KeyFits
  <2>3. slots' = [slots EXCEPT ![d] = ReloadedSlot(d)] /\ lck' = [lck EXCEPT ![d] = 0]
    BY <1>0, <1>2 DEF SharedTypeOK, Of, SyncStart, waiting, Reload, KeyFits
  <2>4. made' \in Gens /\ clash' \in BOOLEAN /\ (clash => clash')
    BY <1>0, <1>2 DEF SharedTypeOK, SyncStart, waiting, Reload, KeyFits
  <2>5. ~clash' /\ Opens(disk[d]) /\ Opens(mem[d]) /\ Fits(d) => Opens(Reloaded(d)) /\ ~Misfit(Reloaded(d), 0)
    BY <1>0, <1>2, ReloadTypes, LocalTypes, FileOpens DEF Fits, Misfit, Opens, SyncStart, waiting, Reload, KeyFits
  <2>6. forgotten'[d] /\ d # Home => ~keys'[d] /\ ~session'[d] /\ (ReloadedSlot(d)).dev # d
    BY <1>0, <1>2, ReloadTypes, SharedAssumption DEF SharedInv, ForgetInv, SharedTypeOK, Of, NoSlot, SyncStart, waiting, Reload, KeyFits
  <2>7. (Reloaded(d)) \in Caches /\ (0) \in Gens /\ (ReloadedSlot(d)) \in Slots
    BY <1>0, <1>2, LocalTypes, FileTypes, SlotTypes DEF SyncStart, waiting, Reload, KeyFits
  <2>. QED
    BY <2>1, <2>2, <2>3, <2>4, <2>5, <2>6, <2>7, StepKeeps
<1>. QED
  BY <1>1, <1>2

\* The PIN of a manual sync keeps the invariant.
LEMMA SyncPinKeeps ==
    ASSUME SharedInv, NEW d \in Devices, SyncPin(d)
    PROVE  SharedInv'
<1>0. SharedTypeOK /\ Plain(disk[d]) /\ Plain(mem[d]) /\ Plain(Reloaded(d))
  BY ReloadTypes DEF SharedInv, ForgetInv
<1>1. CASE Opens(mem[d]) /\ lck' = [lck EXCEPT ![d] = mem[d].pin]
  <2>1. Wrote(d, mem[d], mem[d].pin)
    BY <1>0, <1>1, LocalTypes, FileTypes, FileOpens, KeepWrites DEF SyncPin, waiting, files
  <2>2. Moved(d)
    BY <1>0, <1>1, LocalTypes, FileTypes DEF SharedTypeOK, Of, Moved, SyncPin, waiting, files
  <2>3. slots' = [slots EXCEPT ![d] = slots[d]] /\ lck' = [lck EXCEPT ![d] = mem[d].pin]
    BY <1>0, <1>1 DEF SharedTypeOK, Of, SyncPin, waiting, files
  <2>4. made' \in Gens /\ clash' \in BOOLEAN /\ (clash => clash')
    BY <1>0, <1>1 DEF SharedTypeOK, SyncPin, waiting, files
  <2>5. ~clash' /\ Opens(disk[d]) /\ Opens(mem[d]) /\ Fits(d) => Opens(mem[d]) /\ ~Misfit(mem[d], mem[d].pin)
    BY <1>0, <1>1, ReloadTypes, LocalTypes, FileOpens DEF Fits, Misfit, Opens, SyncPin, waiting, files
  <2>6. forgotten'[d] /\ d # Home => ~keys'[d] /\ ~session'[d] /\ (slots[d]).dev # d
    BY <1>0, <1>1, ReloadTypes, SharedAssumption DEF SharedInv, ForgetInv, SharedTypeOK, Of, NoSlot, SyncPin, waiting, files
  <2>7. (mem[d]) \in Caches /\ (mem[d].pin) \in Gens /\ (slots[d]) \in Slots
    BY <1>0, <1>1, LocalTypes, FileTypes, SlotTypes DEF SyncPin, waiting, files
  <2>. QED
    BY <2>1, <2>2, <2>3, <2>4, <2>5, <2>6, <2>7, StepKeeps
<1>2. CASE UNCHANGED lck
  <2>1. Wrote(d, mem[d], lck[d])
    BY <1>0, <1>2, LocalTypes, FileTypes, FileOpens, KeepWrites DEF SyncPin, waiting, files
  <2>2. Moved(d)
    BY <1>0, <1>2, LocalTypes, FileTypes DEF SharedTypeOK, Of, Moved, SyncPin, waiting, files
  <2>3. slots' = [slots EXCEPT ![d] = slots[d]] /\ lck' = [lck EXCEPT ![d] = lck[d]]
    BY <1>0, <1>2 DEF SharedTypeOK, Of, SyncPin, waiting, files
  <2>4. made' \in Gens /\ clash' \in BOOLEAN /\ (clash => clash')
    BY <1>0, <1>2 DEF SharedTypeOK, SyncPin, waiting, files
  <2>5. ~clash' /\ Opens(disk[d]) /\ Opens(mem[d]) /\ Fits(d) => Opens(mem[d]) /\ ~Misfit(mem[d], lck[d])
    BY <1>0, <1>2, ReloadTypes, LocalTypes, FileOpens DEF Fits, Misfit, Opens, SyncPin, waiting, files
  <2>6. forgotten'[d] /\ d # Home => ~keys'[d] /\ ~session'[d] /\ (slots[d]).dev # d
    BY <1>0, <1>2, ReloadTypes, SharedAssumption DEF SharedInv, ForgetInv, SharedTypeOK, Of, NoSlot, SyncPin, waiting, files
  <2>7. (mem[d]) \in Caches /\ (lck[d]) \in Gens /\ (slots[d]) \in Slots
    BY <1>0, <1>2, LocalTypes, FileTypes, SlotTypes DEF SyncPin, waiting, files
  <2>. QED
    BY <2>1, <2>2, <2>3, <2>4, <2>5, <2>6, <2>7, StepKeeps
<1>. QED
  BY <1>1, <1>2 DEF SyncPin

\* The answer to a manual sync keeps the invariant.
LEMMA SyncFetchKeeps ==
    ASSUME SharedInv, NEW d \in Devices, SyncFetch(d)
    PROVE  SharedInv'
<1>0. SharedTypeOK /\ Plain(disk[d]) /\ Plain(mem[d]) /\ Plain(Reloaded(d))
  BY ReloadTypes DEF SharedInv, ForgetInv
<1>1. Wrote(d, mem[d], lck[d])
  BY <1>0, LocalTypes, FileTypes, FileOpens, KeepWrites, ReconcileWrites DEF SyncFetch, waiting
<1>2. Moved(d)
  BY <1>0, LocalTypes, FileTypes DEF SharedTypeOK, Of, Moved, SyncFetch, waiting
<1>3. slots' = [slots EXCEPT ![d] = slots[d]] /\ lck' = [lck EXCEPT ![d] = lck[d]]
  BY <1>0 DEF SharedTypeOK, Of, SyncFetch, waiting
<1>4. made' \in Gens /\ clash' \in BOOLEAN /\ (clash => clash')
  BY <1>0 DEF SharedTypeOK, SyncFetch, waiting
<1>5. ~clash' /\ Opens(disk[d]) /\ Opens(mem[d]) /\ Fits(d) => Opens(mem[d]) /\ ~Misfit(mem[d], lck[d])
  BY <1>0, ReloadTypes, LocalTypes, FileOpens DEF Fits, Misfit, Opens, SyncFetch, waiting
<1>6. forgotten'[d] /\ d # Home => ~keys'[d] /\ ~session'[d] /\ (slots[d]).dev # d
  BY <1>0, ReloadTypes, SharedAssumption DEF SharedInv, ForgetInv, SharedTypeOK, Of, NoSlot, SyncFetch, waiting
<1>7. (mem[d]) \in Caches /\ (lck[d]) \in Gens /\ (slots[d]) \in Slots
  BY <1>0, LocalTypes, FileTypes, SlotTypes DEF SyncFetch, waiting
<1>. QED
  BY <1>1, <1>2, <1>3, <1>4, <1>5, <1>6, <1>7, StepKeeps

\* A sync by notification keeps the invariant.
LEMMA AutoSyncKeeps ==
    ASSUME SharedInv, NEW d \in Devices, AutoSync(d)
    PROVE  SharedInv'
<1>0. SharedTypeOK /\ Plain(disk[d]) /\ Plain(mem[d]) /\ Plain(Reloaded(d))
  BY ReloadTypes DEF SharedInv, ForgetInv
<1>1. Wrote(d, mem[d], lck[d])
  BY <1>0, LocalTypes, FileTypes, FileOpens, ReconcileWrites DEF AutoSync, waiting
<1>2. Moved(d)
  BY <1>0, LocalTypes, FileTypes DEF SharedTypeOK, Of, Moved, AutoSync, waiting
<1>3. slots' = [slots EXCEPT ![d] = slots[d]] /\ lck' = [lck EXCEPT ![d] = lck[d]]
  BY <1>0 DEF SharedTypeOK, Of, AutoSync, waiting
<1>4. made' \in Gens /\ clash' \in BOOLEAN /\ (clash => clash')
  BY <1>0 DEF SharedTypeOK, AutoSync, waiting
<1>5. ~clash' /\ Opens(disk[d]) /\ Opens(mem[d]) /\ Fits(d) => Opens(mem[d]) /\ ~Misfit(mem[d], lck[d])
  BY <1>0, ReloadTypes, LocalTypes, FileOpens DEF Fits, Misfit, Opens, AutoSync, waiting
<1>6. forgotten'[d] /\ d # Home => ~keys'[d] /\ ~session'[d] /\ (slots[d]).dev # d
  BY <1>0, ReloadTypes, SharedAssumption DEF SharedInv, ForgetInv, SharedTypeOK, Of, NoSlot, AutoSync, waiting
<1>7. (mem[d]) \in Caches /\ (lck[d]) \in Gens /\ (slots[d]) \in Slots
  BY <1>0, LocalTypes, FileTypes, SlotTypes DEF AutoSync, waiting
<1>. QED
  BY <1>1, <1>2, <1>3, <1>4, <1>5, <1>6, <1>7, StepKeeps

\* An auto-unlock by the platform slot keeps the invariant.
LEMMA AutoUnlockSlotKeeps ==
    ASSUME SharedInv, NEW d \in Devices, AutoUnlockSlot(d)
    PROVE  SharedInv'
<1>0. SharedTypeOK /\ Plain(disk[d]) /\ Plain(mem[d]) /\ Plain(Reloaded(d))
  BY ReloadTypes DEF SharedInv, ForgetInv
<1>1. Wrote(d, mem[d], mem[d].seal)
  BY <1>0, LocalTypes, FileTypes, FileOpens, KeepWrites DEF AutoUnlockSlot, Unlocked, files, SlotOpens, waiting
<1>2. Moved(d)
  BY <1>0, LocalTypes, FileTypes DEF SharedTypeOK, Of, Moved, AutoUnlockSlot, Unlocked, files, SlotOpens, waiting
<1>3. slots' = [slots EXCEPT ![d] = slots[d]] /\ lck' = [lck EXCEPT ![d] = mem[d].seal]
  BY <1>0 DEF SharedTypeOK, Of, AutoUnlockSlot, Unlocked, files, SlotOpens, waiting
<1>4. made' \in Gens /\ clash' \in BOOLEAN /\ (clash => clash')
  BY <1>0 DEF SharedTypeOK, AutoUnlockSlot, Unlocked, files, SlotOpens, waiting
<1>5. ~clash' /\ Opens(disk[d]) /\ Opens(mem[d]) /\ Fits(d) => Opens(mem[d]) /\ ~Misfit(mem[d], mem[d].seal)
  BY <1>0, ReloadTypes, LocalTypes, FileOpens DEF Fits, Misfit, Opens, AutoUnlockSlot, Unlocked, files, SlotOpens, waiting
<1>6. forgotten'[d] /\ d # Home => ~keys'[d] /\ ~session'[d] /\ (slots[d]).dev # d
  BY <1>0, ReloadTypes, SharedAssumption DEF SharedInv, ForgetInv, SharedTypeOK, Of, NoSlot, AutoUnlockSlot, Unlocked, files, SlotOpens, waiting
<1>7. (mem[d]) \in Caches /\ (mem[d].seal) \in Gens /\ (slots[d]) \in Slots
  BY <1>0, LocalTypes, FileTypes, SlotTypes DEF AutoUnlockSlot, Unlocked, files, SlotOpens, waiting
<1>. QED
  BY <1>1, <1>2, <1>3, <1>4, <1>5, <1>6, <1>7, StepKeeps

\* An opened PIN dialog keeps the invariant.
LEMMA DialogOpensKeeps ==
    ASSUME SharedInv, NEW d \in Devices, DialogOpens(d)
    PROVE  SharedInv'
<1>0. SharedTypeOK /\ Plain(disk[d]) /\ Plain(mem[d]) /\ Plain(Reloaded(d))
  BY ReloadTypes DEF SharedInv, ForgetInv
<1>1. Wrote(d, mem[d], lck[d])
  BY <1>0, LocalTypes, FileTypes, FileOpens, KeepWrites DEF DialogOpens, files, state, waiting
<1>2. Moved(d)
  BY <1>0, LocalTypes, FileTypes DEF SharedTypeOK, Of, Moved, DialogOpens, files, state, waiting
<1>3. slots' = [slots EXCEPT ![d] = slots[d]] /\ lck' = [lck EXCEPT ![d] = lck[d]]
  BY <1>0 DEF SharedTypeOK, Of, DialogOpens, files, state, waiting
<1>4. made' \in Gens /\ clash' \in BOOLEAN /\ (clash => clash')
  BY <1>0 DEF SharedTypeOK, DialogOpens, files, state, waiting
<1>5. ~clash' /\ Opens(disk[d]) /\ Opens(mem[d]) /\ Fits(d) => Opens(mem[d]) /\ ~Misfit(mem[d], lck[d])
  BY <1>0, ReloadTypes, LocalTypes, FileOpens DEF Fits, Misfit, Opens, DialogOpens, files, state, waiting
<1>6. forgotten'[d] /\ d # Home => ~keys'[d] /\ ~session'[d] /\ (slots[d]).dev # d
  BY <1>0, ReloadTypes, SharedAssumption DEF SharedInv, ForgetInv, SharedTypeOK, Of, NoSlot, DialogOpens, files, state, waiting
<1>7. (mem[d]) \in Caches /\ (lck[d]) \in Gens /\ (slots[d]) \in Slots
  BY <1>0, LocalTypes, FileTypes, SlotTypes DEF DialogOpens, files, state, waiting
<1>. QED
  BY <1>1, <1>2, <1>3, <1>4, <1>5, <1>6, <1>7, StepKeeps

\* An answered PIN dialog keeps the invariant.
LEMMA DialogPinKeeps ==
    ASSUME SharedInv, NEW d \in Devices, DialogPin(d)
    PROVE  SharedInv'
<1>0. SharedTypeOK /\ Plain(disk[d]) /\ Plain(mem[d]) /\ Plain(Reloaded(d))
  BY ReloadTypes DEF SharedInv, ForgetInv
<1>1. CASE /\ Unlocked(d, dialog[d])
          /\ slots' = [slots EXCEPT ![d] = Enrolled(slots[d], d, dialog[d])]
          /\ clash' = (clash \/ Misfit(mem[d], dialog[d]))
          /\ forgotten' = [forgotten EXCEPT ![d] = FALSE]
  <2>1. Wrote(d, mem[d], dialog[d])
    BY <1>0, <1>1, LocalTypes, FileTypes, FileOpens, KeepWrites DEF DialogPin, waiting, files, Unlocked
  <2>2. Moved(d)
    BY <1>0, <1>1, LocalTypes, FileTypes DEF SharedTypeOK, Of, Moved, DialogPin, waiting, files, Unlocked
  <2>3. slots' = [slots EXCEPT ![d] = Enrolled(slots[d], d, dialog[d])] /\ lck' = [lck EXCEPT ![d] = dialog[d]]
    BY <1>0, <1>1 DEF SharedTypeOK, Of, DialogPin, waiting, files, Unlocked
  <2>4. made' \in Gens /\ clash' \in BOOLEAN /\ (clash => clash')
    BY <1>0, <1>1 DEF SharedTypeOK, DialogPin, waiting, files, Unlocked
  <2>5. ~clash' /\ Opens(disk[d]) /\ Opens(mem[d]) /\ Fits(d) => Opens(mem[d]) /\ ~Misfit(mem[d], dialog[d])
    BY <1>0, <1>1, ReloadTypes, LocalTypes, FileOpens DEF Fits, Misfit, Opens, DialogPin, waiting, files, Unlocked
  <2>6. forgotten'[d] /\ d # Home => ~keys'[d] /\ ~session'[d] /\ (Enrolled(slots[d], d, dialog[d])).dev # d
    BY <1>0, <1>1, ReloadTypes, SharedAssumption DEF SharedInv, ForgetInv, SharedTypeOK, Of, NoSlot, DialogPin, waiting, files, Unlocked
  <2>7. (mem[d]) \in Caches /\ (dialog[d]) \in Gens /\ (Enrolled(slots[d], d, dialog[d])) \in Slots
    BY <1>0, <1>1, LocalTypes, FileTypes, SlotTypes DEF DialogPin, waiting, files, Unlocked
  <2>. QED
    BY <2>1, <2>2, <2>3, <2>4, <2>5, <2>6, <2>7, StepKeeps
<1>2. CASE UNCHANGED <<lck, vault_locked, keys, session, slots, clash, forgotten>>
  <2>1. Wrote(d, mem[d], lck[d])
    BY <1>0, <1>2, LocalTypes, FileTypes, FileOpens, KeepWrites DEF DialogPin, waiting, files, Unlocked
  <2>2. Moved(d)
    BY <1>0, <1>2, LocalTypes, FileTypes DEF SharedTypeOK, Of, Moved, DialogPin, waiting, files, Unlocked
  <2>3. slots' = [slots EXCEPT ![d] = slots[d]] /\ lck' = [lck EXCEPT ![d] = lck[d]]
    BY <1>0, <1>2 DEF SharedTypeOK, Of, DialogPin, waiting, files, Unlocked
  <2>4. made' \in Gens /\ clash' \in BOOLEAN /\ (clash => clash')
    BY <1>0, <1>2 DEF SharedTypeOK, DialogPin, waiting, files, Unlocked
  <2>5. ~clash' /\ Opens(disk[d]) /\ Opens(mem[d]) /\ Fits(d) => Opens(mem[d]) /\ ~Misfit(mem[d], lck[d])
    BY <1>0, <1>2, ReloadTypes, LocalTypes, FileOpens DEF Fits, Misfit, Opens, DialogPin, waiting, files, Unlocked
  <2>6. forgotten'[d] /\ d # Home => ~keys'[d] /\ ~session'[d] /\ (slots[d]).dev # d
    BY <1>0, <1>2, ReloadTypes, SharedAssumption DEF SharedInv, ForgetInv, SharedTypeOK, Of, NoSlot, DialogPin, waiting, files, Unlocked
  <2>7. (mem[d]) \in Caches /\ (lck[d]) \in Gens /\ (slots[d]) \in Slots
    BY <1>0, <1>2, LocalTypes, FileTypes, SlotTypes DEF DialogPin, waiting, files, Unlocked
  <2>. QED
    BY <2>1, <2>2, <2>3, <2>4, <2>5, <2>6, <2>7, StepKeeps
<1>. QED
  BY <1>1, <1>2 DEF DialogPin

\* A restart keeps the invariant: with a file, without, and with a PIN set at once.
LEMMA RestartKeeps ==
    ASSUME SharedInv, NEW d \in Devices, Restart(d)
    PROVE  SharedInv'
<1>0. SharedTypeOK /\ Plain(disk[d]) /\ Plain(mem[d]) /\ Plain(Reloaded(d))
  BY ReloadTypes DEF SharedInv, ForgetInv
<1>a. made < MaxGen => made + 1 \in Gens
  BY <1>0, SharedAssumption DEF SharedTypeOK, Gens
<1>b. /\ dialog' = [dialog EXCEPT ![d] = 0] /\ syncing' = [syncing EXCEPT ![d] = "no"]
      /\ vault_locked' = [vault_locked EXCEPT ![d] = Present(disk[d])] /\ UNCHANGED clash
      /\ Present(disk[d]) \in BOOLEAN
  BY DEF Restart, Present
<1>1. CASE /\ Present(disk[d])
          /\ mem' = [mem EXCEPT ![d] = disk[d]]
          /\ slots' = [slots EXCEPT ![d] = Seeded(slots[d], disk[d])]
          /\ lck' = [lck EXCEPT ![d] = 0] /\ keys' = [keys EXCEPT ![d] = FALSE]
          /\ session' = [session EXCEPT ![d] = FALSE]
          /\ UNCHANGED <<disk, made, forgotten>>
  <2>1. Wrote(d, disk[d], 0)
    BY <1>0, <1>a, <1>b, <1>1, LocalTypes, FileTypes, FileOpens, HoldWrites DEF files
  <2>2. Moved(d)
    BY <1>0, <1>a, <1>b, <1>1, LocalTypes, FileTypes DEF SharedTypeOK, Of, Moved, files
  <2>3. slots' = [slots EXCEPT ![d] = Seeded(slots[d], disk[d])] /\ lck' = [lck EXCEPT ![d] = 0]
    BY <1>0, <1>a, <1>b, <1>1 DEF SharedTypeOK, Of, files
  <2>4. made' \in Gens /\ clash' \in BOOLEAN /\ (clash => clash')
    BY <1>0, <1>a, <1>b, <1>1 DEF SharedTypeOK, files
  <2>5. ~clash' /\ Opens(disk[d]) /\ Opens(mem[d]) /\ Fits(d) => Opens(disk[d]) /\ ~Misfit(disk[d], 0)
    BY <1>0, <1>a, <1>b, <1>1, ReloadTypes, LocalTypes, FileOpens DEF Fits, Misfit, Opens, files
  <2>6. forgotten'[d] /\ d # Home => ~keys'[d] /\ ~session'[d] /\ (Seeded(slots[d], disk[d])).dev # d
    BY <1>0, <1>a, <1>b, <1>1, SlotOwners, LocalTypes DEF SharedInv, ForgetInv, SharedTypeOK, Of, NoSlot, files
  <2>7. (disk[d]) \in Caches /\ (0) \in Gens /\ (Seeded(slots[d], disk[d])) \in Slots
    BY <1>0, <1>a, <1>b, <1>1, LocalTypes, FileTypes, SlotTypes DEF files
  <2>. QED
    BY <2>1, <2>2, <2>3, <2>4, <2>5, <2>6, <2>7, StepKeeps
<1>2. CASE /\ mem' = [mem EXCEPT ![d] = NoFile]
          /\ lck' = [lck EXCEPT ![d] = 0]
          /\ \E in \in BOOLEAN :
                /\ keys' = [keys EXCEPT ![d] = in] /\ session' = [session EXCEPT ![d] = in]
                /\ forgotten' = [forgotten EXCEPT ![d] = forgotten[d] /\ ~in]
          /\ UNCHANGED <<files, made>>
  <2>1. Wrote(d, NoFile, 0)
    BY <1>0, <1>a, <1>b, <1>2, LocalTypes, FileTypes, FileOpens, HoldWrites DEF files
  <2>2. Moved(d)
    <3>1. PICK in \in BOOLEAN :
              /\ keys' = [keys EXCEPT ![d] = in] /\ session' = [session EXCEPT ![d] = in]
              /\ forgotten' = [forgotten EXCEPT ![d] = forgotten[d] /\ ~in]
      BY <1>2
    <3>2. (forgotten[d] /\ ~in) \in BOOLEAN
      OBVIOUS
    <3>3. /\ keys' \in Of(BOOLEAN) /\ session' \in Of(BOOLEAN) /\ forgotten' \in Of(BOOLEAN)
          /\ \A e \in Devices : e # d =>
                keys'[e] = keys[e] /\ session'[e] = session[e] /\ forgotten'[e] = forgotten[e]
      BY <1>0, <3>1, <3>2 DEF SharedTypeOK, Of
    <3>. QED
      BY <1>0, <1>b, <3>3, FileTypes DEF SharedTypeOK, Of, Moved
  <2>3. slots' = [slots EXCEPT ![d] = slots[d]] /\ lck' = [lck EXCEPT ![d] = 0]
    BY <1>0, <1>a, <1>b, <1>2 DEF SharedTypeOK, Of, files
  <2>4. made' \in Gens /\ clash' \in BOOLEAN /\ (clash => clash')
    BY <1>0, <1>a, <1>b, <1>2 DEF SharedTypeOK, files
  <2>5. ~clash' /\ Opens(disk[d]) /\ Opens(mem[d]) /\ Fits(d) => Opens(NoFile) /\ ~Misfit(NoFile, 0)
    BY <1>0, <1>a, <1>b, <1>2, ReloadTypes, LocalTypes, FileOpens DEF Fits, Misfit, Opens, files
  <2>6. forgotten'[d] /\ d # Home => ~keys'[d] /\ ~session'[d] /\ (slots[d]).dev # d
    BY <1>0, <1>a, <1>b, <1>2, ReloadTypes, SharedAssumption DEF SharedInv, ForgetInv, SharedTypeOK, Of, NoSlot, files
  <2>7. (NoFile) \in Caches /\ (0) \in Gens /\ (slots[d]) \in Slots
    BY <1>0, <1>a, <1>b, <1>2, LocalTypes, FileTypes, SlotTypes DEF files
  <2>. QED
    BY <2>1, <2>2, <2>3, <2>4, <2>5, <2>6, <2>7, StepKeeps
<1>3. CASE /\ made < MaxGen
          /\ Save(d, Written(made + 1)) /\ made' = made + 1
          /\ lck' = [lck EXCEPT ![d] = made + 1]
          /\ slots' = [slots EXCEPT ![d] = [dev |-> d, gen |-> made + 1]]
          /\ keys' = [keys EXCEPT ![d] = TRUE] /\ session' = [session EXCEPT ![d] = TRUE]
          /\ forgotten' = [forgotten EXCEPT ![d] = FALSE]
  <2>1. Wrote(d, Written(made + 1), made + 1)
    BY <1>0, <1>a, <1>b, <1>3, LocalTypes, FileTypes, FileOpens, SaveWrites DEF files
  <2>2. Moved(d)
    BY <1>0, <1>a, <1>b, <1>3, LocalTypes, FileTypes DEF SharedTypeOK, Of, Moved, files
  <2>3. slots' = [slots EXCEPT ![d] = [dev |-> d, gen |-> made + 1]] /\ lck' = [lck EXCEPT ![d] = made + 1]
    BY <1>0, <1>a, <1>b, <1>3 DEF SharedTypeOK, Of, files
  <2>4. made' \in Gens /\ clash' \in BOOLEAN /\ (clash => clash')
    BY <1>0, <1>a, <1>b, <1>3 DEF SharedTypeOK, files
  <2>5. ~clash' /\ Opens(disk[d]) /\ Opens(mem[d]) /\ Fits(d) => Opens(Written(made + 1)) /\ ~Misfit(Written(made + 1), made + 1)
    BY <1>0, <1>a, <1>b, <1>3, ReloadTypes, LocalTypes, FileOpens DEF Fits, Misfit, Opens, files
  <2>6. forgotten'[d] /\ d # Home => ~keys'[d] /\ ~session'[d] /\ ([dev |-> d, gen |-> made + 1]).dev # d
    BY <1>0, <1>a, <1>b, <1>3, ReloadTypes, SharedAssumption DEF SharedInv, ForgetInv, SharedTypeOK, Of, NoSlot, files
  <2>7. (Written(made + 1)) \in Caches /\ (made + 1) \in Gens /\ ([dev |-> d, gen |-> made + 1]) \in Slots
    BY <1>0, <1>a, <1>b, <1>3, LocalTypes, FileTypes, SlotTypes DEF files
  <2>. QED
    BY <2>1, <2>2, <2>3, <2>4, <2>5, <2>6, <2>7, StepKeeps
<1>. QED
  BY <1>1, <1>2, <1>3 DEF Restart

\* A file copied by the cloud client opens as it did where it comes from.
LEMMA ReplicateKeeps ==
    ASSUME SharedInv, NEW d \in Devices, NEW e \in Devices, Replicate(d, e)
    PROVE  SharedInv'
<1>1. disk \in Of(Caches) /\ disk' = [disk EXCEPT ![e] = disk[d]]
  BY DEF SharedInv, SharedTypeOK, Replicate
<1>2. \A x \in Devices : disk'[x] = disk[x] \/ disk'[x] = disk[d]
  BY <1>1 DEF Of
<1>3. UNCHANGED <<slots, mem, lck, vault_locked, keys, session, dialog, syncing, made, clash, forgotten>>
  BY DEF Replicate, state, waiting
<1>4. SharedTypeOK'
  BY <1>1, <1>3 DEF SharedInv, SharedTypeOK, Of
<1>5. OpensInv'
  BY <1>2, <1>3 DEF SharedInv, OpensInv, Opens, Fits, Present
<1>6. ForgetInv'
  BY <1>2, <1>3 DEF SharedInv, ForgetInv, Plain
<1>. QED
  BY <1>4, <1>5, <1>6 DEF SharedInv

-----------------------------------------------------------------------------
\* The machines start with one old file that opens, and locked.
LEMMA SharedInit == Init => SharedInv
<1>. SUFFICES ASSUME Init PROVE SharedInv
  OBVIOUS
<1>1. 1 \in Gens /\ 0 \in Gens
  BY SharedAssumption DEF Gens
<1>2. OldFile.slot \in Slots /\ OldFile \in Caches
  BY <1>1, SharedAssumption DEF OldFile, Slots, Caches
<1>3. Opens(OldFile) /\ Plain(OldFile)
  BY DEF OldFile, Opens, Plain
<1>4. SharedTypeOK
  BY <1>1, <1>2, FileTypes DEF Init, SharedTypeOK, Of
<1>5. OpensInv
  BY <1>3 DEF Init, OpensInv, Fits
<1>6. ForgetInv
  BY <1>3 DEF Init, ForgetInv
<1>. QED
  BY <1>4, <1>5, <1>6 DEF SharedInv

\* Every step keeps the invariant.
LEMMA SharedStep == SharedInv /\ [Next]_vars => SharedInv'
<1>. SUFFICES ASSUME SharedInv, [Next]_vars PROVE SharedInv'
  OBVIOUS
<1>1. CASE UNCHANGED vars
  <2>1. UNCHANGED <<disk, slots, mem, lck, vault_locked, keys, session, dialog, syncing, made, clash, forgotten>>
    BY <1>1 DEF vars, files, state, waiting
  <2>. QED
    BY <2>1 DEF SharedInv, SharedTypeOK, OpensInv, ForgetInv, Fits, Opens, Present, Plain
<1>2. ASSUME NEW d \in Devices, Command(d) PROVE SharedInv'
  BY <1>2, UnlockInVainKeeps, UnlockSlotKeeps, UnlockDialogKeeps, UnlockPinKeeps, LockKeeps,
     LoginKeeps, SetPinKeeps, ForgetDeviceKeeps, ForgetSharedKeeps, SyncLockedKeeps,
     SyncStartKeeps DEF Command
<1>. QED
  BY <1>1, <1>2, SyncPinKeeps, SyncFetchKeeps, AutoSyncKeeps, AutoUnlockSlotKeeps,
     DialogOpensKeeps, DialogPinKeeps, RestartKeeps, ReplicateKeeps DEF Next

\* The inductive invariant.
THEOREM SharedInvariant == Spec => []SharedInv
BY SharedInit, SharedStep, PTL DEF Spec

\* The machines' files, slots and keys keep their types, whatever order they
\* write, receive and forget the shared cache in.
THEOREM SharedTypeCorrect == Spec => []SharedTypeOK
<1>1. SharedInv => SharedTypeOK
  BY DEF SharedInv
<1>. QED
  BY <1>1, SharedInvariant, PTL

\* On every machine the shared file opens with its own PIN slot, unless a daemon
\* took in a cache under a key that nothing compared with it.
THEOREM SharedCacheOpens == Spec => []SharedOpens
<1>1. SharedInv => SharedOpens
  BY DEF SharedInv, OpensInv, SharedOpens
<1>. QED
  BY <1>1, SharedInvariant, PTL

\* A device told to forget holds no private keys before its user gives the PIN or
\* the password again; only Home, whose slot an old file carries, is excepted.
THEOREM DeviceForgets == Spec => []ForgetSticks
<1>1. SharedInv => ForgetSticks
  BY DEF SharedInv, ForgetInv, ForgetSticks
<1>. QED
  BY <1>1, SharedInvariant, PTL
=============================================================================
