------------------------ MODULE MCPreferences_proofs ------------------------
(***************************************************************************)
(* Proofs about the system MCPreferences puts together, for every value of *)
(* its constants: each part keeps its word whichever part runs.            *)
(***************************************************************************)
EXTENDS MCPreferences, LocalData_proofs, Preferences_proofs, Texts_proofs

partsVars == <<settingsVars, storageVars, dictionaryVars, lifecycleVars, providersVars,
               refinementVars, pagesVars, revisionVars, migrationVars, part>>

(* A step of the system is one of the part that runs, and changes nothing  *)
(* of the others.                                                          *)
LEMMA PartStep ==
    ASSUME [Next]_partsVars
    PROVE  /\ [SettingsNext]_settingsVars /\ [StorageNext]_storageVars
           /\ [DictionaryNext]_dictionaryVars /\ [LifecycleNext]_lifecycleVars
           /\ [ProvidersNext]_providersVars /\ [RefinementNext]_refinementVars
           /\ [RevisionNext]_revisionVars /\ [MigrationsNext]_migrationVars
           /\ [PagesNext]_pagesVars /\ UNCHANGED part
BY DEF Next, partsVars, PagesNext

LEMMA PartsImplement ==
    Spec => /\ SettingsSpec /\ StorageSpec /\ DictionarySpec /\ LifecycleSpec
            /\ ProvidersSpec /\ RefinementSpec /\ RevisionSpec /\ MigrationsSpec
            /\ PagesSpec /\ [](part \in Parts)
<1>1. Init => /\ SettingsInit /\ StorageInit /\ DictionaryInit /\ LifecycleInit
              /\ ProvidersInit /\ RefinementInit /\ RevisionInit /\ MigrationsInit
              /\ PagesInit /\ part \in Parts
  BY DEF Init
<1>2. [Next]_partsVars =>
          /\ [SettingsNext]_settingsVars /\ [StorageNext]_storageVars
          /\ [DictionaryNext]_dictionaryVars /\ [LifecycleNext]_lifecycleVars
          /\ [ProvidersNext]_providersVars /\ [RefinementNext]_refinementVars
          /\ [RevisionNext]_revisionVars /\ [MigrationsNext]_migrationVars
          /\ [PagesNext]_pagesVars
  BY PartStep
<1>3. part \in Parts /\ [Next]_partsVars => (part \in Parts)'
  BY PartStep
<1> QED
  BY <1>1, <1>2, <1>3, PTL
     DEF Spec, SettingsSpec, StorageSpec, DictionarySpec, LifecycleSpec, ProvidersSpec,
         RefinementSpec, RevisionSpec, MigrationsSpec, PagesSpec, partsVars

(* Each part keeps to what the types of its code allow, as long as it runs. *)
THEOREM PartsTypeCorrect == Spec => []PartsTypeOK
<1>1. /\ SettingsTypeOK /\ StorageTypeOK /\ DictionaryTypeOK /\ LifecycleTypeOK
      /\ ProvidersTypeOK /\ RefinementTypeOK /\ RevisionTypeOK /\ MigrationsTypeOK
      /\ PagesTypeOK
      => PartsTypeOK
  <2> HIDE DEF SettingsTypeOK, StorageTypeOK, DictionaryTypeOK, LifecycleTypeOK,
      ProvidersTypeOK, RefinementTypeOK, RevisionTypeOK, MigrationsTypeOK, PagesTypeOK
  <2> QED
    BY DEF PartsTypeOK
<1> QED
  BY <1>1, PartsImplement, SettingsTypeCorrect, StorageTypeCorrect, DictionaryTypeCorrect,
     LifecycleTypeCorrect, ProvidersTypeCorrect, RefinementTypeCorrect, RevisionTypeCorrect,
     MigrationsTypeCorrect, PagesTypeCorrect, PTL

(* Consent binds, whichever part runs.                                     *)
THEOREM ConsentHoldsCorrect == Spec => []ConsentHolds
<1>1. ConsentBinds /\ SendsOnlyWhereAgreed => ConsentHolds
  BY DEF ConsentHolds
<1> QED
  BY <1>1, PartsImplement, ConsentBindsCorrect, SendsWhereAgreed, PTL
=============================================================================
