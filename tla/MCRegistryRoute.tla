-------------------------- MODULE MCRegistryRoute --------------------------
(* The part of navigation_registry_seed.json and of GDS2 that is about the *)
(* trouble codes of the engine control module.                             *)
EXTENDS RegistryRoute, TLC

MD == "Module Diagnostics"
VD == "Vehicle Diagnostics"
VDI == "Vehicle DTC Information"
ECM == "Engine Control Module"
DTC == "Diagnostic Trouble Codes (DTC)"

Tree ==
    "main" :> [page |-> "main_menu", path |-> <<>>, go |-> "Diagnostics" :> "novehicle"]
 @@ "novehicle" :> [page |-> "vehicle_selection", path |-> <<>>,
                    go |-> "Select Device" :> "explorer" @@ "Back" :> "main"]
 @@ "explorer" :> [page |-> "device_explorer", path |-> <<>>, go |-> "Continue" :> "vehicle"]
 @@ "vehicle" :> [page |-> "vehicle_selection", path |-> <<>>,
                  go |-> "Enter" :> "menu" @@ "Back" :> "main"]
 @@ "menu" :> [page |-> "diagnostics_menu", path |-> <<>>,
               go |-> MD :> "modules" @@ VD :> "vehicles" @@ "Back" :> "vehicle"]
 @@ "modules" :> [page |-> "module_list", path |-> <<MD>>,
                  go |-> ECM :> "module" @@ "Back" :> "menu"]
 @@ "module" :> [page |-> "module_submenu", path |-> <<MD, ECM>>,
                 go |-> DTC :> "codes" @@ "Data Display" :> "data" @@ "Back" :> "modules"]
 @@ "data" :> [page |-> "data_list", path |-> <<MD, ECM, "Data Display">>,
               go |-> "Engine Data" :> "engine" @@ "Back" :> "module"]
 @@ "engine" :> [page |-> "data_display", path |-> <<MD, ECM, "Data Display", "Engine Data">>,
                 go |-> "Back" :> "data"]
 @@ "codes" :> [page |-> "data_list", path |-> <<MD, ECM, DTC>>,
                go |-> "DTC Display" :> "display" @@ "Back" :> "module"]
 @@ "display" :> [page |-> "data_display", path |-> <<MD, ECM, DTC, "DTC Display">>,
                  go |-> "Clear DTCs" :> "selection" @@ "Back" :> "codes"]
 @@ "selection" :> [page |-> "clear_dtcs_selection", path |-> <<>>,
                    go |-> "Add All" :> "selected" @@ "Back" :> "display"]
 @@ "selected" :> [page |-> "clear_dtcs_selection", path |-> <<>>,
                   go |-> "OK" :> "confirm" @@ "Back" :> "display"]
 @@ "confirm" :> [page |-> "clear_dtcs_confirmation", path |-> <<>>,
                  go |-> "OK" :> "display" @@ "Back" :> "selected"]
 @@ "vehicles" :> [page |-> "data_list", path |-> <<VD>>,
                   go |-> VDI :> "vehicle codes" @@ "Back" :> "menu"]
 @@ "vehicle codes" :> [page |-> "data_display", path |-> <<VD, VDI>>,
                        go |-> "Clear DTCs" :> "v selection" @@ "Back" :> "vehicles"]
 @@ "v selection" :> [page |-> "clear_dtcs_selection", path |-> <<>>,
                      go |-> "Add All" :> "v selected" @@ "Back" :> "vehicle codes"]
 @@ "v selected" :> [page |-> "clear_dtcs_selection", path |-> <<>>,
                     go |-> "OK" :> "v confirm" @@ "Back" :> "vehicle codes"]
 @@ "v confirm" :> [page |-> "clear_dtcs_confirmation", path |-> <<>>,
                    go |-> "OK" :> "vehicle codes" @@ "Back" :> "v selected"]

MCPlaces == DOMAIN Tree
MCPageOf == [p \in MCPlaces |-> Tree[p].page]
MCPathOf == [p \in MCPlaces |-> Tree[p].path]
\* Every page with a path has a Home button.
MCLeads == [p \in MCPlaces |-> Tree[p].go @@ (IF Tree[p].path = <<>> THEN <<>> ELSE "Home" :> "main")]
MCListed == {MD, VD, VDI, ECM, DTC, "Data Display", "DTC Display", "Engine Data"}
MCLearned ==
    "diagnostics_menu" :> {MD, VD} @@ "module_list" :> {ECM}
 @@ "module_submenu" :> {DTC, "Data Display"} @@ "data_list" :> {"DTC Display", "Engine Data", VDI}

Walk == <<MD, ECM, DTC, "DTC Display">>
Data == <<MD, ECM, "Data Display", "Engine Data">>
Clear == <<"Clear DTCs", "Add All", "OK", "OK">>

MCRegistry ==
    "diagnostics.module_diagnostics" :>
        [steps |-> <<"Diagnostics", "Enter", MD>>, optional |-> {"Diagnostics", "Enter"}, verified |-> {},
         target |-> MD, path |-> <<MD>>, kind |-> "diagnostics_menu",
         pages |-> {"module_list"}, goals |-> {"modules"}, requires |-> {}]
 @@ "dtc.display" :>
        [steps |-> Walk, optional |-> {}, verified |-> {}, target |-> "DTC Display", path |-> Walk,
         kind |-> "data_display", pages |-> {"data_display"}, goals |-> {"display"},
         requires |-> {}]
 @@ "data.engine_data" :>
        [steps |-> Data, optional |-> {}, verified |-> {}, target |-> "Engine Data", path |-> Data,
         kind |-> "data_display", pages |-> {"data_display"}, goals |-> {"engine"},
         requires |-> {}]
 @@ "vehicle_dtc.information" :>
        [steps |-> <<VD, VDI>>, optional |-> {}, verified |-> {}, target |-> VDI, path |-> <<VD, VDI>>,
         kind |-> "data_display", pages |-> {"data_display", "data_list"},
         goals |-> {"vehicle codes"}, requires |-> {}]
 @@ "vehicle_dtc.clear.execute" :>
        SyntheticClear(<<VD, VDI>>, {"data_display"}, {"vehicle codes"})
 @@ "dtc.clear.execute" :>
        [steps |-> Walk \o Clear, optional |-> {}, verified |-> {"Add All"}, target |-> "OK", path |-> Walk \o Clear,
         kind |-> "clear_dtcs_execute", pages |-> {"data_display", "data_list"},
         goals |-> {"display", "codes"}, requires |-> {"Add All", "OK"}]
 @@ "data_display.clear.execute" :>
        SyntheticClear(Walk, {"data_display", "data_list"}, {"display", "codes", "data"})

MCDisplayOf == "module" :> "dtc.display" @@ "vehicle" :> "vehicle_dtc.information"
MCClearOf ==
    "vehicle" :> "vehicle_dtc.clear.execute" @@ "module" :> "dtc.clear.execute" @@ "data display" :> "data_display.clear.execute"

MCEntries == DOMAIN MCRegistry
MCClearEntries == {"vehicle_dtc.clear.execute", "dtc.clear.execute", "data_display.clear.execute"}
MCConfirms == {"confirm", "v confirm"}
=============================================================================
