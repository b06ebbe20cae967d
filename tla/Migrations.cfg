SPECIFICATION Spec
INVARIANT StampTellsSchema
INVARIANT HeadIsTheModels
INVARIANT OnlyOldPromotionIdsRefused
CHECK_DEADLOCK FALSE
