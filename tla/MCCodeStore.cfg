SPECIFICATION Spec
CONSTANTS
  Keys <- MCKeys
  BlockSize <- MCBlockSize
  PAGE_SIZE = 64
  Pages = {1, 2, 3, 4, 5, 6, 7, 8, 9, 10, 11, 12, 13, 14, 15, 16, 17, 18, 19, 20}
  DEFAULT_DICT_SLOTS = 3
  MaxMaskBits = 4
  LOG_PAGES_NR = 1
  LZO1X_1_MEM_COMPRESS = 64
INVARIANTS FreeSlot PagesOwned
PROPERTY IsBlockMap
