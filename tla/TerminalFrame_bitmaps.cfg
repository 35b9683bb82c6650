SPECIFICATION PictureSpec
CONSTANTS
  Images = {1, 2, 3}
  Shapes <- OnePixel
  ScreenSizes <- OneSize
  Capacity = 2
  CacheLimit = 2
  MaxSide = 2
  MaxGeneration = 3
CHECK_DEADLOCK FALSE
INVARIANT DrawnBitmapAlive
